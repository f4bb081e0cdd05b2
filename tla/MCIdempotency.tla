--------------------------- MODULE MCIdempotency ---------------------------
(* An instance of Idempotency for TLC: two copies of a request, the same request from *)
(* another tab with a key of its own, and another session's with the first key.       *)
EXTENDS Idempotency

CONSTANTS c1, c2, c3, c4, k1, k2, b1, b2

Keys == [c \in Caller |-> IF c = c3 THEN k2 ELSE k1]
Bodies == [c \in Caller |-> IF c = c4 THEN b2 ELSE b1]
=============================================================================
