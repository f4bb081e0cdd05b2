---------------------------- MODULE MCCheckout ----------------------------
(* Instances of Checkout for TLC. *)
EXTENDS Checkout

CONSTANTS r1, r2, s1, s2, u1, u2

OneCustomer == [s \in Session |-> u1]
=============================================================================
