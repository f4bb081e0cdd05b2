---------------------------- MODULE MCPayments ----------------------------
(* Instances of Payments for TLC. *)
EXTENDS Payments, TLC

CONSTANTS h1, h2

Symmetry == Permutations(Handler) \cup Permutations(Payment) \cup Permutations(Item)
=============================================================================
