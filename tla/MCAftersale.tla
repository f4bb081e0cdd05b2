---------------------------- MODULE MCAftersale ----------------------------
(* An instance of Aftersale for TLC: one item of two units, two return requests, a sale with *)
(* its commission, an adjustment, and two settlement periods that share no entry.            *)
EXTENDS Aftersale, TLC

CONSTANTS i1, r1, r2, w1, a1, u1, u2, p1, p2

Paise ==
  [e \in Entry |->
    CASE e = a1 -> 1
      [] e # a1 /\ e[2] = <<"SALE", "EARNED">>         -> 3
      [] e # a1 /\ e[2] = <<"COMMISSION", "EARNED">>   -> -1
      [] e # a1 /\ e[2] = <<"SALE", "REVERSED">>       -> -3
      [] e # a1 /\ e[2] = <<"COMMISSION", "REVERSED">> -> 1
      [] OTHER -> -1]

\* The return comes back in the second period.
Dates == [p \in Period |-> IF p = p2 THEN Reversals(i1) ELSE Entry \ Reversals(i1)]

Symmetry == Permutations(Request) \cup Permutations(Person)
=============================================================================
