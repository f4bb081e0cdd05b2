---------------------------- MODULE MCStorefront ----------------------------
(***************************************************************************)
(* Small instances of Storefront for TLC.                                  *)
(***************************************************************************)
EXTENDS Storefront, TLC

CONSTANTS s1, s2

\* Carts are not among them: TLC's sets of Nil and carts stay small as they are.
Symmetry == Permutations(Request)
=============================================================================
