----------------------------- MODULE MCReviews -----------------------------
(***************************************************************************)
(* A small instance of Reviews for TLC.                                    *)
(***************************************************************************)
EXTENDS Reviews, TLC

\* Users and requests are interchangeable.
Symmetry == Permutations(User) \cup Permutations(Request)
=============================================================================
