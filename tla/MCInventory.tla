---------------------------- MODULE MCInventory ----------------------------
(***************************************************************************)
(* A small instance of Inventory for TLC.                                  *)
(***************************************************************************)
EXTENDS Inventory, TLC

\* Ids are interchangeable, so states that differ by a renaming are explored once.
Symmetry == Permutations(Hold) \cup Permutations(Caller) \cup Permutations(Warehouse)
              \cup Permutations(Staff)
=============================================================================
