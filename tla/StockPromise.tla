---------------------------- MODULE StockPromise ----------------------------
(***************************************************************************)
(* What the stock engine promises its callers, without counters: a promise *)
(* of stock is made only when the units are there, it stays good until it  *)
(* is kept or withdrawn, and that happens once.  Inventory implements this *)
(* with the available and reserved quantities of a balance row.            *)
(***************************************************************************)
EXTENDS Integers, FiniteSets

CONSTANTS Row, Promise, MaxQty, None

VARIABLES
  owned,    \* units of a row that are sellable or promised
  promise   \* what each promise is for and how it ended

vars == <<owned, promise>>

PromiseStatus == {"none", "open", "kept", "withdrawn"}
NoPromise == [status |-> "none", row |-> None, qty |-> 0]

\* The promised units of row k, one element for each.
OpenUnits(k) ==
  {u \in Promise \X (1..MaxQty) : /\ promise[u[1]].status = "open"
                                  /\ promise[u[1]].row = k
                                  /\ u[2] <= promise[u[1]].qty}

\* No promise is made of a unit that is not there (brief 25: no overselling).
NeverOversold == \A k \in Row : Cardinality(OpenUnits(k)) <= owned[k]

\* A checkout is promised all its lines or none.
Give(P, row, qty) ==
  /\ P # {}
  /\ \A p \in P : promise[p].status = "none"
  /\ promise' = [p \in Promise |->
       IF p \in P THEN [status |-> "open", row |-> row[p], qty |-> qty[p]] ELSE promise[p]]
  /\ NeverOversold'
  /\ UNCHANGED owned

Withdraw(P) ==
  /\ P # {}
  /\ \A p \in P : promise[p].status = "open"
  /\ promise' = [p \in Promise |->
       IF p \in P THEN [promise[p] EXCEPT !.status = "withdrawn"] ELSE promise[p]]
  /\ UNCHANGED owned

\* The units leave the warehouse.
Keep(p) ==
  /\ promise[p].status = "open"
  /\ promise' = [promise EXCEPT ![p].status = "kept"]
  /\ owned' = [owned EXCEPT ![promise[p].row] = @ - promise[p].qty]

\* Receipts, corrections and transfers change what a row owns, never below its promises.
Restock ==
  /\ owned' \in [Row -> Nat]
  /\ NeverOversold'
  /\ UNCHANGED promise

Init ==
  /\ owned \in [Row -> Nat]
  /\ promise = [p \in Promise |-> NoPromise]

Next ==
  \/ \E P \in SUBSET Promise : \E row \in [P -> Row], qty \in [P -> 1..MaxQty] :
       Give(P, row, qty)
  \/ \E P \in SUBSET Promise : Withdraw(P)
  \/ \E p \in Promise : Keep(p)
  \/ Restock

Spec == Init /\ [][Next]_vars
=============================================================================
