----------------------------- MODULE Aftersale -----------------------------
(***************************************************************************)
(* Returns and the seller's ledger joined by the outbox: the finance       *)
(* consumer (finance.consumer.ts) posts an item's earnings when it is      *)
(* delivered and reverses them when it is returned, in whatever order the  *)
(* two events reach it, and settlements are made of what is posted.        *)
(*                                                                         *)
(* A worker handles one event at a time in one transaction.  It reads the  *)
(* status of a delivered item and then posts; the customer, the seller and *)
(* the warehouse act in between.                                           *)
(***************************************************************************)
EXTENDS Returns, Integers

CONSTANTS
  Worker,     \* worker processes
  Kept,       \* entry types posted for a delivery that a return does not reverse
  Returned,   \* entry types that it does: SALE, COMMISSION and the platform's fee
  MaxFaults,  \* bound: consumer transactions that fail
  Adjustment, Person, Period, Worth, Selects

Earning == Kept \cup Returned
Earnings(i) == {i} \X (Earning \X {"EARNED"})
Reversals(i) == {i} \X (Returned \X {"REVERSED"})
Entry == UNION {Earnings(i) \cup Reversals(i) : i \in Item} \cup Adjustment

ASSUME AftersaleAssumption ==
  /\ Earning # {} /\ Kept \cap Returned = {}
  /\ Adjustment \cap UNION {Earnings(i) \cup Reversals(i) : i \in Item} = {}
  /\ MaxFaults \in Nat
  /\ Worth \in [Entry -> Int]
  /\ Selects \in [Period -> SUBSET Entry]
  /\ None \notin Period

VARIABLES
  reading,  \* the item whose earnings a worker is about to post
  faults,   \* transactions that may still fail
  ledger, pin, settlement, adjustment

INSTANCE Settlement
books == <<ledger, pin, settlement, adjustment>>
consumerVars == <<reading, faults>>
vars == <<returnVars, consumerVars, books>>

-----------------------------------------------------------------------------
Reversible(i) == {e \in Earnings(i) : Posted(e) /\ e[2][1] \in Returned}
ReversalOf(e) == <<e[1], <<e[2][1], "REVERSED">>>>

\* Mutant: a shipment that was delivered is taken to have delivered its items.
MutReadItem(w, i) ==
  /\ reading[w] = None
  /\ Delivered(i) \in events
  /\ ~\E v \in Worker : reading[v] = i
  /\ reading' = [reading EXCEPT ![w] = i]
  /\ UNCHANGED <<item, request, intent, events, faults, books>>

\* postEarnings reads the item and skips one that is not DELIVERED, or no longer.
ReadItem(w, i) ==
  /\ reading[w] = None
  /\ Delivered(i) \in events
  /\ ~\E v \in Worker : reading[v] = i
  /\ IF item[i].status = "DELIVERED"
     THEN reading' = [reading EXCEPT ![w] = i] /\ UNCHANGED events
     ELSE events' = events \ {Delivered(i)} /\ UNCHANGED reading
  /\ UNCHANGED <<item, request, intent, faults, books>>

\* post_order_item_earnings: all of them or none.
PostEarnings(w) ==
  LET i == reading[w] IN
  /\ i # None
  /\ ledger' = WithPosted(Earnings(i))
  /\ events' = events \ {Delivered(i)}
  /\ reading' = [reading EXCEPT ![w] = None]
  /\ UNCHANGED <<item, request, intent, faults, pin, settlement, adjustment>>

\* reverseEarnings: new entries for those that are posted, none if there are none.
ReverseEarnings(w, r) ==
  LET i == request[r].item IN
  /\ reading[w] = None
  /\ Received(r) \in events
  /\ ledger' = WithPosted({ReversalOf(e) : e \in Reversible(i)})
  /\ events' = events \ {Received(r)}
  /\ UNCHANGED <<item, request, intent, reading, faults, pin, settlement, adjustment>>

\* The transaction fails or the worker dies: the event is still there and is tried again.
ConsumeFails(w) ==
  /\ faults > 0 /\ faults' = faults - 1
  /\ reading[w] # None
  /\ reading' = [reading EXCEPT ![w] = None]
  /\ UNCHANGED <<item, request, intent, events, books>>

-----------------------------------------------------------------------------
Init ==
  /\ ReturnsInit /\ FinanceInit
  /\ reading = [w \in Worker |-> None]
  /\ faults = MaxFaults

Consume(w) ==
  \/ \E i \in Item : ReadItem(w, i)
  \/ PostEarnings(w)
  \/ \E r \in Request : ReverseEarnings(w, r)

Next ==
  \/ ReturnsNext /\ UNCHANGED <<consumerVars, books>>
  \/ FinanceNext /\ UNCHANGED <<returnVars, consumerVars>>
  \/ \E w \in Worker : Consume(w) \/ ConsumeFails(w)

Spec == Init /\ [][Next]_vars

-----------------------------------------------------------------------------
TypeOK ==
  /\ ReturnsTypeOK /\ FinanceTypeOK
  /\ reading \in [Worker -> Item \cup {None}]
  /\ faults \in 0..MaxFaults

OneWorker == \A v, w \in Worker : v = w

\* Nobody keeps the earnings of what came back.  With one worker, once a return that passed
\* its inspection has been consumed, every earning of its item that a return reverses is
\* either not posted, and never will be, or reversed, although the delivery may be consumed
\* after the return (finance.consumer.ts:59, 112).
ReturnedIsReversed ==
  OneWorker => \A r \in Request, i \in Item :
    (/\ request[r].item = i
     /\ request[r].status \in {"QC_PASSED", "REFUND_INITIATED"}
     /\ Received(r) \notin events) =>
      /\ \A w \in Worker : reading[w] # i
      /\ \A e \in Reversible(i) : Posted(ReversalOf(e))
=============================================================================
