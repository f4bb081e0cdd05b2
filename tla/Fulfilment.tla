----------------------------- MODULE Fulfilment -----------------------------
(***************************************************************************)
(* From a confirmed order to the customer's door: the seller's and the     *)
(* customer's moves of the items (seller.service.ts, orders.service.ts),   *)
(* shipments and the carrier's reports about them (fulfillment.service.ts) *)
(* and the delivery agent's codes and proofs (delivery.service.ts).        *)
(*                                                                         *)
(* One order of one seller.  A shipment is asked for, handed to the        *)
(* carrier and written in three steps, and a report is judged by a status  *)
(* read before the transaction that applies it; the rest are transactions. *)
(***************************************************************************)
EXTENDS OrderItem, FiniteSets

CONSTANTS
  Item,      \* items of the order
  Parcel,    \* shipments that may be made (bound)
  Key,       \* idempotency keys of create requests
  Tracker,   \* reports handled at a time
  Report,    \* the carrier's event ids
  Says,      \* the normalised status of each
  MaxCodes,  \* bound: codes sent per shipment
  None

\* What the adapters make of a carrier's words (normalizeStatus).
CarrierStatus == {"PICKED_UP", "IN_TRANSIT", "OUT_FOR_DELIVERY", "DELIVERED",
                  "DELIVERY_FAILED", "RTO_INITIATED"}

ASSUME FulfilmentAssumption ==
  /\ Says \in [Report -> CarrierStatus]
  /\ MaxCodes \in Nat
  /\ None \notin ItemStatus

VARIABLES
  item,      \* commerce.order_items: the status of each ...
  reason,    \* ... and whether a reason is written beside it (status_reason)
  order,     \* commerce.orders.status
  shipment,  \* the items, key and status of each shipment, requests under way included
  reading,   \* the report a tracker handles, of which shipment, and the status it read
  recorded,  \* fulfillment.tracking_events: the event ids of each shipment
  code,      \* delivery_otp_challenges: how many were sent, the open ones, the latest in time
  proof      \* delivery_proofs: the code a delivery was proved with, 0 for other proofs

vars == <<item, reason, order, shipment, reading, recorded, code, proof>>
goods == <<item, reason>>
last == <<code, proof>>

InRequest == {"ASKED", "HANDED"}
Terminal == {"DELIVERED", "RTO_DELIVERED", "LOST", "DAMAGED", "CANCELLED"}
ShipmentStatus == {"CREATED", "LABEL_GENERATED"} \cup CarrierStatus

NoShipment == [items |-> {}, key |-> None, status |-> "NONE"]
Made(p) == shipment[p].status \in ShipmentStatus

-----------------------------------------------------------------------------
\* The trigger lets a whole update pass or none of it.
MayMove(S, to, actor, why) == \A i \in S : Allowed(item[i], to, actor, why[i])
Moved(S, to) == [i \in Item |-> IF i \in S THEN to ELSE item[i]]

\* Nothing in the services allocates an item; only the system may.
Allocate(i) ==
  /\ item[i] = "CONFIRMED"
  /\ item' = [item EXCEPT ![i] = "ALLOCATED"]
  /\ UNCHANGED <<reason, order, shipment, reading, recorded, last>>

\* updateOrderItemStatus: any status the table gives the seller, and the reason overwritten.
SellerMove(i, to, why) ==
  /\ to # item[i]
  /\ Allowed(item[i], to, "SELLER", why)
  /\ item' = [item EXCEPT ![i] = to]
  /\ reason' = [reason EXCEPT ![i] = why]
  /\ UNCHANGED <<order, shipment, reading, recorded, last>>

\* cancel: the customer asks, the system grants, in one transaction; once it was asked for
\* some items only, the order is no longer cancellable.
CancelItems(S) ==
  LET T == {i \in S : item[i] \notin {"CANCELLED", "DELIVERED", "RETURN_RECEIVED"}} IN
  /\ order = "CONFIRMED"
  /\ T # {}
  /\ \A i \in T : Allowed(item[i], "CANCELLATION_REQUESTED", "CUSTOMER", TRUE)
  /\ item' = Moved(T, "CANCELLED")
  /\ reason' = [i \in Item |-> i \in T \/ reason[i]]
  /\ order' = IF \A i \in Item : item'[i] = "CANCELLED" THEN "CANCELLED"
              ELSE "CANCELLATION_REQUESTED"
  /\ UNCHANGED <<shipment, reading, recorded, last>>

-----------------------------------------------------------------------------
\* Mutant: items still being packed are taken along.
MutAskShipment(p, S, k) ==
  /\ shipment[p] = NoShipment
  /\ ~\E q \in Parcel : Made(q) /\ (shipment[q].key = k \/ S \subseteq shipment[q].items)
  /\ \A i \in S : item[i] \in {"PROCESSING", "PACKED", "READY_TO_SHIP"}
  /\ shipment' = [shipment EXCEPT ![p] = [items |-> S, key |-> k, status |-> "ASKED"]]
  /\ UNCHANGED <<goods, order, reading, recorded, last>>

\* create reads: no shipment under this key, none with all of these items, and the items
\* packed.
AskShipment(p, S, k) ==
  /\ shipment[p] = NoShipment
  /\ ~\E q \in Parcel : Made(q) /\ (shipment[q].key = k \/ S \subseteq shipment[q].items)
  /\ \A i \in S : item[i] \in {"PACKED", "READY_TO_SHIP"}
  /\ shipment' = [shipment EXCEPT ![p] = [items |-> S, key |-> k, status |-> "ASKED"]]
  /\ UNCHANGED <<goods, order, reading, recorded, last>>

\* ... calls the carrier ...
HandOver(p) ==
  /\ shipment[p].status = "ASKED"
  /\ shipment' = [shipment EXCEPT ![p].status = "HANDED"]
  /\ UNCHANGED <<goods, order, reading, recorded, last>>

\* ... and writes the shipment under the unique index on the key, moving what is packed.
MakeShipment(p, actor) ==
  LET packed == {i \in shipment[p].items : item[i] = "PACKED"} IN
  /\ shipment[p].status = "HANDED"
  /\ ~\E q \in Parcel : Made(q) /\ shipment[q].key = shipment[p].key
  /\ MayMove(packed, "READY_TO_SHIP", actor, reason)
  /\ shipment' = [shipment EXCEPT ![p].status = "CREATED"]
  /\ item' = Moved(packed, "READY_TO_SHIP")
  /\ UNCHANGED <<reason, order, reading, recorded, last>>

\* The carrier fails, or gives a number another shipment has; the key is taken; the process
\* dies.  What was handed over stays with the carrier.
DropRequest(p) ==
  /\ shipment[p].status \in InRequest
  /\ shipment' = [shipment EXCEPT ![p] = NoShipment]
  /\ UNCHANGED <<goods, order, reading, recorded, last>>

GenerateLabel(p) ==
  /\ shipment[p].status = "CREATED"
  /\ shipment' = [shipment EXCEPT ![p].status = "LABEL_GENERATED"]
  /\ UNCHANGED <<goods, order, reading, recorded, last>>

-----------------------------------------------------------------------------
\* trackingRank.
TrackingRank(s) ==
  CASE s = "CREATED" -> 10          [] s = "LABEL_GENERATED" -> 20
    [] s = "PICKED_UP" -> 40        [] s = "IN_TRANSIT" -> 50
    [] s = "DELIVERY_FAILED" -> 65  [] s = "OUT_FOR_DELIVERY" -> 70
    [] s = "RTO_INITIATED" -> 80    [] s = "DELIVERED" -> 100

\* orderStatusForTracking: what becomes of the items, if anything.
ItemTarget(s) ==
  CASE s \in {"PICKED_UP", "IN_TRANSIT"} -> "SHIPPED"
    [] s \in {"OUT_FOR_DELIVERY", "DELIVERED", "RTO_INITIATED"} -> s
    [] OTHER -> None

\* applyTracking reads the shipment ...
ReadReport(t, p, e) ==
  /\ reading[t] = None
  /\ Made(p)
  /\ reading' = [reading EXCEPT ![t] = [parcel |-> p, report |-> e, seen |-> shipment[p].status]]
  /\ UNCHANGED <<goods, order, shipment, recorded, last>>

\* ... and judges the report by what it read.
ShouldApply(seen, status) ==
  /\ seen \notin Terminal
  /\ TrackingRank(status) >= TrackingRank(seen)

Known(r) == r.report \in recorded[r.parcel]
Undelivered(p) == {i \in shipment[p].items : item[i] # "DELIVERED"}
ItemsMayFollow(p, status) ==
  ItemTarget(status) # None => MayMove(Undelivered(p), ItemTarget(status), "SYSTEM", reason)

RecordOnly(t) ==
  LET r == reading[t] IN
  /\ r # None
  /\ ~Known(r) /\ ~ShouldApply(r.seen, Says[r.report])
  /\ recorded' = [recorded EXCEPT ![r.parcel] = @ \cup {r.report}]
  /\ reading' = [reading EXCEPT ![t] = None]
  /\ UNCHANGED <<goods, order, shipment, last>>

ApplyReport(t) ==
  LET r == reading[t]  s == Says[r.report] IN
  /\ r # None
  /\ ~Known(r) /\ ShouldApply(r.seen, s)
  /\ ItemsMayFollow(r.parcel, s)
  /\ recorded' = [recorded EXCEPT ![r.parcel] = @ \cup {r.report}]
  /\ shipment' = [shipment EXCEPT ![r.parcel].status = s]
  /\ item' = IF ItemTarget(s) = None THEN item ELSE Moved(Undelivered(r.parcel), ItemTarget(s))
  /\ reading' = [reading EXCEPT ![t] = None]
  /\ UNCHANGED <<reason, order, last>>

\* Mutant: the event of a refused report is kept, as the payments webhook keeps its own.
MutDropReport(t) ==
  LET r == reading[t] IN
  /\ r # None
  /\ \/ Known(r)
     \/ ShouldApply(r.seen, Says[r.report]) /\ ~ItemsMayFollow(r.parcel, Says[r.report])
  /\ recorded' = [recorded EXCEPT ![r.parcel] = @ \cup {r.report}]
  /\ reading' = [reading EXCEPT ![t] = None]
  /\ UNCHANGED <<goods, order, shipment, last>>

\* A report recorded before does nothing; one the item table refuses leaves nothing behind,
\* its event included, and the carrier repeats it.
DropReport(t) ==
  LET r == reading[t] IN
  /\ r # None
  /\ \/ Known(r)
     \/ ShouldApply(r.seen, Says[r.report]) /\ ~ItemsMayFollow(r.parcel, Says[r.report])
  /\ reading' = [reading EXCEPT ![t] = None]
  /\ UNCHANGED <<goods, order, shipment, recorded, last>>

-----------------------------------------------------------------------------
\* Mutant: the codes sent before stay open.
MutRequestOtp(p) ==
  /\ Made(p) /\ shipment[p].status \notin Terminal
  /\ code[p].sent < MaxCodes
  /\ code' = [code EXCEPT ![p] =
               [sent |-> @.sent + 1, open |-> @.open \cup {@.sent + 1}, fresh |-> TRUE]]
  /\ UNCHANGED <<goods, order, shipment, reading, recorded, proof>>

\* requestOtp: what is open is closed, another code is sent.
RequestOtp(p) ==
  /\ Made(p) /\ shipment[p].status \notin Terminal
  /\ code[p].sent < MaxCodes
  /\ code' = [code EXCEPT ![p] = [sent |-> @.sent + 1, open |-> {@.sent + 1}, fresh |-> TRUE]]
  /\ UNCHANGED <<goods, order, shipment, reading, recorded, proof>>

\* Ten minutes pass.
OtpExpires(p) ==
  /\ code[p].fresh
  /\ code' = [code EXCEPT ![p].fresh = FALSE]
  /\ UNCHANGED <<goods, order, shipment, reading, recorded, proof>>

\* recordProof, whatever the proof: the shipment and its items are delivered, or nothing is.
Deliver(p) ==
  /\ Made(p)
  /\ MayMove(Undelivered(p), "DELIVERED", "SYSTEM", reason)
  /\ shipment' = [shipment EXCEPT ![p].status = "DELIVERED"]
  /\ item' = Moved(Undelivered(p), "DELIVERED")
  /\ UNCHANGED <<reason, order, reading, recorded>>

\* The latest open challenge, if it is fresh and the code is right (a wrong one rolls back
\* its own count).
ProveByOtp(p) ==
  \E c \in code[p].open :
    /\ \A d \in code[p].open : d <= c
    /\ c = code[p].sent => code[p].fresh
    /\ Deliver(p)
    /\ code' = [code EXCEPT ![p].open = @ \ {c}]
    /\ proof' = [proof EXCEPT ![p] = c]

ProveOtherwise(p) ==
  /\ Deliver(p)
  /\ proof' = [proof EXCEPT ![p] = 0]
  /\ UNCHANGED code

-----------------------------------------------------------------------------
Init ==
  /\ item = [i \in Item |-> "CONFIRMED"]
  /\ reason = [i \in Item |-> FALSE]
  /\ order = "CONFIRMED"
  /\ shipment = [p \in Parcel |-> NoShipment]
  /\ reading = [t \in Tracker |-> None]
  /\ recorded = [p \in Parcel |-> {}]
  /\ code = [p \in Parcel |-> [sent |-> 0, open |-> {}, fresh |-> FALSE]]
  /\ proof = [p \in Parcel |-> None]

Handle(t) == RecordOnly(t) \/ ApplyReport(t) \/ DropReport(t)

Next ==
  \/ \E i \in Item :
       \/ Allocate(i)
       \/ \E to \in ItemStatus, why \in BOOLEAN : SellerMove(i, to, why)
  \/ \E S \in SUBSET Item : CancelItems(S)
  \/ \E p \in Parcel :
       \/ \E S \in SUBSET Item \ {{}}, k \in Key : AskShipment(p, S, k)
       \/ HandOver(p)
       \/ \E actor \in {"SELLER", "WAREHOUSE"} : MakeShipment(p, actor)
       \/ DropRequest(p)
       \/ GenerateLabel(p)
       \/ RequestOtp(p) \/ OtpExpires(p) \/ ProveByOtp(p) \/ ProveOtherwise(p)
  \/ \E t \in Tracker :
       \/ \E p \in Parcel, e \in Report : ReadReport(t, p, e)
       \/ Handle(t)

Spec == Init /\ [][Next]_vars

Setback == {e \in Report : Says[e] \in {"DELIVERY_FAILED", "RTO_INITIATED"}}

\* The carrier repeats its reports for as long as it takes (it need not have setbacks to
\* report), and what is read is handled.
FairSpec ==
  /\ Spec
  /\ \A t \in Tracker : WF_vars(Handle(t))
  /\ \A p \in Parcel, e \in Report \ Setback : SF_vars(\E t \in Tracker : ReadReport(t, p, e))

-----------------------------------------------------------------------------
TypeOK ==
  /\ item \in [Item -> ItemStatus]
  /\ reason \in [Item -> BOOLEAN]
  /\ order \in {"CONFIRMED", "CANCELLATION_REQUESTED", "CANCELLED"}
  /\ shipment \in [Parcel -> [items: SUBSET Item, key: Key \cup {None},
                             status: ShipmentStatus \cup InRequest \cup {"NONE"}]]
  /\ reading \in [Tracker -> [parcel: Parcel, report: Report, seen: ShipmentStatus] \cup {None}]
  /\ recorded \in [Parcel -> SUBSET Report]
  /\ code \in [Parcel -> [sent: 0..MaxCodes, open: SUBSET (1..MaxCodes), fresh: BOOLEAN]]
  /\ proof \in [Parcel -> (0..MaxCodes) \cup {None}]

\* What a shipment says happened to its items: all are at least ready, and none lags behind
\* what the shipment's own status made of them (one delivered meanwhile is let alone).  In particular nothing the seller or the
\* customer cancelled is in a parcel, however long the carrier took to answer and whatever
\* was read before (fulfillment.service.ts:160, :240, :331).
ParcelMatchesItems ==
  \A p \in Parcel : Made(p) =>
    \A i \in shipment[p].items :
      /\ item[i] \in {"READY_TO_SHIP", "SHIPPED", "OUT_FOR_DELIVERY", "DELIVERED", "RTO_INITIATED"}
      /\ ItemTarget(shipment[p].status) # None =>
           item[i] = "DELIVERED" \/ Rank[item[i]] >= Rank[ItemTarget(shipment[p].status)]

\* A delivery is never proved with a code that another replaced, although the proof is taken
\* in any state and may be taken again (delivery.service.ts:99, :152).
ProvedWithLastCode ==
  [][\A p \in Parcel : proof'[p] # proof[p] => proof'[p] \in {0, code[p].sent}]_vars

\* The carrier's reports come in any order and more than once; those that come too early are
\* refused and come again, so that a parcel without a setback is delivered in the end
\* (fulfillment.service.ts:336-352; 20260823001600_fulfillment.sql:384).
ParcelsArrive ==
  \A p \in Parcel :
    []( recorded[p] \cap Setback = {} ) => (Made(p) ~> shipment[p].status = "DELIVERED")

\* A delivered parcel stays delivered: "a late 'shipped' after 'delivered' is recorded as a
\* tracking event but does not regress the status" (docs/adr/0012-order-state-machine-in-db.md:44).
DeliveredStays ==
  [][\A p \in Parcel : shipment[p].status = "DELIVERED" => shipment'[p].status = "DELIVERED"]_vars
=============================================================================
