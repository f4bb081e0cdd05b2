--------------------- MODULE FulfilmentAndReviews_proofs ----------------------
(***************************************************************************)
(* Parcels and their items agree for any number of items, shipments,       *)
(* trackers and reports.  The invariant adds to ParcelMatchesItems that    *)
(* the items of a request under way are packed or further (what was read   *)
(* before the carrier was called still holds when the shipment is          *)
(* written), and that the open code of a shipment is the last one sent.    *)
(*                                                                         *)
(* What the shop shows of reviews, votes and reports is what there is, for *)
(* any number of them.  The invariant says what a request under way has    *)
(* counted: what nobody has overtaken since (fresh) is what will be true   *)
(* once it commits (FreshIsRight), and a report that has counted enough    *)
(* takes the review down (ThresholdMet).                                   *)
(***************************************************************************)
EXTENDS Fulfilment, Reviews, FiniteSetTheorems, TLAPS

Boxed == {"READY_TO_SHIP", "SHIPPED", "OUT_FOR_DELIVERY", "DELIVERED", "RTO_INITIATED"}

RequestPacked(p) ==
  shipment[p].status \in InRequest =>
    \A i \in shipment[p].items : item[i] = "PACKED" \/ item[i] \in Boxed

ParcelBoxed(p) == Made(p) => \A i \in shipment[p].items : item[i] \in Boxed

NoneLags(p) ==
  Made(p) /\ ItemTarget(shipment[p].status) # None =>
    \A i \in shipment[p].items :
      item[i] = "DELIVERED" \/ Rank[item[i]] >= Rank[ItemTarget(shipment[p].status)]

ParcelOK(p) == RequestPacked(p) /\ ParcelBoxed(p) /\ NoneLags(p)

OpenIsLast == \A p \in Parcel : code[p].open \subseteq {code[p].sent}

\* A report is only read for a shipment that is there.
ReadIsMade == \A t \in Tracker : reading[t] # None => Made(reading[t].parcel)

FInv == TypeOK /\ (\A p \in Parcel : ParcelOK(p)) /\ OpenIsLast

\* What a step may do to the items of any parcel.
Forward ==
  \A i \in Item :
    /\ item[i] = "PACKED" => item'[i] = "PACKED" \/ item'[i] \in Boxed
    /\ item[i] \in Boxed =>
         /\ item'[i] \in Boxed
         /\ item[i] = "DELIVERED" => item'[i] = "DELIVERED"
         /\ item'[i] = "DELIVERED" \/ Rank[item'[i]] >= Rank[item[i]]

\* The ranks of what may be in a parcel.
LEMMA BoxedRanks ==
  /\ Rank["READY_TO_SHIP"] = 75 /\ Rank["SHIPPED"] = 80 /\ Rank["OUT_FOR_DELIVERY"] = 90
  /\ Rank["DELIVERED"] = 100 /\ Rank["RTO_INITIATED"] = 105
  /\ Boxed \subseteq ItemStatus /\ "PACKED" \in ItemStatus /\ "CANCELLED" \in ItemStatus
  /\ "ALLOCATED" \in ItemStatus /\ "CONFIRMED" \in ItemStatus
BY DEF Rank, ItemStatus, Boxed

\* The seller moves nothing that is boxed, and what is packed only into the box.
LEMMA SellerLeavesBoxed ==
  ASSUME NEW x, NEW y, NEW w \in BOOLEAN, Allowed(x, y, "SELLER", w)
  PROVE  /\ x \in Boxed => y = x
         /\ x = "PACKED" => y \in {"PACKED", "READY_TO_SHIP"}
BY DEF Allowed, Transitions, Boxed

\* The customer asks to cancel nothing that is packed.
LEMMA CustomerLeavesPacked ==
  ASSUME NEW x, NEW w \in BOOLEAN, Allowed(x, "CANCELLATION_REQUESTED", "CUSTOMER", w)
  PROVE  x # "PACKED" /\ x \notin Boxed
BY DEF Allowed, Transitions, Boxed

\* A report or a proof only moves the items of a parcel forward.
LEMMA SystemMovesForward ==
  ASSUME NEW x \in Boxed, NEW w \in BOOLEAN,
         NEW y \in {"SHIPPED", "OUT_FOR_DELIVERY", "DELIVERED", "RTO_INITIATED"},
         Allowed(x, y, "SYSTEM", w)
  PROVE  Rank[y] >= Rank[x]
BY BoxedRanks DEF Allowed, Transitions, Boxed

\* Nor can a report or a proof move what is only packed.
LEMMA SystemLeavesPacked ==
  ASSUME NEW w \in BOOLEAN,
         NEW y \in {"SHIPPED", "OUT_FOR_DELIVERY", "DELIVERED", "RTO_INITIATED"}
  PROVE  ~Allowed("PACKED", y, "SYSTEM", w)
BY DEF Allowed, Transitions

\* A shipment that a step leaves alone stays as it should be if the items move forward.
LEMMA ForwardKeeps ==
  ASSUME TypeOK, Forward, NEW p \in Parcel, ParcelOK(p), shipment'[p] = shipment[p]
  PROVE  ParcelOK(p)'
<1>1. shipment[p].items \subseteq Item
  BY DEF TypeOK
<1>2. Made(p)' = Made(p)
  BY DEF Made
<1>3. RequestPacked(p)'
  BY <1>1 DEF ParcelOK, RequestPacked, Forward
<1>4. ParcelBoxed(p)'
  BY <1>1, <1>2 DEF ParcelOK, ParcelBoxed, Forward
<1>5. NoneLags(p)'
  <2>1. SUFFICES ASSUME Made(p), ItemTarget(shipment[p].status) # None,
                        NEW i \in shipment[p].items, item'[i] # "DELIVERED"
                 PROVE  Rank[item'[i]] >= Rank[ItemTarget(shipment[p].status)]
    BY <1>2 DEF NoneLags
  <2>2. /\ item[i] \in Boxed /\ item'[i] \in Boxed
        /\ item[i] # "DELIVERED" /\ Rank[item'[i]] >= Rank[item[i]]
        /\ Rank[item[i]] >= Rank[ItemTarget(shipment[p].status)]
    BY <1>1, <2>1 DEF ParcelOK, ParcelBoxed, NoneLags, Forward
  <2>3. ItemTarget(shipment[p].status) \in {"SHIPPED", "OUT_FOR_DELIVERY", "DELIVERED", "RTO_INITIATED"}
    BY <2>1 DEF ItemTarget
  <2>4. Rank[item[i]] \in Nat /\ Rank[item'[i]] \in Nat /\ Rank[ItemTarget(shipment[p].status)] \in Nat
    BY <2>2, <2>3, BoxedRanks DEF Boxed
  <2>. QED BY <2>2, <2>4
<1>. QED BY <1>3, <1>4, <1>5 DEF ParcelOK

\* A parcel whose items all follow its new status.
LEMMA MovedForward ==
  ASSUME TypeOK, NEW S \in SUBSET Item,
         NEW to \in {"SHIPPED", "OUT_FOR_DELIVERY", "DELIVERED", "RTO_INITIATED"},
         MayMove(S, to, "SYSTEM", reason), item' = Moved(S, to),
         \A i \in S : item[i] # "DELIVERED"
  PROVE  Forward /\ item' \in [Item -> ItemStatus]
<1>1. item' \in [Item -> ItemStatus]
  BY BoxedRanks DEF TypeOK, Moved, Boxed
<1>2. ASSUME NEW i \in Item, i \in S
      PROVE  Allowed(item[i], to, "SYSTEM", reason[i]) /\ item'[i] = to /\ reason[i] \in BOOLEAN
  BY <1>2 DEF MayMove, Moved, TypeOK
<1>3. \A i \in Item : i \notin S => item'[i] = item[i]
  BY DEF Moved
<1>4. ASSUME NEW i \in Item PROVE item[i] = "PACKED" => item'[i] = "PACKED" \/ item'[i] \in Boxed
  BY <1>2, <1>3, SystemLeavesPacked
<1>5. ASSUME NEW i \in Item, item[i] \in Boxed
      PROVE  /\ item'[i] \in Boxed
             /\ item[i] = "DELIVERED" => item'[i] = "DELIVERED"
             /\ Rank[item'[i]] >= Rank[item[i]]
  <2>1. CASE i \in S
    BY <2>1, <1>2, <1>5, SystemMovesForward DEF Boxed
  <2>2. CASE i \notin S
    BY <2>2, <1>3, <1>5, BoxedRanks DEF Boxed
  <2>. QED BY <2>1, <2>2
<1>. QED BY <1>1, <1>4, <1>5 DEF Forward

-----------------------------------------------------------------------------
LEMMA FInvInit == Init => FInv
<1>. SUFFICES ASSUME Init PROVE FInv
  OBVIOUS
<1>1. TypeOK
  BY BoxedRanks, FulfilmentAssumption DEF Init, TypeOK, NoShipment
<1>2. ASSUME NEW p \in Parcel PROVE ParcelOK(p)
  BY DEF Init, ParcelOK, RequestPacked, ParcelBoxed, NoneLags, Made, NoShipment, InRequest,
         ShipmentStatus, CarrierStatus
<1>3. OpenIsLast
  BY DEF Init, OpenIsLast
<1>. QED BY <1>1, <1>2, <1>3 DEF FInv

\* The moves of the items by the seller, the customer and the system leave every parcel.
LEMMA ItemSteps ==
  ASSUME FInv, UNCHANGED <<shipment, reading, recorded, last>>,
         \/ \E i \in Item : Allocate(i)
         \/ \E i \in Item, to \in ItemStatus, why \in BOOLEAN : SellerMove(i, to, why)
         \/ \E S \in SUBSET Item : CancelItems(S)
  PROVE  FInv'
<1>1. TypeOK
  BY DEF FInv
<1>2. Forward /\ TypeOK'
  <2>1. ASSUME NEW i \in Item, Allocate(i)
        PROVE  Forward /\ item' \in [Item -> ItemStatus] /\ UNCHANGED <<reason, order>>
    BY <2>1, <1>1, BoxedRanks DEF Allocate, TypeOK, Forward, Boxed
  <2>2. ASSUME NEW i \in Item, NEW to \in ItemStatus, NEW why \in BOOLEAN, SellerMove(i, to, why)
        PROVE  Forward /\ item' \in [Item -> ItemStatus] /\ reason' \in [Item -> BOOLEAN]
               /\ order' = order
    <3>1. /\ item' \in [Item -> ItemStatus] /\ reason' \in [Item -> BOOLEAN] /\ order' = order
          /\ item'[i] = to /\ Allowed(item[i], to, "SELLER", why) /\ to # item[i]
          /\ \A j \in Item : j # i => item'[j] = item[j]
      BY <2>2, <1>1 DEF SellerMove, TypeOK
    <3>2. item[i] \notin Boxed /\ (item[i] = "PACKED" => to = "READY_TO_SHIP")
      BY <3>1, SellerLeavesBoxed
    <3>3. Forward
      BY <3>1, <3>2, BoxedRanks DEF Forward, Boxed
    <3>. QED BY <3>1, <3>3
  <2>3. ASSUME NEW S \in SUBSET Item, CancelItems(S)
        PROVE  Forward /\ item' \in [Item -> ItemStatus] /\ reason' \in [Item -> BOOLEAN]
               /\ order' \in {"CONFIRMED", "CANCELLATION_REQUESTED", "CANCELLED"}
    <3>. DEFINE T == {i \in S : item[i] \notin {"CANCELLED", "DELIVERED", "RETURN_RECEIVED"}}
    <3>1. /\ item' = Moved(T, "CANCELLED") /\ reason' = [i \in Item |-> i \in T \/ reason[i]]
          /\ order' \in {"CONFIRMED", "CANCELLATION_REQUESTED", "CANCELLED"}
          /\ \A i \in T : Allowed(item[i], "CANCELLATION_REQUESTED", "CUSTOMER", TRUE)
      BY <2>3 DEF CancelItems
    <3>2. \A i \in T : item[i] # "PACKED" /\ item[i] \notin Boxed
      BY <3>1, CustomerLeavesPacked
    <3>3. item' \in [Item -> ItemStatus] /\ reason' \in [Item -> BOOLEAN]
      BY <3>1, <1>1, BoxedRanks DEF TypeOK, Moved
    <3>4. \A i \in Item : i \notin T => item'[i] = item[i]
      BY <3>1 DEF Moved
    <3>5. Forward
      BY <3>2, <3>4, BoxedRanks DEF Forward, Boxed
    <3>. QED BY <3>1, <3>3, <3>5
  <2>. QED BY <2>1, <2>2, <2>3, <1>1 DEF TypeOK, last
<1>3. \A p \in Parcel : ParcelOK(p)'
  BY <1>1, <1>2, ForwardKeeps DEF FInv
<1>4. OpenIsLast'
  BY DEF FInv, OpenIsLast, last
<1>. QED BY <1>2, <1>3, <1>4 DEF FInv

\* Nothing but one shipment changes, and its items are fit for what it becomes.
LEMMA ShipmentStep ==
  ASSUME FInv, UNCHANGED <<goods, order, reading, recorded, last>>, NEW p \in Parcel,
         NEW s \in [items: SUBSET Item, key: Key \cup {None},
                    status: ShipmentStatus \cup InRequest \cup {"NONE"}],
         shipment' = [shipment EXCEPT ![p] = s], ParcelOK(p)'
  PROVE  FInv'
<1>1. TypeOK'
  BY DEF FInv, TypeOK, goods, last
<1>2. Forward
  BY BoxedRanks DEF Forward, goods, Boxed
<1>3. ASSUME NEW q \in Parcel PROVE ParcelOK(q)'
  BY <1>2, ForwardKeeps DEF FInv, TypeOK
<1>4. OpenIsLast'
  BY DEF FInv, OpenIsLast, last
<1>. QED BY <1>1, <1>3, <1>4 DEF FInv

LEMMA RequestSteps ==
  ASSUME FInv, NEW p \in Parcel,
         \/ \E S \in SUBSET Item \ {{}}, k \in Key : AskShipment(p, S, k)
         \/ HandOver(p) \/ DropRequest(p) \/ GenerateLabel(p)
  PROVE  FInv'
<1>. USE DEF FInv
<1>1. ASSUME NEW S \in SUBSET Item \ {{}}, NEW k \in Key, AskShipment(p, S, k) PROVE FInv'
  <2>. DEFINE s == [items |-> S, key |-> k, status |-> "ASKED"]
  <2>1. shipment' = [shipment EXCEPT ![p] = s] /\ shipment'[p] = s
    BY <1>1 DEF AskShipment, TypeOK
  <2>2. \A i \in S : item'[i] \in {"PACKED", "READY_TO_SHIP"}
    BY <1>1 DEF AskShipment, goods
  <2>3. ParcelOK(p)'
    BY <2>1, <2>2 DEF ParcelOK, RequestPacked, ParcelBoxed, NoneLags, Made, ShipmentStatus,
                      CarrierStatus, Boxed
  <2>4. s \in [items: SUBSET Item, key: Key \cup {None},
               status: ShipmentStatus \cup InRequest \cup {"NONE"}]
    BY DEF InRequest
  <2>5. UNCHANGED <<goods, order, reading, recorded, last>>
    BY <1>1 DEF AskShipment
  <2>. HIDE DEF s, FInv
  <2>. QED BY <2>1, <2>3, <2>4, <2>5, ShipmentStep
<1>2. CASE HandOver(p)
  <2>. DEFINE s == [shipment[p] EXCEPT !.status = "HANDED"]
  <2>1. shipment' = [shipment EXCEPT ![p] = s] /\ shipment'[p] = s /\ shipment[p].status = "ASKED"
    BY <1>2 DEF HandOver, TypeOK
  <2>2. s.items = shipment[p].items /\ s.status = "HANDED" /\ item' = item
    BY <1>2 DEF HandOver, TypeOK, goods
  <2>3. ParcelOK(p)'
    BY <2>1, <2>2 DEF ParcelOK, RequestPacked, ParcelBoxed, NoneLags, Made, ShipmentStatus,
                      CarrierStatus, InRequest
  <2>4. s \in [items: SUBSET Item, key: Key \cup {None},
               status: ShipmentStatus \cup InRequest \cup {"NONE"}]
    BY DEF InRequest, TypeOK
  <2>5. UNCHANGED <<goods, order, reading, recorded, last>>
    BY <1>2 DEF HandOver
  <2>. HIDE DEF s, FInv
  <2>. QED BY <2>1, <2>3, <2>4, <2>5, ShipmentStep
<1>3. CASE DropRequest(p)
  <2>1. shipment' = [shipment EXCEPT ![p] = NoShipment] /\ shipment'[p] = NoShipment
    BY <1>3 DEF DropRequest, TypeOK
  <2>2. ParcelOK(p)'
    BY <2>1 DEF ParcelOK, RequestPacked, ParcelBoxed, NoneLags, Made, ShipmentStatus,
                CarrierStatus, InRequest, NoShipment
  <2>3. NoShipment \in [items: SUBSET Item, key: Key \cup {None},
                        status: ShipmentStatus \cup InRequest \cup {"NONE"}]
    BY DEF NoShipment
  <2>4. UNCHANGED <<goods, order, reading, recorded, last>>
    BY <1>3 DEF DropRequest
  <2>. HIDE DEF FInv
  <2>. QED BY <2>1, <2>2, <2>3, <2>4, ShipmentStep
<1>4. CASE GenerateLabel(p)
  <2>. DEFINE s == [shipment[p] EXCEPT !.status = "LABEL_GENERATED"]
  <2>1. shipment' = [shipment EXCEPT ![p] = s] /\ shipment'[p] = s /\ shipment[p].status = "CREATED"
    BY <1>4 DEF GenerateLabel, TypeOK
  <2>2. s.items = shipment[p].items /\ s.status = "LABEL_GENERATED" /\ item' = item
    BY <1>4 DEF GenerateLabel, TypeOK, goods
  <2>3. ParcelOK(p)'
    BY <2>1, <2>2 DEF ParcelOK, RequestPacked, ParcelBoxed, NoneLags, Made, ShipmentStatus,
                      CarrierStatus, InRequest, ItemTarget
  <2>4. s \in [items: SUBSET Item, key: Key \cup {None},
               status: ShipmentStatus \cup InRequest \cup {"NONE"}]
    <3>1. shipment[p] \in [items: SUBSET Item, key: Key \cup {None},
                         status: ShipmentStatus \cup InRequest \cup {"NONE"}]
      BY DEF TypeOK
    <3>2. "LABEL_GENERATED" \in ShipmentStatus
      BY DEF ShipmentStatus
    <3>. HIDE DEF FInv
    <3>. QED BY <3>1, <3>2
  <2>5. UNCHANGED <<goods, order, reading, recorded, last>>
    BY <1>4 DEF GenerateLabel
  <2>. HIDE DEF s, FInv
  <2>. QED BY <2>1, <2>3, <2>4, <2>5, ShipmentStep
<1>. QED BY <1>1, <1>2, <1>3, <1>4

\* What was packed when it was read is packed or ready when it is written.
LEMMA MakeStep ==
  ASSUME FInv, NEW p \in Parcel, NEW actor \in {"SELLER", "WAREHOUSE"}, MakeShipment(p, actor)
  PROVE  FInv'
<1>. DEFINE packed == {i \in shipment[p].items : item[i] = "PACKED"}
<1>1. TypeOK /\ shipment[p].items \subseteq Item /\ ParcelOK(p)
  BY DEF FInv, TypeOK
<1>2. /\ shipment[p].status = "HANDED" /\ item' = Moved(packed, "READY_TO_SHIP")
      /\ shipment' = [shipment EXCEPT ![p].status = "CREATED"]
      /\ UNCHANGED <<reason, order, reading, recorded, last>>
  BY DEF MakeShipment
<1>3. \A i \in Item : item'[i] = IF i \in packed THEN "READY_TO_SHIP" ELSE item[i]
  BY <1>2 DEF Moved
<1>4. \A i \in shipment[p].items : item'[i] \in Boxed
  BY <1>1, <1>2, <1>3 DEF ParcelOK, RequestPacked, InRequest, Boxed
<1>5. Forward
  BY <1>3, BoxedRanks DEF Forward, Boxed
<1>6. TypeOK'
  <2>1. item' \in [Item -> ItemStatus]
    BY <1>1, <1>2, BoxedRanks DEF Moved, TypeOK, Boxed
  <2>2. shipment' \in [Parcel -> [items: SUBSET Item, key: Key \cup {None},
                                 status: ShipmentStatus \cup InRequest \cup {"NONE"}]]
    BY <1>1, <1>2 DEF TypeOK, ShipmentStatus
  <2>. QED BY <2>1, <2>2, <1>1, <1>2 DEF TypeOK, last
<1>7. shipment'[p].status = "CREATED" /\ shipment'[p].items = shipment[p].items
  BY <1>1, <1>2 DEF TypeOK
<1>8. ParcelOK(p)'
  BY <1>4, <1>7 DEF ParcelOK, RequestPacked, ParcelBoxed, NoneLags, InRequest, ItemTarget
<1>9. ASSUME NEW q \in Parcel, q # p PROVE ParcelOK(q)'
  BY <1>1, <1>2, <1>5, <1>9, ForwardKeeps DEF FInv, TypeOK
<1>10. OpenIsLast'
  BY <1>2 DEF FInv, OpenIsLast, last
<1>. QED BY <1>6, <1>8, <1>9, <1>10 DEF FInv

\* A shipment whose undelivered items are moved to the target of its new status.
LEMMA FollowStep ==
  ASSUME FInv, NEW p \in Parcel, Made(p), NEW s \in CarrierStatus, ItemsMayFollow(p, s),
         shipment' = [shipment EXCEPT ![p].status = s],
         item' = IF ItemTarget(s) = None THEN item ELSE Moved(Undelivered(p), ItemTarget(s)),
         UNCHANGED <<reason, order>>
  PROVE  /\ \A q \in Parcel : ParcelOK(q)'
         /\ item' \in [Item -> ItemStatus]
         /\ shipment' \in [Parcel -> [items: SUBSET Item, key: Key \cup {None},
                                     status: ShipmentStatus \cup InRequest \cup {"NONE"}]]
<1>1. TypeOK /\ ParcelOK(p) /\ shipment[p].items \subseteq Item
  BY DEF FInv, TypeOK
<1>2. shipment'[p].status = s /\ shipment'[p].items = shipment[p].items
  BY <1>1 DEF TypeOK
<1>3. Forward /\ item' \in [Item -> ItemStatus]
  <2>1. CASE ItemTarget(s) = None
    BY <2>1, <1>1, BoxedRanks DEF TypeOK, Forward, Boxed
  <2>2. CASE ItemTarget(s) # None
    <3>1. ItemTarget(s) \in {"SHIPPED", "OUT_FOR_DELIVERY", "DELIVERED", "RTO_INITIATED"}
      BY <2>2 DEF ItemTarget
    <3>2. MayMove(Undelivered(p), ItemTarget(s), "SYSTEM", reason)
      BY <2>2 DEF ItemsMayFollow
    <3>3. Undelivered(p) \in SUBSET Item /\ \A i \in Undelivered(p) : item[i] # "DELIVERED"
      BY <1>1 DEF Undelivered
    <3>. QED BY <1>1, <2>2, <3>1, <3>2, <3>3, MovedForward
  <2>. QED BY <2>1, <2>2
<1>4. \A i \in shipment[p].items : item'[i] \in Boxed
  BY <1>1, <1>3 DEF ParcelOK, ParcelBoxed, Forward
<1>5. ParcelOK(p)'
  <2>1. RequestPacked(p)' /\ ParcelBoxed(p)'
    BY <1>2, <1>4 DEF RequestPacked, ParcelBoxed, CarrierStatus, InRequest
  <2>2. NoneLags(p)'
    <3>1. SUFFICES ASSUME ItemTarget(s) # None, NEW i \in shipment[p].items, item'[i] # "DELIVERED"
                   PROVE  Rank[item'[i]] >= Rank[ItemTarget(s)]
      BY <1>2 DEF NoneLags
    <3>2. item[i] # "DELIVERED"
      BY <1>1, <1>3, <3>1, BoxedRanks DEF Forward, Boxed
    <3>3. item'[i] = ItemTarget(s)
      BY <1>1, <3>1, <3>2 DEF Moved, Undelivered
    <3>4. ItemTarget(s) \in {"SHIPPED", "OUT_FOR_DELIVERY", "DELIVERED", "RTO_INITIATED"}
      BY <3>1 DEF ItemTarget
    <3>. QED BY <3>3, <3>4, BoxedRanks
  <2>. QED BY <2>1, <2>2 DEF ParcelOK
<1>6. ASSUME NEW q \in Parcel, q # p PROVE ParcelOK(q)'
  BY <1>1, <1>3, <1>6, ForwardKeeps DEF FInv, TypeOK
<1>7. shipment' \in [Parcel -> [items: SUBSET Item, key: Key \cup {None},
                               status: ShipmentStatus \cup InRequest \cup {"NONE"}]]
  <2>1. s \in ShipmentStatus
    BY DEF ShipmentStatus
  <2>2. shipment \in [Parcel -> [items: SUBSET Item, key: Key \cup {None},
                                status: ShipmentStatus \cup InRequest \cup {"NONE"}]]
    BY <1>1 DEF TypeOK
  <2>. QED BY <2>1, <2>2
<1>. QED BY <1>3, <1>5, <1>6, <1>7

LEMMA ReadStep ==
  ASSUME FInv, NEW t \in Tracker, NEW p \in Parcel, NEW e \in Report, ReadReport(t, p, e)
  PROVE  FInv'
<1>1. TypeOK'
  <2>1. [parcel |-> p, report |-> e, seen |-> shipment[p].status]
          \in [parcel: Parcel, report: Report, seen: ShipmentStatus]
    BY DEF ReadReport, Made
  <2>2. reading' \in [Tracker -> [parcel: Parcel, report: Report, seen: ShipmentStatus] \cup {None}]
    BY <2>1 DEF FInv, TypeOK, ReadReport
  <2>. QED BY <2>2 DEF FInv, TypeOK, ReadReport, goods, last
<1>2. Forward
  BY BoxedRanks DEF ReadReport, goods, Forward, Boxed
<1>3. \A q \in Parcel : ParcelOK(q)'
  BY <1>2, ForwardKeeps DEF FInv, ReadReport
<1>4. OpenIsLast'
  BY DEF FInv, OpenIsLast, ReadReport, last
<1>. QED BY <1>1, <1>3, <1>4 DEF FInv

LEMMA HandleStep ==
  ASSUME FInv, NEW t \in Tracker, Handle(t),
         ReadIsMade
  PROVE  FInv'
<1>. DEFINE r == reading[t]
<1>1. r # None /\ r \in [parcel: Parcel, report: Report, seen: ShipmentStatus]
  BY DEF FInv, TypeOK, Handle, RecordOnly, ApplyReport, DropReport
<1>2. /\ recorded' \in [Parcel -> SUBSET Report]
      /\ reading' \in [Tracker -> [parcel: Parcel, report: Report, seen: ShipmentStatus] \cup {None}]
  <2>1. recorded' \in [Parcel -> SUBSET Report]
    <3>1. recorded' = recorded \/ recorded' = [recorded EXCEPT ![r.parcel] = @ \cup {r.report}]
      BY DEF Handle, RecordOnly, ApplyReport, DropReport
    <3>2. r.parcel \in Parcel /\ r.report \in Report
      BY <1>1
    <3>. HIDE DEF r
    <3>. QED BY <3>1, <3>2 DEF FInv, TypeOK
  <2>2. reading' = [reading EXCEPT ![t] = None]
    BY DEF Handle, RecordOnly, ApplyReport, DropReport
  <2>. QED BY <2>1, <2>2 DEF FInv, TypeOK
<1>3. UNCHANGED <<reason, order, last>>
  BY DEF Handle, RecordOnly, ApplyReport, DropReport, goods
<1>4. OpenIsLast'
  BY <1>3 DEF FInv, OpenIsLast, last
<1>5. CASE ApplyReport(t)
  <2>1. /\ Made(r.parcel) /\ Says[r.report] \in CarrierStatus /\ r.parcel \in Parcel
    BY <1>1, FulfilmentAssumption DEF ReadIsMade
  <2>2. /\ ItemsMayFollow(r.parcel, Says[r.report])
        /\ shipment' = [shipment EXCEPT ![r.parcel].status = Says[r.report]]
        /\ item' = IF ItemTarget(Says[r.report]) = None THEN item
                   ELSE Moved(Undelivered(r.parcel), ItemTarget(Says[r.report]))
    BY <1>5 DEF ApplyReport
  <2>. HIDE DEF r
  <2>3. /\ \A q \in Parcel : ParcelOK(q)'
        /\ item' \in [Item -> ItemStatus]
        /\ shipment' \in [Parcel -> [items: SUBSET Item, key: Key \cup {None},
                                    status: ShipmentStatus \cup InRequest \cup {"NONE"}]]
    BY <1>3, <2>1, <2>2, FollowStep
  <2>. QED BY <1>2, <1>3, <1>4, <2>3 DEF FInv, TypeOK, last
<1>6. CASE RecordOnly(t) \/ DropReport(t)
  <2>1. UNCHANGED <<item, shipment>>
    BY <1>6 DEF RecordOnly, DropReport, goods
  <2>2. Forward
    BY <2>1, BoxedRanks DEF Forward, Boxed
  <2>3. \A q \in Parcel : ParcelOK(q)'
    BY <2>1, <2>2, ForwardKeeps DEF FInv
  <2>. QED BY <1>2, <1>3, <1>4, <2>1, <2>3 DEF FInv, TypeOK, last
<1>. QED BY <1>5, <1>6 DEF Handle

\* Codes: what is open is the last one sent, also after it was used.
LEMMA CodeSteps ==
  ASSUME FInv, NEW p \in Parcel,
         RequestOtp(p) \/ OtpExpires(p) \/ ProveByOtp(p) \/ ProveOtherwise(p)
  PROVE  FInv' /\ (proof'[p] # proof[p] => proof'[p] \in {0, code[p].sent})
<1>1. TypeOK /\ code[p].sent \in 0..MaxCodes /\ MaxCodes \in Nat /\ code[p].open \subseteq {code[p].sent}
      /\ code[p].open \subseteq 1..MaxCodes
  BY FulfilmentAssumption DEF FInv, TypeOK, OpenIsLast
<1>2. CASE RequestOtp(p) \/ OtpExpires(p)
  <2>1. UNCHANGED <<item, reason, order, shipment, reading, recorded, proof>>
    BY <1>2 DEF RequestOtp, OtpExpires, goods
  <2>. DEFINE C == [sent: 0..MaxCodes, open: SUBSET (1..MaxCodes), fresh: BOOLEAN]
  <2>2. code' \in [Parcel -> C] /\ OpenIsLast'
    <3>1. PICK c \in C : code' = [code EXCEPT ![p] = c] /\ c.open \subseteq {c.sent}
      <4>1. CASE RequestOtp(p)
        <5>. DEFINE c == [sent |-> code[p].sent + 1, open |-> {code[p].sent + 1}, fresh |-> TRUE]
        <5>1. c \in C
          BY <1>1, <4>1 DEF RequestOtp
        <5>2. code' = [code EXCEPT ![p] = c]
          BY <4>1 DEF RequestOtp
        <5>. QED BY <5>1, <5>2
      <4>2. CASE OtpExpires(p)
        <5>. DEFINE c == [code[p] EXCEPT !.fresh = FALSE]
        <5>1. c \in C /\ c.open \subseteq {c.sent}
          BY <1>1 DEF TypeOK
        <5>2. code' = [code EXCEPT ![p] = c]
          BY <4>2 DEF OtpExpires
        <5>. QED BY <5>1, <5>2
      <4>. QED BY <1>2, <4>1, <4>2
    <3>2. code \in [Parcel -> C]
      BY <1>1 DEF TypeOK
    <3>. HIDE DEF C
    <3>. QED BY <3>1, <3>2 DEF FInv, OpenIsLast
  <2>4. Forward
    BY <2>1, BoxedRanks DEF Forward, Boxed
  <2>5. \A q \in Parcel : ParcelOK(q)'
    BY <2>1, <2>4, ForwardKeeps DEF FInv
  <2>6. TypeOK'
    BY <1>1, <2>1, <2>2 DEF TypeOK
  <2>. QED BY <2>1, <2>2, <2>5, <2>6 DEF FInv
<1>3. CASE ProveByOtp(p) \/ ProveOtherwise(p)
  <2>1. Deliver(p)
    BY <1>3 DEF ProveByOtp, ProveOtherwise
  <2>2. /\ Made(p) /\ ItemsMayFollow(p, "DELIVERED") /\ "DELIVERED" \in CarrierStatus
        /\ shipment' = [shipment EXCEPT ![p].status = "DELIVERED"]
        /\ item' = IF ItemTarget("DELIVERED") = None THEN item
                   ELSE Moved(Undelivered(p), ItemTarget("DELIVERED"))
        /\ UNCHANGED <<reason, order, reading, recorded>>
    <3>1. ItemTarget("DELIVERED") = "DELIVERED" /\ "DELIVERED" # None
      BY FulfilmentAssumption, BoxedRanks DEF ItemTarget, Boxed
    <3>. QED BY <2>1, <3>1 DEF Deliver, ItemsMayFollow, CarrierStatus
  <2>3. /\ \A q \in Parcel : ParcelOK(q)'
        /\ item' \in [Item -> ItemStatus]
        /\ shipment' \in [Parcel -> [items: SUBSET Item, key: Key \cup {None},
                                    status: ShipmentStatus \cup InRequest \cup {"NONE"}]]
    BY <2>2, FollowStep
  <2>4. /\ code' \in [Parcel -> [sent: 0..MaxCodes, open: SUBSET (1..MaxCodes), fresh: BOOLEAN]]
        /\ OpenIsLast'
    <3>1. CASE ProveByOtp(p)
      <4>1. PICK c \in code[p].open : code' = [code EXCEPT ![p].open = @ \ {c}]
        BY <3>1 DEF ProveByOtp
      <4>. QED BY <4>1, <1>1 DEF TypeOK, FInv, OpenIsLast
    <3>2. CASE ProveOtherwise(p)
      BY <3>2 DEF ProveOtherwise, TypeOK, FInv, OpenIsLast
    <3>. QED BY <1>3, <3>1, <3>2
  <2>5. /\ proof' \in [Parcel -> (0..MaxCodes) \cup {None}]
        /\ proof'[p] \in {0, code[p].sent}
    <3>1. CASE ProveByOtp(p)
      <4>1. PICK c \in code[p].open : proof' = [proof EXCEPT ![p] = c]
        BY <3>1 DEF ProveByOtp
      <4>. QED BY <4>1, <1>1 DEF TypeOK
    <3>2. CASE ProveOtherwise(p)
      BY <3>2, <1>1 DEF ProveOtherwise, TypeOK
    <3>. QED BY <1>3, <3>1, <3>2
  <2>6. TypeOK'
    BY <1>1, <2>2, <2>3, <2>4, <2>5 DEF TypeOK
  <2>. QED BY <2>3, <2>4, <2>5, <2>6 DEF FInv
<1>. QED BY <1>2, <1>3

-----------------------------------------------------------------------------
\* No step unmakes a shipment, and only one that is there is read.
LEMMA MadeStays ==
  ASSUME TypeOK, Next
  PROVE  \A q \in Parcel : Made(q) => Made(q)'
<1>. SUFFICES ASSUME NEW q \in Parcel, Made(q) PROVE Made(q)'
  OBVIOUS
<1>. DEFINE Keeps == shipment'[q] = shipment[q] \/ shipment'[q].status \in ShipmentStatus
<1>1. SUFFICES Keeps
  BY DEF Made
<1>2. shipment[q].status \in ShipmentStatus /\ shipment[q].status \notin InRequest \cup {"NONE"}
  BY DEF Made, ShipmentStatus, CarrierStatus, InRequest
<1>3. \/ shipment' = shipment
      \/ \E p \in Parcel : \/ \E S \in SUBSET Item \ {{}}, k \in Key : AskShipment(p, S, k)
                          \/ HandOver(p) \/ DropRequest(p) \/ GenerateLabel(p)
                          \/ ProveByOtp(p) \/ ProveOtherwise(p)
                          \/ \E actor \in {"SELLER", "WAREHOUSE"} : MakeShipment(p, actor)
      \/ \E t \in Tracker : ApplyReport(t)
  <2>1. ASSUME NEW i \in Item, Allocate(i) \/ \E to \in ItemStatus, why \in BOOLEAN : SellerMove(i, to, why)
        PROVE  shipment' = shipment
    BY <2>1 DEF Allocate, SellerMove
  <2>2. ASSUME NEW S \in SUBSET Item, CancelItems(S) PROVE shipment' = shipment
    BY <2>2 DEF CancelItems
  <2>3. ASSUME NEW p \in Parcel, RequestOtp(p) \/ OtpExpires(p) PROVE shipment' = shipment
    BY <2>3 DEF RequestOtp, OtpExpires
  <2>4. ASSUME NEW t \in Tracker, NEW p \in Parcel, NEW e \in Report, ReadReport(t, p, e)
        PROVE  shipment' = shipment
    BY <2>4 DEF ReadReport
  <2>5. ASSUME NEW t \in Tracker, RecordOnly(t) \/ DropReport(t) PROVE shipment' = shipment
    BY <2>5 DEF RecordOnly, DropReport
  <2>. QED BY <2>1, <2>2, <2>3, <2>4, <2>5 DEF Next, Handle
<1>4. ASSUME NEW p \in Parcel,
             \/ \E S \in SUBSET Item \ {{}}, k \in Key : AskShipment(p, S, k)
             \/ HandOver(p) \/ DropRequest(p)
      PROVE  Keeps
  <2>1. p # q
    BY <1>2, <1>4 DEF AskShipment, HandOver, DropRequest, NoShipment, InRequest
  <2>2. \E s : shipment' = [shipment EXCEPT ![p] = s]
    BY <1>4 DEF AskShipment, HandOver, DropRequest
  <2>. QED BY <2>1, <2>2 DEF TypeOK
<1>5. ASSUME NEW p \in Parcel, NEW s \in ShipmentStatus, shipment' = [shipment EXCEPT ![p].status = s]
      PROVE  Keeps
  BY <1>5 DEF TypeOK
<1>6. {"CREATED", "LABEL_GENERATED", "DELIVERED"} \subseteq ShipmentStatus
  BY DEF ShipmentStatus, CarrierStatus
<1>7. ASSUME NEW p \in Parcel,
             \/ GenerateLabel(p) \/ ProveByOtp(p) \/ ProveOtherwise(p)
             \/ \E actor \in {"SELLER", "WAREHOUSE"} : MakeShipment(p, actor)
      PROVE  Keeps
  <2>. HIDE DEF Keeps
  <2>1. \E s \in ShipmentStatus : shipment' = [shipment EXCEPT ![p].status = s]
    BY <1>6, <1>7 DEF GenerateLabel, ProveByOtp, ProveOtherwise, Deliver, MakeShipment
  <2>. QED BY <2>1, <1>5
<1>8. ASSUME NEW t \in Tracker, ApplyReport(t) PROVE Keeps
  <2>. DEFINE r == reading[t]
  <2>1. r # None /\ r \in [parcel: Parcel, report: Report, seen: ShipmentStatus] \cup {None}
    BY <1>8 DEF ApplyReport, TypeOK
  <2>2. r.parcel \in Parcel /\ Says[r.report] \in ShipmentStatus
    BY <2>1, FulfilmentAssumption DEF ShipmentStatus
  <2>3. shipment' = [shipment EXCEPT ![r.parcel].status = Says[r.report]]
    BY <1>8 DEF ApplyReport
  <2>. HIDE DEF r, Keeps
  <2>. QED BY <2>2, <2>3, <1>5
<1>. HIDE DEF Keeps
<1>9. shipment' = shipment => Keeps
  BY DEF Keeps
<1>. QED BY <1>3, <1>4, <1>7, <1>8, <1>9

LEMMA ReadIsMadeStep ==
  ASSUME TypeOK, ReadIsMade, Next
  PROVE  ReadIsMade'
<1>1. \A q \in Parcel : Made(q) => Made(q)'
  BY MadeStays
<1>2. \/ reading' = reading
      \/ \E t \in Tracker : Handle(t)
      \/ \E t \in Tracker, p \in Parcel, e \in Report : ReadReport(t, p, e)
  <2>1. ASSUME NEW i \in Item, Allocate(i) \/ \E to \in ItemStatus, why \in BOOLEAN : SellerMove(i, to, why)
        PROVE  reading' = reading
    BY <2>1 DEF Allocate, SellerMove
  <2>2. ASSUME NEW S \in SUBSET Item, CancelItems(S) PROVE reading' = reading
    BY <2>2 DEF CancelItems
  <2>3. ASSUME NEW p \in Parcel,
               \/ \E S \in SUBSET Item \ {{}}, k \in Key : AskShipment(p, S, k)
               \/ HandOver(p) \/ DropRequest(p) \/ GenerateLabel(p)
               \/ RequestOtp(p) \/ OtpExpires(p) \/ ProveByOtp(p) \/ ProveOtherwise(p)
               \/ \E actor \in {"SELLER", "WAREHOUSE"} : MakeShipment(p, actor)
        PROVE  reading' = reading
    BY <2>3 DEF AskShipment, HandOver, DropRequest, GenerateLabel, RequestOtp, OtpExpires,
                ProveByOtp, ProveOtherwise, Deliver, MakeShipment
  <2>. QED BY <2>1, <2>2, <2>3 DEF Next
<1>3. ASSUME NEW t \in Tracker, Handle(t) PROVE reading' = [reading EXCEPT ![t] = None]
  BY <1>3 DEF Handle, RecordOnly, ApplyReport, DropReport
<1>4. ASSUME NEW t \in Tracker, NEW p \in Parcel, NEW e \in Report, ReadReport(t, p, e)
      PROVE  \E x \in Report : \E s : Made(p) /\ reading' = [reading EXCEPT ![t] =
               [parcel |-> p, report |-> x, seen |-> s]]
  BY <1>4 DEF ReadReport
<1>5. ASSUME NEW u \in Tracker, reading[u] # None PROVE reading[u].parcel \in Parcel
  BY <1>5 DEF TypeOK
<1>6. CASE reading' = reading
  BY <1>1, <1>5, <1>6 DEF ReadIsMade
<1>7. CASE \E t \in Tracker : Handle(t)
  BY <1>1, <1>3, <1>5, <1>7 DEF ReadIsMade, TypeOK
<1>8. CASE \E t \in Tracker, p \in Parcel, e \in Report : ReadReport(t, p, e)
  BY <1>1, <1>4, <1>5, <1>8 DEF ReadIsMade, TypeOK
<1>. QED BY <1>2, <1>6, <1>7, <1>8

LEMMA FInvStep ==
  ASSUME FInv, ReadIsMade, Next
  PROVE  FInv' /\ (\A p \in Parcel : proof'[p] # proof[p] => proof'[p] \in {0, code[p].sent})
<1>1. ASSUME NEW i \in Item, Allocate(i) PROVE FInv' /\ proof' = proof
  BY <1>1, ItemSteps DEF Allocate, last
<1>2. ASSUME NEW i \in Item, NEW to \in ItemStatus, NEW why \in BOOLEAN, SellerMove(i, to, why)
      PROVE  FInv' /\ proof' = proof
  BY <1>2, ItemSteps DEF SellerMove, last
<1>3. ASSUME NEW S \in SUBSET Item, CancelItems(S) PROVE FInv' /\ proof' = proof
  <2>1. UNCHANGED <<shipment, reading, recorded, last>>
    BY <1>3 DEF CancelItems
  <2>. QED BY <1>3, <2>1, ItemSteps DEF last
<1>4. ASSUME NEW p \in Parcel,
             \/ \E S \in SUBSET Item \ {{}}, k \in Key : AskShipment(p, S, k)
             \/ HandOver(p) \/ DropRequest(p) \/ GenerateLabel(p)
      PROVE  FInv' /\ proof' = proof
  <2>1. proof' = proof
    BY <1>4 DEF AskShipment, HandOver, DropRequest, GenerateLabel, last
  <2>. QED BY <1>4, <2>1, RequestSteps
<1>5. ASSUME NEW p \in Parcel, NEW actor \in {"SELLER", "WAREHOUSE"}, MakeShipment(p, actor)
      PROVE  FInv' /\ proof' = proof
  <2>1. proof' = proof
    BY <1>5 DEF MakeShipment, last
  <2>. QED BY <1>5, <2>1, MakeStep
<1>6. ASSUME NEW p \in Parcel,
             RequestOtp(p) \/ OtpExpires(p) \/ ProveByOtp(p) \/ ProveOtherwise(p)
      PROVE  FInv' /\ (\A q \in Parcel : proof'[q] # proof[q] => proof'[q] \in {0, code[q].sent})
  <2>1. \A q \in Parcel : q # p => proof'[q] = proof[q]
    BY <1>6 DEF RequestOtp, OtpExpires, ProveByOtp, ProveOtherwise, FInv, TypeOK
  <2>. QED BY <1>6, <2>1, CodeSteps
<1>7. ASSUME NEW t \in Tracker, NEW p \in Parcel, NEW e \in Report, ReadReport(t, p, e)
      PROVE  FInv' /\ proof' = proof
  <2>1. proof' = proof
    BY <1>7 DEF ReadReport, last
  <2>. QED BY <1>7, <2>1, ReadStep
<1>8. ASSUME NEW t \in Tracker, Handle(t) PROVE FInv' /\ proof' = proof
  <2>1. proof' = proof
    BY <1>8 DEF Handle, RecordOnly, ApplyReport, DropReport, last
  <2>. QED BY <1>8, <2>1, HandleStep
<1>. QED BY <1>1, <1>2, <1>3, <1>4, <1>5, <1>6, <1>7, <1>8 DEF Next

LEMMA FInvStutter ==
  ASSUME FInv, ReadIsMade, UNCHANGED vars
  PROVE  FInv' /\ ReadIsMade'
<1>1. Forward
  BY BoxedRanks DEF vars, Forward, Boxed
<1>2. \A p \in Parcel : ParcelOK(p)'
  BY <1>1, ForwardKeeps DEF FInv, vars
<1>3. TypeOK' /\ OpenIsLast'
  BY DEF FInv, vars, TypeOK, OpenIsLast, last
<1>4. ReadIsMade'
  BY DEF ReadIsMade, vars, Made
<1>. QED BY <1>2, <1>3, <1>4 DEF FInv

THEOREM FulfilmentInvariant == Spec => [](FInv /\ ReadIsMade)
<1>1. Init => FInv /\ ReadIsMade
  BY FInvInit DEF Init, ReadIsMade
<1>2. FInv /\ ReadIsMade /\ [Next]_vars => (FInv /\ ReadIsMade)'
  BY FInvStep, FInvStutter, ReadIsMadeStep DEF FInv
<1>. QED BY <1>1, <1>2, PTL DEF Spec

\* Every status, code and proof of an order on its way is one the tables know.
THEOREM FulfilmentTypeCorrect == Spec => []TypeOK
BY FulfilmentInvariant, PTL DEF FInv

\* What a shipment says happened to its items, whatever was read before the carrier was
\* called or the report applied.
THEOREM FulfilmentParcels == Spec => []ParcelMatchesItems
<1>1. FInv => ParcelMatchesItems
  BY DEF FInv, ParcelOK, ParcelBoxed, NoneLags, ParcelMatchesItems, Boxed
<1>. QED BY <1>1, FulfilmentInvariant, PTL

\* A replaced code proves no delivery.
THEOREM FulfilmentProofs == Spec => ProvedWithLastCode
<1>. DEFINE A == \A p \in Parcel : proof'[p] # proof[p] => proof'[p] \in {0, code[p].sent}
<1>1. FInv /\ ReadIsMade /\ [Next]_vars => [A]_vars
  BY FInvStep
<1>2. Spec => [][A]_vars
  BY <1>1, FulfilmentInvariant, PTL DEF Spec
<1>. QED BY <1>2 DEF ProvedWithLastCode

-----------------------------------------------------------------------------
(* Reviews *)

Thing == Review \cup User \cup (User \X BOOLEAN)
Counts == UNION {[A -> SUBSET Thing] : A \in SUBSET Aggregate}

\* An open transaction of a request.
Transaction ==
  [kind : {"create", "vote", "report", "moderate"},
   step : {"row", "seller", "rate", "summary", "stars", "commit"},
   review : Review, user : User \cup {Nil}, keyShare : BOOLEAN, to : Status \cup {Nil},
   saw : Counts, fresh : SUBSET Aggregate]

ReviewsTypeOK ==
  /\ status \in [Review -> Status]
  /\ votes \in [Review -> SUBSET (User \X BOOLEAN)]
  /\ reports \in [Review -> SUBSET User]
  /\ DOMAIN shown = Aggregate
  /\ req \in [Request -> Transaction \cup {Idle}]
  /\ behind \in SUBSET Aggregate
  /\ putBack \in SUBSET Review

\* What a request has counted by the step it is at: all that its change counts in, at the last.
Gathered(x) ==
  /\ x.kind = "vote" => x.step = "row" /\ x.saw[Votes(x.review)] \in SUBSET (User \X BOOLEAN)
  /\ x.kind \in {"vote", "report"} => x.user \in User
  /\ x.kind = "create" => x.to # "PUBLISHED"
  /\ x.step = "row" <=> x.to = Nil
  /\ DOMAIN x.saw =
       (IF x.kind = "vote" THEN {Votes(x.review)} ELSE {})
         \cup (IF x.kind = "report" THEN {Reports(x.review)} ELSE {})
         \cup (IF x.review \in Bought /\ x.step \in {"rate", "summary", "stars", "commit"}
               THEN {SellerRating} ELSE {})
         \cup (IF x.step \in {"stars", "commit"} THEN {RatingSummary} ELSE {})
         \cup (IF x.step = "commit" THEN {Stars} ELSE {})

\* The reviews that will be published once x commits.
SeenBy(x) == {r \in Review : (IF r = x.review THEN x.to ELSE status[r]) = "PUBLISHED"}

\* What has not been overtaken is what there will be once x commits.
FreshIsRight(x) ==
  \A a \in x.fresh :
    /\ a \in DOMAIN x.saw
    /\ a = SellerRating => x.saw[a] = SeenBy(x) \cap Bought
    /\ a \in {RatingSummary, Stars} => x.saw[a] = SeenBy(x)
    /\ a = Votes(x.review) =>
         x.saw[a] = {v \in votes[x.review] : v[1] # x.user} \cup {v \in x.saw[a] : v[1] = x.user}
    /\ a = Reports(x.review) => x.saw[a] = reports[x.review] \cup {x.user}

\* A report that has met the threshold leaves no review published.
ThresholdMet(x) ==
  x.kind = "report" /\ x.step # "row" /\ Cardinality(x.saw[Reports(x.review)]) >= FlagAt =>
    x.to # "PUBLISHED"

Sound(x) == Gathered(x) /\ FreshIsRight(x) /\ ThresholdMet(x)
AllSound == \A q \in Request : req[q].step # "idle" => Sound(req[q])

RInv == ReviewsTypeOK /\ AllSound /\ ShownIsTrue

-----------------------------------------------------------------------------
(* Names of aggregates differ *)

LEMMA Names ==
  /\ SellerRating # RatingSummary /\ SellerRating # Stars /\ RatingSummary # Stars
  /\ \A r : /\ Votes(r) \notin {SellerRating, RatingSummary, Stars}
            /\ Reports(r) \notin {SellerRating, RatingSummary, Stars}
  /\ \A r, s : /\ Votes(r) # Reports(s)
               /\ Votes(r) = Votes(s) => r = s
               /\ Reports(r) = Reports(s) => r = s
BY DEF SellerRating, RatingSummary, Stars, Votes, Reports

LEMMA AggregateNames ==
  /\ {SellerRating, RatingSummary, Stars} \subseteq Aggregate
  /\ \A r \in Review : Votes(r) \in Aggregate /\ Reports(r) \in Aggregate
  /\ \A a \in Aggregate : \/ a \in {SellerRating, RatingSummary, Stars}
                          \/ \E r \in Review : a = Votes(r) \/ a = Reports(r)
BY DEF Aggregate

TruthIs ==
  /\ Truth(SellerRating) = Published \cap Bought
  /\ Truth(RatingSummary) = Published
  /\ Truth(Stars) = Published
  /\ \A r : Truth(Votes(r)) = votes[r] /\ Truth(Reports(r)) = reports[r]

LEMMA TruthOf == TruthIs /\ TruthIs'
BY DEF TruthIs, Truth, SellerRating, RatingSummary, Stars, Votes, Reports

LEMMA Extended ==
  ASSUME NEW f \in Counts, NEW a \in Aggregate, NEW s \in SUBSET Thing
  PROVE  [b \in DOMAIN f \cup {a} |-> IF b = a THEN s ELSE f[b]] \in Counts
<1>1. PICK A \in SUBSET Aggregate : f \in [A -> SUBSET Thing]
  BY DEF Counts
<1>2. [b \in A \cup {a} |-> IF b = a THEN s ELSE f[b]] \in [A \cup {a} -> SUBSET Thing]
  BY <1>1
<1> QED BY <1>1, <1>2 DEF Counts

LEMMA CountsDomain == \A f \in Counts : DOMAIN f \in SUBSET Aggregate
BY DEF Counts

LEMMA OpenType ==
  ASSUME ReviewsTypeOK, NEW q \in Request, req[q].step # "idle"
  PROVE  req[q] \in Transaction
BY DEF ReviewsTypeOK, Idle

-----------------------------------------------------------------------------
(* Steps that commit nothing *)

\* Such a step of q leaves the others' transactions and everything committed alone.
LEMMA QuietStep ==
  ASSUME RInv, NEW q \in Request,
         UNCHANGED <<status, votes, reports, shown, behind, putBack>>,
         req' \in [Request -> Transaction \cup {Idle}],
         \A p \in Request \ {q} : req'[p] = req[p],
         req'[q].step # "idle" => Sound(req[q])'
  PROVE  RInv'
<1>1. ReviewsTypeOK'
  BY DEF RInv, ReviewsTypeOK
<1>2. AllSound'
  <2> SUFFICES ASSUME NEW p \in Request, p # q, req'[p].step # "idle" PROVE Sound(req[p])'
    BY DEF AllSound
  <2>1. req'[p] = req[p] /\ Sound(req[p])
    BY DEF RInv, AllSound
  <2> QED BY <2>1 DEF Sound, Gathered, FreshIsRight, SeenBy, ThresholdMet
<1>3. ShownIsTrue'
  BY DEF RInv, ShownIsTrue, Truth, Published, Pulled
<1> QED BY <1>1, <1>2, <1>3 DEF RInv

LEMMA BeginStep ==
  ASSUME RInv, NEW q \in Request, NEW x \in Transaction, Begin(q, x), Sound(x)
  PROVE  RInv'
<1>1. req'[q] = x /\ req' \in [Request -> Transaction \cup {Idle}]
        /\ \A p \in Request \ {q} : req'[p] = req[p]
  BY DEF Begin, RInv, ReviewsTypeOK
<1>2. UNCHANGED <<status, votes, reports, shown, behind, putBack>>
  BY DEF Begin
<1>3. Sound(req[q])'
  BY <1>1, <1>2 DEF Sound, Gathered, FreshIsRight, SeenBy, ThresholdMet
<1> QED BY <1>1, <1>2, <1>3, QuietStep

LEMMA NothingSound ==
  ASSUME NEW kind \in {"create", "moderate"}, NEW r \in Review,
         NEW to \in Status, kind = "create" => to # "PUBLISHED"
  PROVE  LET x == Work(kind, "seller", r, Nil, FALSE, to, Nothing)
         IN x \in Transaction /\ Sound(x)
<1> DEFINE x == Work(kind, "seller", r, Nil, FALSE, to, Nothing)
<1>1. Nothing \in Counts /\ DOMAIN Nothing = {}
  <2>1. Nothing \in [{} -> SUBSET Thing] /\ {} \in SUBSET Aggregate
    BY DEF Nothing
  <2> QED BY <2>1 DEF Counts, Nothing
<1>2. x \in Transaction /\ x.saw = Nothing /\ x.fresh = {} /\ x.kind = kind /\ x.step = "seller"
        /\ x.to = to
  BY <1>1 DEF Work, Transaction
<1>3. to # Nil
  BY ReviewsAssumption
<1>4. Sound(x)
  <2> HIDE DEF x
  <2> QED BY <1>1, <1>2, <1>3 DEF Sound, Gathered, FreshIsRight, ThresholdMet
<1> QED BY <1>2, <1>4

LEMMA CreateStep ==
  ASSUME RInv, NEW q \in Request, NEW r \in Review, Create(q, r)
  PROVE  RInv'
<1>1. "PENDING_MODERATION" \in Status
  BY DEF Status
<1> QED BY <1>1, NothingSound, BeginStep DEF Create

LEMMA ModerateStep ==
  ASSUME RInv, NEW q \in Request, NEW r \in Review, NEW verdict \in {"PUBLISHED", "HIDDEN"},
         Moderate(q, r, verdict)
  PROVE  RInv'
<1>1. verdict \in Status
  BY DEF Status
<1> QED BY <1>1, NothingSound, BeginStep DEF Moderate

LEMMA OnlyCounts ==
  ASSUME NEW a \in Aggregate, NEW s \in SUBSET Thing
  PROVE  Only(a, s) \in Counts /\ DOMAIN Only(a, s) = {a} /\ Only(a, s)[a] = s
<1>1. Only(a, s) \in [{a} -> SUBSET Thing] /\ {a} \in SUBSET Aggregate
  BY DEF Only
<1> QED BY <1>1 DEF Counts, Only

LEMMA VoteStep ==
  ASSUME RInv, NEW q \in Request, NEW r \in Review, NEW u \in User, NEW helpful \in BOOLEAN,
         Vote(q, r, u, helpful)
  PROVE  RInv'
<1> DEFINE old == {v \in votes[r] : v[1] = u}
           s == (votes[r] \ old) \cup {<<u, helpful>>}
           x == Work("vote", "row", r, u, old = {}, Nil, Only(Votes(r), s))
<1>1. votes[r] \in SUBSET (User \X BOOLEAN)
  BY DEF RInv, ReviewsTypeOK
<1>2. s \in SUBSET Thing
  BY <1>1 DEF Thing
<1>3. s = {v \in votes[r] : v[1] # u} \cup {v \in s : v[1] = u} /\ s \in SUBSET (User \X BOOLEAN)
  BY <1>1
<1>4. Begin(q, x)
  BY DEF Vote
<1> HIDE DEF s, old
<1>5. /\ Only(Votes(r), s) \in Counts /\ DOMAIN Only(Votes(r), s) = {Votes(r)}
      /\ Only(Votes(r), s)[Votes(r)] = s
  BY <1>2, AggregateNames, OnlyCounts
<1>6. /\ x \in Transaction /\ x.saw = Only(Votes(r), s) /\ x.fresh = {Votes(r)} /\ x.kind = "vote"
      /\ x.step = "row" /\ x.to = Nil /\ x.review = r /\ x.user = u
  BY <1>5, AggregateNames DEF Work, Transaction
<1> HIDE DEF x
<1>7. Sound(x)
  <2>1. Gathered(x) /\ ThresholdMet(x)
    BY <1>3, <1>5, <1>6 DEF Gathered, ThresholdMet
  <2>2. FreshIsRight(x)
    BY <1>3, <1>5, <1>6, Names DEF FreshIsRight
  <2> QED BY <2>1, <2>2 DEF Sound
<1> QED BY <1>4, <1>6, <1>7, BeginStep

LEMMA ReportStep ==
  ASSUME RInv, NEW q \in Request, NEW r \in Review, NEW u \in User, ReportReview(q, r, u)
  PROVE  RInv'
<1> DEFINE s == reports[r] \cup {u}
           x == Work("report", "row", r, u, TRUE, Nil, Only(Reports(r), s))
<1>1. s \in SUBSET Thing
  BY DEF Thing, RInv, ReviewsTypeOK
<1>2. Begin(q, x)
  BY DEF ReportReview
<1>3. /\ Only(Reports(r), s) \in Counts /\ DOMAIN Only(Reports(r), s) = {Reports(r)}
      /\ Only(Reports(r), s)[Reports(r)] = s
  <2> HIDE DEF s
  <2> QED BY <1>1, AggregateNames, OnlyCounts
<1>4. /\ x \in Transaction /\ x.saw = Only(Reports(r), s) /\ x.fresh = {Reports(r)} /\ x.kind = "report"
      /\ x.step = "row" /\ x.to = Nil /\ x.review = r /\ x.user = u
  BY <1>3, AggregateNames DEF Work, Transaction
<1> HIDE DEF x
<1>5. Sound(x)
  <2>1. Gathered(x) /\ ThresholdMet(x)
    BY <1>3, <1>4 DEF Gathered, ThresholdMet
  <2>2. FreshIsRight(x)
    BY <1>3, <1>4, Names DEF FreshIsRight
  <2> QED BY <2>1, <2>2 DEF Sound
<1> QED BY <1>2, <1>4, <1>5, BeginStep

\* A transaction that goes on to another step is still one.
LEMMA ReviewGoes ==
  ASSUME RInv, NEW q \in Request, req[q].step # "idle", NEW x \in Transaction, Sound(x),
         req' = [req EXCEPT ![q] = x],
         UNCHANGED <<status, votes, reports, shown, behind, putBack>>
  PROVE  RInv'
<1>1. req'[q] = x /\ req' \in [Request -> Transaction \cup {Idle}]
        /\ \A p \in Request \ {q} : req'[p] = req[p]
  BY DEF RInv, ReviewsTypeOK
<1>2. Sound(req[q])'
  BY <1>1 DEF Sound, Gathered, FreshIsRight, SeenBy, ThresholdMet
<1> QED BY <1>1, <1>2, QuietStep

LEMMA WriteReportCountStep ==
  ASSUME RInv, NEW q \in Request, WriteReportCount(q)
  PROVE  RInv'
<1> DEFINE r == req[q].review
           many == Cardinality(req[q].saw[Reports(r)]) >= FlagAt
           to == IF many /\ status[r] = "PUBLISHED" THEN "FLAGGED" ELSE status[r]
           x == [req[q] EXCEPT !.step = "seller", !.to = to]
<1>1. /\ req[q] \in Transaction /\ Sound(req[q]) /\ req[q].step = "row" /\ req[q].kind = "report"
      /\ req[q].step # "idle"
  BY OpenType DEF WriteReportCount, RInv, AllSound
<1>2. to \in Status /\ to # Nil /\ (many => to # "PUBLISHED")
  BY <1>1, ReviewsAssumption DEF RInv, ReviewsTypeOK, Transaction, Status
<1>3. req' = [req EXCEPT ![q] = x]
  BY <1>1 DEF WriteReportCount, RInv, ReviewsTypeOK
<1> HIDE DEF to
<1>4. /\ x \in Transaction /\ x.saw = req[q].saw /\ x.fresh = req[q].fresh /\ x.kind = "report"
      /\ x.step = "seller" /\ x.to = to /\ x.review = r /\ x.user = req[q].user
  BY <1>1, <1>2 DEF Transaction
<1> HIDE DEF x
<1>5. Sound(x)
  <2>1. Gathered(x)
    BY <1>1, <1>2, <1>4 DEF Sound, Gathered
  <2>2. FreshIsRight(x)
    <3>1. DOMAIN req[q].saw = {Reports(r)}
      BY <1>1 DEF Sound, Gathered
    <3> QED BY <1>1, <1>4, <3>1, Names DEF Sound, FreshIsRight
  <2>3. ThresholdMet(x)
    BY <1>2, <1>4 DEF ThresholdMet
  <2> QED BY <2>1, <2>2, <2>3 DEF Sound
<1> QED BY <1>1, <1>3, <1>4, <1>5, ReviewGoes DEF WriteReportCount

LEMMA WriteSellerRatingStep ==
  ASSUME RInv, NEW q \in Request, WriteSellerRating(q)
  PROVE  RInv'
<1> DEFINE x == [req[q] EXCEPT !.step = "summary"]
<1>1. req[q] \in Transaction /\ Sound(req[q]) /\ req[q].step = "rate" /\ req[q].step # "idle"
  BY OpenType DEF WriteSellerRating, RInv, AllSound
<1>2. req' = [req EXCEPT ![q] = x]
  BY <1>1 DEF WriteSellerRating, RInv, ReviewsTypeOK
<1>3. /\ x \in Transaction /\ x.saw = req[q].saw /\ x.fresh = req[q].fresh /\ x.kind = req[q].kind
      /\ x.step = "summary" /\ x.to = req[q].to /\ x.review = req[q].review /\ x.user = req[q].user
  BY <1>1 DEF Transaction
<1> HIDE DEF x
<1>4. Sound(x)
  <2>1. Gathered(x) /\ ThresholdMet(x)
    BY <1>1, <1>3 DEF Sound, Gathered, ThresholdMet
  <2>2. FreshIsRight(x)
    BY <1>1, <1>3 DEF Sound, FreshIsRight, SeenBy
  <2> QED BY <2>1, <2>2 DEF Sound
<1> QED BY <1>1, <1>2, <1>3, <1>4, ReviewGoes DEF WriteSellerRating

\* A count of what is published.
LEMMA CountingStep ==
  ASSUME RInv, NEW q \in Request, req[q].step # "idle",
         NEW a \in {SellerRating, RatingSummary, Stars}, NEW next \in {"rate", "stars", "commit"},
         NEW s \in SUBSET Review,
         s = (IF a = SellerRating THEN SeenBy(req[q]) \cap Bought ELSE SeenBy(req[q])),
         req[q].step # "row",
         Gathered([req[q] EXCEPT
           !.saw = [b \in DOMAIN req[q].saw \cup {a} |-> IF b = a THEN s ELSE req[q].saw[b]],
           !.fresh = req[q].fresh \cup {a}, !.step = next]),
         Count(q, a, s, next)
  PROVE  RInv'
<1> DEFINE saw == [b \in DOMAIN req[q].saw \cup {a} |-> IF b = a THEN s ELSE req[q].saw[b]]
           x == [req[q] EXCEPT !.saw = saw, !.fresh = req[q].fresh \cup {a}, !.step = next]
<1>1. req[q] \in Transaction /\ Sound(req[q])
  BY OpenType DEF RInv, AllSound
<1>2. saw \in Counts
  <2>1. req[q].saw \in Counts /\ s \in SUBSET Thing /\ a \in Aggregate
    BY <1>1, AggregateNames DEF Transaction, Thing
  <2> QED BY <2>1, Extended
<1>3. DOMAIN saw = DOMAIN req[q].saw \cup {a} /\ saw[a] = s
        /\ \A b \in DOMAIN req[q].saw \ {a} : saw[b] = req[q].saw[b]
  OBVIOUS
<1>4. req' = [req EXCEPT ![q] = x]
  BY <1>1 DEF Count, RInv, ReviewsTypeOK
<1>5. Gathered(x)
  OBVIOUS
<1> HIDE DEF saw
<1>6. /\ x \in Transaction /\ x.saw = saw /\ x.fresh = req[q].fresh \cup {a} /\ x.kind = req[q].kind
      /\ x.step = next /\ x.to = req[q].to /\ x.review = req[q].review /\ x.user = req[q].user
  BY <1>1, <1>2, AggregateNames DEF Transaction
<1> HIDE DEF x
<1>7. Sound(x)
  <2>1. ThresholdMet(x)
    <3> SUFFICES ASSUME x.kind = "report" PROVE x.saw[Reports(x.review)] = req[q].saw[Reports(x.review)]
      BY <1>1, <1>6 DEF ThresholdMet, Sound
    <3>1. Reports(x.review) \in DOMAIN req[q].saw /\ Reports(x.review) # a
      BY <1>1, <1>6, Names DEF Sound, Gathered
    <3> QED BY <1>3, <1>6, <3>1
  <2>2. FreshIsRight(x)
    <3> SUFFICES ASSUME NEW b \in x.fresh
                 PROVE  /\ b \in DOMAIN x.saw
                        /\ b = SellerRating => x.saw[b] = SeenBy(x) \cap Bought
                        /\ b \in {RatingSummary, Stars} => x.saw[b] = SeenBy(x)
                        /\ b = Votes(x.review) =>
                              x.saw[b] = {v \in votes[x.review] : v[1] # x.user}
                                           \cup {v \in x.saw[b] : v[1] = x.user}
                        /\ b = Reports(x.review) => x.saw[b] = reports[x.review] \cup {x.user}
      BY DEF FreshIsRight
    <3>1. SeenBy(x) = SeenBy(req[q])
      BY <1>6 DEF SeenBy
    <3>2. CASE b = a
      BY <1>3, <1>6, <3>1, <3>2, Names
    <3>3. CASE b # a
      <4>1. b \in req[q].fresh /\ b \in DOMAIN req[q].saw
        BY <1>1, <1>6, <3>3 DEF Sound, FreshIsRight
      <4>2. x.saw[b] = req[q].saw[b] /\ b \in DOMAIN x.saw
        BY <1>3, <1>6, <3>3, <4>1
      <4> QED BY <1>1, <1>6, <3>1, <4>1, <4>2 DEF Sound, FreshIsRight
    <3> QED BY <3>2, <3>3
  <2> QED BY <1>5, <2>1, <2>2 DEF Sound
<1> QED BY <1>4, <1>6, <1>7, ReviewGoes DEF Count

LEMMA CountForSellerStep ==
  ASSUME RInv, NEW q \in Request, CountForSeller(q)
  PROVE  RInv'
<1>1. /\ req[q] \in Transaction /\ Sound(req[q]) /\ req[q].step = "seller"
      /\ req[q].review \in Bought /\ req[q].step # "idle" /\ req[q].step # "row"
  BY OpenType DEF CountForSeller, RInv, AllSound
<1> DEFINE s == SeenBy(req[q]) \cap Bought
           saw == [b \in DOMAIN req[q].saw \cup {SellerRating} |->
                    IF b = SellerRating THEN s ELSE req[q].saw[b]]
           x == [req[q] EXCEPT !.saw = saw, !.fresh = req[q].fresh \cup {SellerRating}, !.step = "rate"]
<1>2. DOMAIN saw = DOMAIN req[q].saw \cup {SellerRating}
  OBVIOUS
<1>3. Gathered(x)
  <2> HIDE DEF saw
  <2>1. /\ x.saw = saw /\ x.kind = req[q].kind /\ x.step = "rate" /\ x.to = req[q].to
        /\ x.review = req[q].review /\ x.user = req[q].user
    BY <1>1 DEF Transaction
  <2> HIDE DEF x
  <2> QED BY <1>1, <1>2, <2>1 DEF Sound, Gathered
<1>4. s \in SUBSET Review
  BY DEF SeenBy
<1>5. Count(q, SellerRating, s, "rate")
  BY DEF CountForSeller, Seen, SeenBy
<1> QED BY <1>1, <1>3, <1>4, <1>5, Names, CountingStep

LEMMA CountForSummaryStep ==
  ASSUME RInv, NEW q \in Request, CountForSummary(q)
  PROVE  RInv'
<1>1. /\ req[q] \in Transaction /\ Sound(req[q])
      /\ req[q].step = "summary" \/ (req[q].step = "seller" /\ req[q].review \notin Bought)
      /\ req[q].step # "idle" /\ req[q].step # "row"
  BY OpenType DEF CountForSummary, RInv, AllSound
<1> DEFINE s == SeenBy(req[q])
           saw == [b \in DOMAIN req[q].saw \cup {RatingSummary} |->
                    IF b = RatingSummary THEN s ELSE req[q].saw[b]]
           x == [req[q] EXCEPT !.saw = saw, !.fresh = req[q].fresh \cup {RatingSummary}, !.step = "stars"]
<1>2. DOMAIN saw = DOMAIN req[q].saw \cup {RatingSummary}
  OBVIOUS
<1>3. Gathered(x)
  <2> HIDE DEF saw
  <2>1. /\ x.saw = saw /\ x.kind = req[q].kind /\ x.step = "stars" /\ x.to = req[q].to
        /\ x.review = req[q].review /\ x.user = req[q].user
    BY <1>1 DEF Transaction
  <2> HIDE DEF x
  <2> QED BY <1>1, <1>2, <2>1 DEF Sound, Gathered
<1>4. s \in SUBSET Review
  BY DEF SeenBy
<1>5. Count(q, RatingSummary, s, "stars")
  BY DEF CountForSummary, Seen, SeenBy
<1> QED BY <1>1, <1>3, <1>4, <1>5, Names, CountingStep

LEMMA CountStarsStep ==
  ASSUME RInv, NEW q \in Request, CountStars(q)
  PROVE  RInv'
<1>1. /\ req[q] \in Transaction /\ Sound(req[q]) /\ req[q].step = "stars"
      /\ req[q].step # "idle" /\ req[q].step # "row"
  BY OpenType DEF CountStars, RInv, AllSound
<1> DEFINE s == SeenBy(req[q])
           saw == [b \in DOMAIN req[q].saw \cup {Stars} |-> IF b = Stars THEN s ELSE req[q].saw[b]]
           x == [req[q] EXCEPT !.saw = saw, !.fresh = req[q].fresh \cup {Stars}, !.step = "commit"]
<1>2. DOMAIN saw = DOMAIN req[q].saw \cup {Stars}
  OBVIOUS
<1>3. Gathered(x)
  <2> HIDE DEF saw
  <2>1. /\ x.saw = saw /\ x.kind = req[q].kind /\ x.step = "commit" /\ x.to = req[q].to
        /\ x.review = req[q].review /\ x.user = req[q].user
    BY <1>1 DEF Transaction
  <2> HIDE DEF x
  <2> QED BY <1>1, <1>2, <2>1 DEF Sound, Gathered
<1>4. s \in SUBSET Review
  BY DEF SeenBy
<1>5. Count(q, Stars, s, "commit")
  BY DEF CountStars, Seen, SeenBy
<1> QED BY <1>1, <1>3, <1>4, <1>5, Names, CountingStep

LEMMA RollBackStep ==
  ASSUME RInv, NEW q \in Request, RollBack(q)
  PROVE  RInv'
<1>1. /\ req' \in [Request -> Transaction \cup {Idle}]
      /\ req'[q] = Idle
      /\ \A p \in Request \ {q} : req'[p] = req[p]
  BY DEF RollBack, RInv, ReviewsTypeOK
<1>2. req'[q].step = "idle"
  BY <1>1 DEF Idle
<1> QED BY <1>1, <1>2, QuietStep DEF RollBack

-----------------------------------------------------------------------------
(* The commit *)

LEMMA CommitStep ==
  ASSUME RInv, NEW q \in Request, Commit(q)
  PROVE  RInv'
<1> DEFINE x == req[q]
           r == x.review
           done == DOMAIN x.saw
<1>1. /\ x \in Transaction /\ Sound(x) /\ x.step # "idle"
      /\ x.step = "commit" \/ (x.step = "row" /\ x.kind = "vote")
  <2>1. x.step # "idle"
    BY DEF Commit
  <2> QED BY <2>1, OpenType DEF Commit, RInv, AllSound
<1>2. /\ r \in Review /\ x.user \in User \cup {Nil} /\ x.to \in Status \cup {Nil}
      /\ done \in SUBSET Aggregate /\ x.fresh \subseteq done
      /\ x.kind = "vote" => /\ done = {Votes(r)} /\ x.to = Nil
                           /\ x.saw[Votes(r)] \in SUBSET (User \X BOOLEAN)
      /\ x.kind = "report" => x.user \in User
      /\ x.kind # "vote" =>
           /\ x.step = "commit" /\ x.to # Nil
           /\ {RatingSummary, Stars} \subseteq done
           /\ r \in Bought => SellerRating \in done
           /\ x.kind = "report" => Reports(r) \in done
           /\ \A s : Votes(s) \notin done
      /\ \A s : x.kind # "report" => Reports(s) \notin done
      /\ \A s : Votes(s) \in done => s = r
      /\ \A s : Reports(s) \in done => s = r
  BY <1>1, CountsDomain, Names DEF Transaction, Sound, Gathered, FreshIsRight
<1>3. /\ status' = IF x.to = Nil THEN status ELSE [status EXCEPT ![r] = x.to]
      /\ votes' = IF x.kind # "vote" THEN votes
                  ELSE [votes EXCEPT ![r] =
                          {v \in votes[r] : v[1] # x.user}
                            \cup {v \in x.saw[Votes(r)] : v[1] = x.user}]
      /\ reports' = IF x.kind # "report" THEN reports
                    ELSE [reports EXCEPT ![r] = reports[r] \cup {x.user}]
      /\ shown' = [a \in Aggregate |-> IF a \in done THEN x.saw[a] ELSE shown[a]]
      /\ behind' = (behind \ done) \cup (done \ x.fresh)
      /\ putBack' = CASE x.kind = "report" -> putBack \ {r}
                      [] x.kind = "moderate" /\ x.to = "PUBLISHED" -> putBack \cup {r}
                      [] OTHER -> putBack
      /\ req' = [p \in Request |->
             CASE p = q -> Idle
               [] req[p].step = "idle" -> Idle
               [] OTHER -> [req[p] EXCEPT !.fresh = @ \ done]]
  BY <1>2 DEF Commit, RInv, ReviewsTypeOK
<1>4. /\ req' \in [Request -> Transaction \cup {Idle}]
      /\ \A p \in Request : req'[p].step # "idle" =>
           /\ p # q /\ req[p].step # "idle" /\ req[p] \in Transaction
           /\ req'[p] = [req[p] EXCEPT !.fresh = req[p].fresh \ done]
  <2>1. \A p \in Request : req[p].step # "idle" => req[p] \in Transaction
    BY OpenType DEF RInv
  <2>2. \A y \in Transaction : [y EXCEPT !.fresh = y.fresh \ done] \in Transaction
    BY DEF Transaction
  <2>3. Idle.step = "idle"
    BY DEF Idle
  <2>4. ASSUME NEW p \in Request
        PROVE  req'[p] = IF p = q \/ req[p].step = "idle" THEN Idle
                         ELSE [req[p] EXCEPT !.fresh = req[p].fresh \ done]
    BY <1>3
  <2>5. req' = [p \in Request |-> req'[p]]
    BY <1>3
  <2> HIDE DEF done, x
  <2> QED BY <2>1, <2>2, <2>3, <2>4, <2>5
<1> HIDE DEF x, done, r
<1>5. ReviewsTypeOK'
  <2>1. status' \in [Review -> Status]
    BY <1>2, <1>3 DEF RInv, ReviewsTypeOK
  <2>2. votes' \in [Review -> SUBSET (User \X BOOLEAN)]
    BY <1>2, <1>3 DEF RInv, ReviewsTypeOK
  <2>3. reports' \in [Review -> SUBSET User]
    BY <1>2, <1>3 DEF RInv, ReviewsTypeOK
  <2>4. DOMAIN shown' = Aggregate /\ behind' \in SUBSET Aggregate /\ putBack' \in SUBSET Review
    BY <1>2, <1>3 DEF RInv, ReviewsTypeOK
  <2> QED BY <1>4, <2>1, <2>2, <2>3, <2>4 DEF ReviewsTypeOK
<1>6. /\ RatingSummary \notin done \/ Stars \notin done => status' = status
      /\ SellerRating \notin done => \A s \in Bought : status'[s] = status[s]
      /\ \A s \in Review : Votes(s) \notin done => votes'[s] = votes[s]
      /\ \A s \in Review : Reports(s) \notin done => reports'[s] = reports[s]
  BY <1>2, <1>3, ReviewsAssumption DEF RInv, ReviewsTypeOK
<1>7. ASSUME NEW a \in x.fresh PROVE x.saw[a] = Truth(a)'
  <2>1. FreshIsRight(x) /\ a \in done
    BY <1>1, <1>2 DEF Sound
  <2>2. x.kind # "vote" => Published' = SeenBy(x)
    BY <1>2, <1>3 DEF Published, SeenBy, RInv, ReviewsTypeOK, r
  <2>3. CASE a \in {SellerRating, RatingSummary, Stars}
    <3>1. x.kind # "vote"
      BY <1>2, <2>1, <2>3, Names
    <3> QED BY <2>1, <2>2, <2>3, <3>1, TruthOf DEF TruthIs, FreshIsRight
  <2>4. CASE a = Votes(r)
    <3>1. x.kind = "vote"
      BY <1>2, <2>1, <2>4
    <3>2. votes'[r] = x.saw[a]
      BY <1>2, <1>3, <2>1, <2>4, <3>1 DEF FreshIsRight, RInv, ReviewsTypeOK, r
    <3> QED BY <2>4, <3>2, TruthOf DEF TruthIs
  <2>5. CASE a = Reports(r)
    <3>1. x.kind = "report"
      BY <1>2, <2>1, <2>5
    <3>2. reports'[r] = x.saw[a]
      BY <1>2, <1>3, <2>1, <2>5, <3>1 DEF FreshIsRight, RInv, ReviewsTypeOK, r
    <3> QED BY <2>5, <3>2, TruthOf DEF TruthIs
  <2> QED BY <1>2, <2>1, <2>3, <2>4, <2>5, AggregateNames
<1>8. ASSUME NEW a \in Aggregate \ behind' PROVE shown'[a] = Truth(a)'
  <2>1. CASE a \in done
    BY <1>3, <1>7, <2>1
  <2>2. CASE a \notin done
    <3>1. shown'[a] = Truth(a)
      BY <1>3, <2>2 DEF RInv, ShownIsTrue
    <3>2. CASE a = SellerRating
      <4>1. (Published \cap Bought)' = Published \cap Bought
        BY <1>6, <2>2, <3>2 DEF Published
      <4> QED BY <3>1, <3>2, <4>1, TruthOf DEF TruthIs
    <3>3. CASE a \in {RatingSummary, Stars}
      <4>1. Published' = Published
        BY <1>6, <2>2, <3>3 DEF Published
      <4> QED BY <3>1, <3>3, <4>1, TruthOf DEF TruthIs
    <3>4. ASSUME NEW s \in Review, a = Votes(s) PROVE shown'[a] = Truth(a)'
      BY <1>6, <2>2, <3>1, <3>4, TruthOf DEF TruthIs
    <3>5. ASSUME NEW s \in Review, a = Reports(s) PROVE shown'[a] = Truth(a)'
      BY <1>6, <2>2, <3>1, <3>5, TruthOf DEF TruthIs
    <3> QED BY <3>2, <3>3, <3>4, <3>5, AggregateNames
  <2> QED BY <2>1, <2>2
<1>9. ASSUME NEW s \in Review, Reports(s) \notin behind' PROVE Pulled(s)'
  <2>1. CASE x.kind = "report" /\ s = r
    <3>1. Reports(r) \in x.fresh
      BY <1>2, <1>3, <1>9, <2>1
    <3>2. reports'[r] = x.saw[Reports(r)]
      BY <1>7, <3>1, TruthOf DEF TruthIs
    <3>3. status'[r] = x.to
      BY <1>2, <1>3, <2>1 DEF RInv, ReviewsTypeOK
    <3>4. x.step # "row"
      BY <1>2, <2>1
    <3>5. Cardinality(x.saw[Reports(r)]) >= FlagAt => x.to # "PUBLISHED"
      BY <1>1, <2>1, <3>4 DEF Sound, ThresholdMet, r
    <3> QED BY <2>1, <3>2, <3>3, <3>5 DEF Pulled
  <2>2. CASE x.kind # "report" \/ s # r
    <3>1. Reports(s) \notin done
      BY <1>2, <2>2
    <3>2. reports'[s] = reports[s] /\ Pulled(s)
      BY <1>3, <1>6, <1>9, <3>1 DEF RInv, ShownIsTrue
    <3>3. s \in putBack => s \in putBack'
      BY <1>3, <2>2
    <3>4. status'[s] = "PUBLISHED" => status[s] = "PUBLISHED" \/ s \in putBack'
      <4>1. CASE s = r /\ x.to = "PUBLISHED"
        <5>1. x.kind = "moderate"
          BY <1>1, <1>2, <2>2, <4>1, ReviewsAssumption DEF Sound, Gathered, Transaction, Status
        <5> QED BY <1>3, <4>1, <5>1
      <4>2. CASE s # r \/ x.to # "PUBLISHED"
        BY <1>2, <1>3, <4>2 DEF RInv, ReviewsTypeOK
      <4> QED BY <4>1, <4>2
    <3> QED BY <3>2, <3>3, <3>4 DEF Pulled
  <2> QED BY <2>1, <2>2
<1>10. AllSound'
  <2> SUFFICES ASSUME NEW p \in Request, req'[p].step # "idle" PROVE Sound(req[p])'
    BY DEF AllSound
  <2> DEFINE y == req[p]
             z == req'[p]
  <2>1. /\ y \in Transaction /\ Sound(y)
        /\ z = [y EXCEPT !.fresh = y.fresh \ done]
    BY <1>4 DEF RInv, AllSound
  <2>2. /\ z.kind = y.kind /\ z.step = y.step /\ z.to = y.to /\ z.review = y.review
        /\ z.user = y.user /\ z.saw = y.saw /\ z.fresh = y.fresh \ done /\ y.review \in Review
    BY <2>1 DEF Transaction
  <2> HIDE DEF y
  <2>3. Gathered(y) /\ FreshIsRight(y) /\ ThresholdMet(y)
    BY <2>1 DEF Sound
  <2>4. Gathered(req[p])' /\ ThresholdMet(req[p])'
    BY <2>2, <2>3 DEF Gathered, ThresholdMet
  <2>5. FreshIsRight(req[p])'
    <3> SUFFICES ASSUME NEW b \in z.fresh
                 PROVE  /\ b \in DOMAIN z.saw
                        /\ b = SellerRating => z.saw[b] = SeenBy(req[p])' \cap Bought
                        /\ b \in {RatingSummary, Stars} => z.saw[b] = SeenBy(req[p])'
                        /\ b = Votes(z.review) =>
                              z.saw[b] = {v \in votes'[z.review] : v[1] # z.user}
                                           \cup {v \in z.saw[b] : v[1] = z.user}
                        /\ b = Reports(z.review) => z.saw[b] = reports'[z.review] \cup {z.user}
      BY DEF FreshIsRight
    <3>1. b \in y.fresh /\ b \notin done
      BY <2>2
    <3>2. b = SellerRating => SeenBy(req[p])' \cap Bought = SeenBy(y) \cap Bought
      BY <1>6, <2>2, <3>1 DEF SeenBy
    <3>3. b \in {RatingSummary, Stars} => SeenBy(req[p])' = SeenBy(y)
      BY <1>6, <2>2, <3>1 DEF SeenBy
    <3>4. b = Votes(z.review) => votes'[z.review] = votes[y.review]
      BY <1>6, <2>2, <3>1
    <3>5. b = Reports(z.review) => reports'[z.review] = reports[y.review]
      BY <1>6, <2>2, <3>1
    <3> HIDE DEF z
    <3> QED BY <2>2, <2>3, <3>1, <3>2, <3>3, <3>4, <3>5 DEF FreshIsRight
  <2> QED BY <2>4, <2>5 DEF Sound
<1> QED BY <1>5, <1>8, <1>9, <1>10 DEF RInv, ShownIsTrue

-----------------------------------------------------------------------------
LEMMA ReviewsInitInv == ReviewsInit => RInv
<1> SUFFICES ASSUME ReviewsInit PROVE RInv
  OBVIOUS
<1>1. ReviewsTypeOK
  BY DEF ReviewsInit, ReviewsTypeOK, Status
<1>2. AllSound
  BY DEF ReviewsInit, AllSound, Idle
<1>3. ShownIsTrue
  <2>1. \A r \in Review : Cardinality(reports[r]) = 0
    BY FS_EmptySet DEF ReviewsInit
  <2> QED BY <2>1, ReviewsAssumption DEF ReviewsInit, ShownIsTrue, Pulled
<1> QED BY <1>1, <1>2, <1>3 DEF RInv

LEMMA ReviewsStep == RInv /\ [ReviewsNext]_reviewsVars => RInv'
<1> SUFFICES ASSUME RInv, [ReviewsNext]_reviewsVars PROVE RInv'
  OBVIOUS
<1>1. CASE ReviewsNext
  BY <1>1, CreateStep, VoteStep, ReportStep, ModerateStep, WriteReportCountStep,
     CountForSellerStep, WriteSellerRatingStep, CountForSummaryStep, CountStarsStep,
     CommitStep, RollBackStep DEF ReviewsNext
<1>2. CASE UNCHANGED reviewsVars
  <2> USE <1>2 DEF reviewsVars, RInv
  <2>1. ReviewsTypeOK'
    BY DEF ReviewsTypeOK
  <2>2. AllSound'
    BY DEF AllSound, Sound, Gathered, FreshIsRight, SeenBy, ThresholdMet
  <2>3. ShownIsTrue'
    BY DEF ShownIsTrue, Truth, Published, Pulled
  <2> QED BY <2>1, <2>2, <2>3
<1> QED BY <1>1, <1>2

\* However many reviews, users and requests there are, what the shop shows is what there is,
\* and a review with enough reports is down, except where the last refresh was overtaken
\* (refresh_seller_rating and the other triggers count and write in statements of their own).
THEOREM ShownIsTrueTheorem == ReviewsSpec => []ShownIsTrue
<1>1. RInv => ShownIsTrue
  BY DEF RInv
<1> QED BY <1>1, ReviewsInitInv, ReviewsStep, PTL DEF ReviewsSpec
=============================================================================
