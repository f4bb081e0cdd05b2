-------------------------- MODULE Aftersale_proofs --------------------------
(***************************************************************************)
(* Returns, reversals and settlements for any number of items, requests,   *)
(* entries and periods.  Three invariants, one per part:                   *)
(*   ReturnsInv   a request that was written has taken its item past       *)
(*                delivery, and one that queued a refund has taken it      *)
(*                where no inspection can be completed any more;           *)
(*   FinanceInv   what is pinned is posted and selected by its settlement; *)
(*   ReturnedIsReversed, which the first makes inductive.                  *)
(***************************************************************************)
EXTENDS Aftersale, FiniteSetTheorems, TLAPS

Written == Open \cup {"REJECTED"}
Ahead == {"OUT_FOR_DELIVERY", "DELIVERED"}
Repaid == {"REFUND_PENDING", "REFUNDED"}

RequestOK(r) ==
  /\ request[r].status # "NONE" => request[r].item \in Item
  /\ request[r].refund # "NONE" => request[r].status = "REFUND_INITIATED"
  /\ request[r].status \in Written => item[request[r].item].status \notin Ahead
  /\ request[r].status = "REFUND_INITIATED" => item[request[r].item].status \in Repaid

ReturnsInv == ReturnsTypeOK /\ (\A r \in Request : RequestOK(r)) /\ RefundedOnce

RequestRow ==
  [status : RequestStatus, item : Item \cup {None}, units : 0..Quantity, repair : BOOLEAN,
   amount : 0..Price, refund : {"NONE", "PENDING", "PROCESSING", "COMPLETED", "FAILED"}]

\* Items that were delivered stay delivered, and what was refunded is so for good.
MovesOn ==
  \A i \in Item :
    /\ item[i].status \notin Ahead => item'[i].status \notin Ahead
    /\ item[i].status \in Repaid => item'[i].status \in Repaid

FinanceInv ==
  /\ FinanceTypeOK
  /\ \A e \in Entry : pin[e] # None =>
       Posted(e) /\ e \in Selects[pin[e]] /\ settlement[pin[e]].status # "NONE"
  /\ SettledByItsPin
  /\ PendingAddsUp

AdjustmentRow ==
  [status : {"NONE", "PENDING_APPROVAL", "REJECTED", "POSTED"}, by : Person \cup {None}]

\* The table, for the moves of a return.
LEMMA SellerTable ==
  ASSUME NEW x, NEW y, x # y, Allowed(x, y, "SELLER", TRUE)
  PROVE  y \notin Ahead /\ x \notin Repaid
BY DEF Allowed, Transitions, Ahead, Repaid

LEMMA CustomerTable ==
  ASSUME NEW x, Allowed(x, "RETURN_REQUESTED", "CUSTOMER", TRUE)
  PROVE  x \notin Repaid
BY DEF Allowed, Transitions, Repaid

LEMMA InspectorTable ==
  ASSUME NEW x, NEW a, Allowed(x, "RETURN_QC_COMPLETED", a, TRUE)
  PROVE  x \in {"RETURN_RECEIVED", "RETURN_QC_COMPLETED"}
BY DEF Allowed, Transitions

LEMMA Statuses ==
  {"OUT_FOR_DELIVERY", "DELIVERED", "RETURN_REQUESTED", "RETURN_APPROVED", "RETURN_REJECTED",
   "RETURN_PICKED", "RETURN_RECEIVED", "RETURN_QC_COMPLETED", "REFUND_PENDING", "REFUNDED"}
    \subseteq ItemStatus
BY DEF ItemStatus, Rank

\* A share of the price is never more than the price.
LEMMA ShareBound ==
  ASSUME NEW u \in 0..Quantity
  PROVE  Share(u) \in 0..Price
<1>1. Price \in Nat /\ Quantity \in Nat /\ Quantity > 0 /\ u \in Nat /\ u <= Quantity
  BY ReturnsAssumption
<1>2. Price * u \in Nat /\ Price * u <= Price * Quantity
  BY <1>1
<1>3. (Price * u) \div Quantity \in Int
  BY <1>1, <1>2
<1>4. Quantity * ((Price * u) \div Quantity) <= Price * u
  BY <1>1, <1>2
<1>5. Quantity * ((Price * u) \div Quantity) <= Quantity * Price
  BY <1>1, <1>2, <1>3, <1>4
<1>6. (Price * u) \div Quantity >= 0
  BY <1>1, <1>2
<1>7. (Price * u) \div Quantity <= Price
  <2> DEFINE d == (Price * u) \div Quantity
  <2>1. SUFFICES ASSUME d >= Price + 1 PROVE FALSE
    BY <1>1, <1>3
  <2>2. Quantity * d >= Quantity * (Price + 1)
    BY <1>1, <1>3, <2>1
  <2>3. Quantity * (Price + 1) = Quantity * Price + Quantity
    BY <1>1
  <2> QED BY <1>1, <1>3, <1>5, <2>2, <2>3
<1> QED BY <1>3, <1>6, <1>7 DEF Share

\* A request that a step leaves alone stays as it should be if the items move on.
LEMMA MovesOnKeeps ==
  ASSUME ReturnsTypeOK, MovesOn, NEW r \in Request, RequestOK(r), request'[r] = request[r]
  PROVE  RequestOK(r)'
BY DEF RequestOK, MovesOn, ReturnsTypeOK, RequestStatus, Open, Written

\* A step that asks for no refund and raises no amount keeps RefundedOnce.
LEMMA NoNewRefund ==
  ASSUME RefundedOnce,
         \A r \in Request :
           request'[r].refund # "NONE" =>
             /\ request[r].refund # "NONE"
             /\ request'[r].item = request[r].item
             /\ request'[r].amount = request[r].amount
  PROVE  RefundedOnce'
BY DEF RefundedOnce

LEMMA ReturnsStep ==
  ASSUME ReturnsInv, ReturnsNext
  PROVE  ReturnsInv'
<1> USE DEF ReturnsInv
<1>1. ASSUME NEW i \in Item, Deliver(i)
      PROVE  ReturnsInv'
  <2>1. MovesOn
    BY <1>1 DEF MovesOn, Deliver, ReturnsTypeOK, Ahead, Repaid
  <2>2. ReturnsTypeOK'
    BY <1>1, Statuses DEF ReturnsTypeOK, Deliver
  <2>3. \A r \in Request : RequestOK(r)'
    BY <1>1, <2>1, MovesOnKeeps DEF Deliver
  <2>4. RefundedOnce'
    BY <1>1 DEF RefundedOnce, Deliver
  <2> QED BY <2>2, <2>3, <2>4
<1>2. ASSUME NEW i \in Item, NEW to \in ItemStatus, SellerMove(i, to)
      PROVE  ReturnsInv'
  <2>0. to \notin Ahead /\ item[i].status \notin Repaid
    BY <1>2, SellerTable DEF SellerMove
  <2>1. MovesOn
    BY <1>2, <2>0 DEF MovesOn, SellerMove, ReturnsTypeOK
  <2>2. ReturnsTypeOK'
    BY <1>2 DEF ReturnsTypeOK, SellerMove
  <2>3. \A r \in Request : RequestOK(r)'
    BY <1>2, <2>1, MovesOnKeeps DEF SellerMove
  <2>4. RefundedOnce'
    BY <1>2 DEF RefundedOnce, SellerMove
  <2> QED BY <2>2, <2>3, <2>4
<1>3. ASSUME NEW r \in Request, NEW i \in Item, NEW units \in 1..Quantity, NEW repair \in BOOLEAN,
             Ask(r, i, units, repair)
      PROVE  ReturnsInv'
  <2>1. MovesOn
    BY <1>3 DEF MovesOn, Ask
  <2>2. ReturnsTypeOK'
    <3>1. request'[r] = [status |-> "ASKING", item |-> i, units |-> units, repair |-> repair,
                         amount |-> 0, refund |-> "NONE"]
      BY <1>3 DEF ReturnsTypeOK, Ask, NoRequest
    <3>2. units \in 0..Quantity /\ 0 \in 0..Price
      BY ReturnsAssumption
    <3>3. request'[r] \in RequestRow
      BY <3>1, <3>2 DEF RequestRow, RequestStatus
    <3> QED BY <1>3, <3>3 DEF ReturnsTypeOK, Ask, RequestRow
  <2>3. ASSUME NEW s \in Request PROVE RequestOK(s)'
    <3>1. CASE s = r
      BY <1>3, <3>1 DEF Ask, NoRequest, RequestOK, Written, Open, ReturnsTypeOK
    <3>2. CASE s # r
      <4>1. request'[s] = request[s]
        BY <1>3, <3>2 DEF Ask, ReturnsTypeOK
      <4> QED BY <2>1, <4>1, MovesOnKeeps
    <3> QED BY <3>1, <3>2
  <2>4. RefundedOnce'
    <3>1. \A s \in Request : s # r => request'[s] = request[s]
      BY <1>3 DEF Ask, ReturnsTypeOK
    <3>2. request'[r].refund = "NONE"
      BY <1>3 DEF Ask, NoRequest, ReturnsTypeOK
    <3> QED BY <3>1, <3>2, NoNewRefund
  <2> QED BY <2>2, <2>3, <2>4
<1>4. ASSUME NEW r \in Request, MakeRequest(r)
      PROVE  ReturnsInv'
  <2> DEFINE i == request[r].item
  <2>0. /\ i \in Item
        /\ item[i].status \notin Repaid
        /\ request[r].refund = "NONE"
    BY <1>4, CustomerTable DEF MakeRequest, RequestOK
  <2>1. MovesOn
    BY <1>4, <2>0 DEF MovesOn, MakeRequest, ReturnsTypeOK, Ahead, Repaid
  <2>2. ReturnsTypeOK'
    <3>1. Share(request[r].units) \in 0..Price
      BY ShareBound DEF ReturnsTypeOK
    <3>2. item' \in [Item -> [status : ItemStatus, returned : 0..Quantity]]
      BY <1>4, <2>0, Statuses DEF ReturnsTypeOK, MakeRequest
    <3>3. request'[r] \in RequestRow
      <4>1. request[r] \in RequestRow
        BY DEF ReturnsTypeOK, RequestRow
      <4>2. \E t \in {"AUTO_APPROVED", "REQUESTED"} :
              request'[r] = [request[r] EXCEPT !.status = t, !.amount = Share(request[r].units)]
        BY <1>4 DEF ReturnsTypeOK, MakeRequest
      <4>3. {"AUTO_APPROVED", "REQUESTED"} \subseteq RequestStatus
        BY DEF RequestStatus, Open
      <4> QED BY <3>1, <4>1, <4>2, <4>3 DEF RequestRow
    <3> QED BY <1>4, <3>2, <3>3 DEF ReturnsTypeOK, MakeRequest, RequestRow
  <2>3. ASSUME NEW s \in Request PROVE RequestOK(s)'
    <3>1. CASE s = r
      <4>1. /\ request'[r].item = i /\ request'[r].refund = "NONE"
            /\ request'[r].status \in {"AUTO_APPROVED", "REQUESTED"}
            /\ item'[i].status \notin Ahead
        BY <1>4, <2>0 DEF MakeRequest, ReturnsTypeOK, Ahead
      <4> QED BY <2>0, <3>1, <4>1 DEF RequestOK
    <3>2. CASE s # r
      <4>1. request'[s] = request[s]
        BY <1>4, <3>2 DEF MakeRequest, ReturnsTypeOK
      <4> QED BY <2>1, <4>1, MovesOnKeeps
    <3> QED BY <3>1, <3>2
  <2>4. RefundedOnce'
    <3>1. \A s \in Request : s # r => request'[s] = request[s]
      BY <1>4 DEF MakeRequest, ReturnsTypeOK
    <3>2. request'[r].refund = "NONE"
      BY <1>4, <2>0 DEF MakeRequest, ReturnsTypeOK
    <3> QED BY <3>1, <3>2, NoNewRefund
  <2> QED BY <2>2, <2>3, <2>4
<1>5. ASSUME NEW r \in Request, DropRequest(r)
      PROVE  ReturnsInv'
  <2>1. MovesOn
    BY <1>5 DEF MovesOn, DropRequest
  <2>2. ReturnsTypeOK'
    BY <1>5, ReturnsAssumption DEF ReturnsTypeOK, DropRequest, NoRequest, RequestStatus
  <2>3. \A s \in Request : s # r => request'[s] = request[s]
    BY <1>5 DEF DropRequest, ReturnsTypeOK
  <2>4. request'[r] = NoRequest
    BY <1>5 DEF DropRequest, ReturnsTypeOK
  <2>5. RequestOK(r)'
    BY <2>4 DEF RequestOK, NoRequest, Written, Open
  <2>6. \A s \in Request : RequestOK(s)'
    BY <2>1, <2>3, <2>5, MovesOnKeeps
  <2>7. RefundedOnce'
    BY <2>3, <2>4, NoNewRefund DEF NoRequest
  <2> QED BY <2>2, <2>6, <2>7
<1>6. ASSUME NEW r \in Request, NEW approved \in BOOLEAN, Decide(r, approved)
      PROVE  ReturnsInv'
  <2> DEFINE i == request[r].item
  <2>0. i \in Item /\ request[r].refund = "NONE" /\ item[i].status \notin Ahead
    BY <1>6 DEF Decide, RequestOK, Written, Open
  <2>1. MovesOn
    BY <1>6, <2>0 DEF MovesOn, Decide, ReturnsTypeOK, Ahead, Repaid
  <2>2. ReturnsTypeOK'
    BY <1>6, <2>0, Statuses DEF ReturnsTypeOK, Decide, RequestStatus, Open
  <2>3. \A s \in Request : s # r => request'[s] = request[s]
    BY <1>6 DEF Decide, ReturnsTypeOK
  <2>4. /\ request'[r].item = i /\ request'[r].refund = "NONE"
        /\ request'[r].status \in {"APPROVED", "REJECTED"}
    BY <1>6, <2>0 DEF Decide, ReturnsTypeOK
  <2>5. RequestOK(r)'
    BY <2>0, <2>1, <2>4 DEF RequestOK, MovesOn
  <2>6. \A s \in Request : RequestOK(s)'
    BY <2>1, <2>3, <2>5, MovesOnKeeps
  <2>7. RefundedOnce'
    BY <2>3, <2>4, NoNewRefund
  <2> QED BY <2>2, <2>6, <2>7
<1>7. ASSUME NEW r \in Request, Receive(r)
      PROVE  ReturnsInv'
  <2> DEFINE i == request[r].item
  <2>0. i \in Item /\ request[r].refund = "NONE" /\ item[i].status \notin Ahead
    BY <1>7 DEF Receive, RequestOK, Written, Open
  <2>1. MovesOn
    BY <1>7, <2>0 DEF MovesOn, Receive, ReturnsTypeOK, Ahead, Repaid
  <2>2. ReturnsTypeOK'
    BY <1>7, <2>0, Statuses DEF ReturnsTypeOK, Receive, RequestStatus, Open
  <2>3. \A s \in Request : s # r => request'[s] = request[s]
    BY <1>7 DEF Receive, ReturnsTypeOK
  <2>4. /\ request'[r].item = i /\ request'[r].refund = "NONE"
        /\ request'[r].status = "RECEIVED"
    BY <1>7, <2>0 DEF Receive, ReturnsTypeOK
  <2>5. RequestOK(r)'
    BY <2>0, <2>1, <2>4 DEF RequestOK, MovesOn
  <2>6. \A s \in Request : RequestOK(s)'
    BY <2>1, <2>3, <2>5, MovesOnKeeps
  <2>7. RefundedOnce'
    BY <2>3, <2>4, NoNewRefund
  <2> QED BY <2>2, <2>6, <2>7
<1>8. ASSUME NEW r \in Request, NEW actor, NEW deduction \in Deduction, Pass(r, actor, deduction)
      PROVE  ReturnsInv'
  <2> DEFINE i == request[r].item
  <2>0. /\ i \in Item /\ request[r].refund = "NONE"
        /\ item[i].status \in {"RETURN_RECEIVED", "RETURN_QC_COMPLETED"}
    BY <1>8, InspectorTable DEF Pass, MayComplete, RequestOK
  <2>1. MovesOn
    BY <1>8, <2>0 DEF MovesOn, Pass, ReturnsTypeOK, Ahead, Repaid
  <2>2. ReturnsTypeOK'
    <3>1. deduction \in Nat
      BY ReturnsAssumption
    <3>2. item' \in [Item -> [status : ItemStatus, returned : 0..Quantity]]
      <4>1. item[i].returned + request[r].units \in 0..Quantity
        BY <1>8, <2>0, ReturnsAssumption DEF Pass, ReturnsTypeOK
      <4> QED BY <1>8, <2>0, <4>1, Statuses DEF Pass, ReturnsTypeOK
    <3>3. request' \in [Request -> RequestRow]
      <4>1. request[r].amount > 0 /\ intent.status = "CAPTURED" =>
              request[r].amount - deduction \in 0..Price
        BY <1>8, <3>1, ReturnsAssumption DEF Pass, ReturnsTypeOK
      <4>2. request'[r] \in RequestRow
        <5>1. request[r] \in RequestRow
          BY DEF ReturnsTypeOK, RequestRow
        <5>2. {"REFUND_INITIATED", "QC_PASSED"} \subseteq RequestStatus
          BY DEF RequestStatus, Open
        <5>3. CASE request[r].amount > 0 /\ intent.status = "CAPTURED"
          <6>1. request'[r] = [request[r] EXCEPT !.status = "REFUND_INITIATED",
                                 !.refund = "PENDING", !.amount = @ - deduction]
            BY <1>8, <5>3 DEF Pass, ReturnsTypeOK
          <6> QED BY <4>1, <5>1, <5>2, <5>3, <6>1 DEF RequestRow
        <5>4. CASE ~(request[r].amount > 0 /\ intent.status = "CAPTURED")
          <6>1. request'[r] = [request[r] EXCEPT !.status = "QC_PASSED"]
            BY <1>8, <5>4 DEF Pass, ReturnsTypeOK
          <6> QED BY <5>1, <5>2, <6>1 DEF RequestRow
        <5> QED BY <5>3, <5>4
      <4> QED BY <1>8, <4>2 DEF Pass, ReturnsTypeOK, RequestRow
    <3>4. intent' = intent /\ events' = events \cup {Received(r)}
      BY <1>8 DEF Pass
    <3> QED BY <3>2, <3>3, <3>4 DEF ReturnsTypeOK, Captured, RequestRow
  <2>3. \A s \in Request : s # r => request'[s] = request[s]
    BY <1>8 DEF Pass, ReturnsTypeOK
  <2>4. /\ request'[r].item = i
        /\ \/ /\ request'[r].status = "REFUND_INITIATED" /\ item'[i].status = "REFUND_PENDING"
           \/ /\ request'[r].status = "QC_PASSED" /\ request'[r].refund = "NONE"
              /\ item'[i].status = "RETURN_QC_COMPLETED"
    BY <1>8, <2>0 DEF Pass, ReturnsTypeOK
  <2>5. RequestOK(r)'
    BY <2>0, <2>4 DEF RequestOK, Ahead, Repaid
  <2>6. \A s \in Request : RequestOK(s)'
    BY <2>1, <2>3, <2>5, MovesOnKeeps
  <2>7. \A s \in Request : request[s].refund # "NONE" => request[s].item # i
    BY <2>0 DEF RequestOK, Repaid
  <2>8. request'[r].amount <= Price
    BY <2>2, ReturnsAssumption DEF ReturnsTypeOK
  <2>9. RefundedOnce'
    BY <2>3, <2>4, <2>7, <2>8 DEF RefundedOnce
  <2> QED BY <2>2, <2>6, <2>9
<1>9. ASSUME NEW r \in Request, NEW actor, Fail(r, actor)
      PROVE  ReturnsInv'
  <2> DEFINE i == request[r].item
  <2>0. i \in Item /\ request[r].refund = "NONE" /\ item[i].status \notin Ahead
    BY <1>9 DEF Fail, RequestOK, Written, Open
  <2>1. MovesOn
    BY <1>9, <2>0 DEF MovesOn, Fail, ReturnsTypeOK, Ahead, Repaid
  <2>2. ReturnsTypeOK'
    BY <1>9, <2>0, Statuses DEF ReturnsTypeOK, Fail, RequestStatus, Open
  <2>3. \A s \in Request : s # r => request'[s] = request[s]
    BY <1>9 DEF Fail, ReturnsTypeOK
  <2>4. /\ request'[r].item = i /\ request'[r].refund = "NONE"
        /\ request'[r].status = "QC_FAILED"
    BY <1>9, <2>0 DEF Fail, ReturnsTypeOK
  <2>5. RequestOK(r)'
    BY <2>0, <2>1, <2>4 DEF RequestOK, MovesOn
  <2>6. \A s \in Request : RequestOK(s)'
    BY <2>1, <2>3, <2>5, MovesOnKeeps
  <2>7. RefundedOnce'
    BY <2>3, <2>4, NoNewRefund
  <2> QED BY <2>2, <2>6, <2>7
<1>10. ASSUME NEW r \in Request, NEW o \in {"COMPLETED", "FAILED", "PROCESSING"},
              ProcessRefund(r, o) \/ RefundSettles(r, o)
       PROVE  ReturnsInv'
  <2> DEFINE i == request[r].item
  <2>0. /\ i \in Item /\ request[r].refund # "NONE" /\ request[r].status = "REFUND_INITIATED"
    BY <1>10 DEF ProcessRefund, RefundSettles, RequestOK
  <2>1. MovesOn
    BY <1>10, <2>0 DEF MovesOn, ProcessRefund, RefundSettles, Refunded, Pending, ReturnsTypeOK,
                       Ahead, Repaid
  <2>2. ReturnsTypeOK'
    <3>1. Captured \in Nat
      BY ReturnsAssumption, FS_CardinalityType DEF Captured
    <3>2. intent' \in [status : {"CAPTURED", "PARTIALLY_REFUNDED", "REFUNDED"}, refunded : 0..Captured]
      BY <1>10, <3>1, ReturnsAssumption DEF ReturnsTypeOK, ProcessRefund, RefundSettles
    <3>3. item' \in [Item -> [status : ItemStatus, returned : 0..Quantity]]
      <4>1. Refunded(i) \in [Item -> [status : ItemStatus, returned : 0..Quantity]]
        BY <2>0, Statuses DEF ReturnsTypeOK, Refunded
      <4> QED BY <1>10, <4>1 DEF ReturnsTypeOK, ProcessRefund, RefundSettles
    <3>4. request' \in [Request -> [status : RequestStatus, item : Item \cup {None},
                          units : 0..Quantity, repair : BOOLEAN, amount : 0..Price,
                          refund : {"NONE", "PENDING", "PROCESSING", "COMPLETED", "FAILED"}]]
      BY <1>10 DEF ReturnsTypeOK, ProcessRefund, RefundSettles
    <3>5. events' = events
      BY <1>10 DEF ProcessRefund, RefundSettles
    <3> QED BY <3>2, <3>3, <3>4, <3>5 DEF ReturnsTypeOK, Captured
  <2>3. \A s \in Request : s # r => request'[s] = request[s]
    BY <1>10 DEF ProcessRefund, RefundSettles, ReturnsTypeOK
  <2>4. /\ request'[r].item = i /\ request'[r].status = request[r].status
        /\ request'[r].amount = request[r].amount
    BY <1>10 DEF ProcessRefund, RefundSettles, ReturnsTypeOK
  <2>5. RequestOK(r)'
    BY <2>0, <2>1, <2>4 DEF RequestOK, MovesOn
  <2>6. \A s \in Request : RequestOK(s)'
    BY <2>1, <2>3, <2>5, MovesOnKeeps
  <2>7. RefundedOnce'
    BY <2>0, <2>3, <2>4, NoNewRefund
  <2> QED BY <2>2, <2>6, <2>7
<1> QED
  BY <1>1, <1>2, <1>3, <1>4, <1>5, <1>6, <1>7, <1>8, <1>9, <1>10 DEF ReturnsNext

\* Posting entries disturbs no settlement.
LEMMA PostingKeeps ==
  ASSUME FinanceInv, NEW S, ledger' = WithPosted(S),
         pin' = pin, settlement' = settlement, adjustment' \in [Adjustment -> AdjustmentRow]
  PROVE  FinanceInv'
<1> USE DEF FinanceInv
<1>1. FinanceTypeOK'
  BY DEF FinanceTypeOK, WithPosted, Posted, AdjustmentRow
<1>2. \A e \in Entry : Posted(e) => Posted(e)' /\ ledger'[e] = ledger[e]
  BY DEF WithPosted, Posted, FinanceTypeOK
<1>3. \A e \in Entry : pin'[e] # None =>
         Posted(e)' /\ e \in Selects[pin'[e]] /\ settlement'[pin'[e]].status # "NONE"
  BY <1>2
<1>4. SettledByItsPin'
  BY <1>2 DEF SettledByItsPin, WithPosted, Posted, FinanceTypeOK
<1>5. PendingAddsUp'
  BY DEF PendingAddsUp, Pinned
<1> QED BY <1>1, <1>3, <1>4, <1>5

LEMMA FinanceStep ==
  ASSUME FinanceInv, FinanceNext
  PROVE  FinanceInv'
<1> USE DEF FinanceInv
<1>1. ASSUME NEW a \in Adjustment, NEW u \in Person, RequestAdjustment(a, u)
      PROVE  FinanceInv'
  <2>1. FinanceTypeOK'
    BY <1>1 DEF FinanceTypeOK, RequestAdjustment
  <2>2. UNCHANGED <<ledger, pin, settlement>>
    BY <1>1 DEF RequestAdjustment
  <2> QED BY <2>1, <2>2 DEF SettledByItsPin, PendingAddsUp, Pinned, Posted
<1>2. ASSUME NEW a \in Adjustment, NEW u \in Person, NEW approved \in BOOLEAN,
             DecideAdjustment(a, u, approved)
      PROVE  FinanceInv'
  <2>1. adjustment' \in [Adjustment -> AdjustmentRow]
    BY <1>2 DEF FinanceTypeOK, DecideAdjustment, AdjustmentRow
  <2>2. ledger' = WithPosted({a}) \/ ledger' = WithPosted({})
    <3>1. WithPosted({}) = ledger
      BY DEF WithPosted, FinanceTypeOK
    <3> QED BY <1>2, <3>1 DEF DecideAdjustment
  <2>3. pin' = pin /\ settlement' = settlement
    BY <1>2 DEF DecideAdjustment
  <2> QED BY <2>1, <2>2, <2>3, PostingKeeps
<1>3. ASSUME NEW p \in Period, Generate(p)
      PROVE  FinanceInv'
  <2> DEFINE S == Settleable(p)
  <2>0. p # None /\ Selects[p] \subseteq Entry /\ S \subseteq Entry
    BY AftersaleAssumption DEF Settleable
  <2>1. FinanceTypeOK'
    BY <1>3, <2>0 DEF FinanceTypeOK, Generate
  <2>2. \A e \in Entry : pin[e] # None => pin'[e] = pin[e]
    BY <1>3 DEF Generate, FinanceTypeOK
  <2>3. \A e \in Entry : pin'[e] # pin[e] => pin'[e] = p /\ e \in S
    BY <1>3 DEF Generate, FinanceTypeOK
  <2>4. \A q \in Period : /\ settlement[q].status # "NONE" =>
                               settlement'[q].status = settlement[q].status
                          /\ q # p => settlement'[q] = settlement[q]
    BY <1>3 DEF Generate, FinanceTypeOK
  <2>5. settlement'[p].status # "NONE" /\ settlement'[p].net = Total(S)
    BY <1>3 DEF Generate, FinanceTypeOK
  <2>6. UNCHANGED ledger
    BY <1>3 DEF Generate
  <2>7. \A e \in Entry : pin'[e] # None =>
           Posted(e)' /\ e \in Selects[pin'[e]] /\ settlement'[pin'[e]].status # "NONE"
    <3>1. ASSUME NEW e \in Entry, pin'[e] # pin[e]
          PROVE  Posted(e)' /\ e \in Selects[pin'[e]] /\ settlement'[pin'[e]].status # "NONE"
      BY <2>3, <2>5, <2>6, <3>1 DEF Posted, Settleable
    <3>2. ASSUME NEW e \in Entry, pin'[e] = pin[e], pin[e] # None
          PROVE  Posted(e)' /\ e \in Selects[pin'[e]] /\ settlement'[pin'[e]].status # "NONE"
      <4>1. pin[e] \in Period
        BY <3>2 DEF FinanceTypeOK
      <4> QED BY <2>4, <2>6, <3>2, <4>1 DEF Posted
    <3> QED BY <3>1, <3>2
  <2>8. SettledByItsPin'
    <3>1. \A e \in Entry : pin[e] # None => pin[e] \in Period
      BY DEF FinanceTypeOK
    <3> QED BY <2>2, <2>4, <2>6, <3>1 DEF SettledByItsPin
  <2>9. PendingAddsUp'
    <3>1. SUFFICES ASSUME Disjoint, NEW q \in Period, settlement'[q].status = "PENDING_APPROVAL"
                   PROVE  settlement'[q].net = Total(Pinned(q))'
      BY DEF PendingAddsUp
    <3>2. CASE q # p
      <4>1. Pinned(q)' = Pinned(q)
        BY <2>2, <2>3, <3>2, AftersaleAssumption DEF Pinned
      <4>2. settlement'[q] = settlement[q]
        BY <2>4, <3>2
      <4> QED BY <3>1, <4>1, <4>2 DEF PendingAddsUp
    <3>3. CASE q = p
      <4>1. settlement[p].status \in {"NONE", "PENDING_APPROVAL"}
        BY <2>4, <3>1, <3>3 DEF FinanceTypeOK
      <4>2. ASSUME NEW e \in S PROVE pin'[e] = p
        <5>1. e \in Entry /\ e \in Selects[p]
          BY <2>0 DEF Settleable
        <5>2. pin[e] # None => pin[e] = p
          BY <3>1, <5>1 DEF Disjoint, FinanceTypeOK
        <5> QED BY <1>3, <5>1, <5>2 DEF Generate
      <4>3. ASSUME NEW e \in Entry, pin'[e] = p PROVE e \in S
        <5>1. CASE pin'[e] # pin[e]
          BY <2>3, <5>1
        <5>2. CASE pin'[e] = pin[e]
          <6>1. Posted(e) /\ e \in Selects[p]
            BY <2>0, <4>3, <5>2
          <6>2. ledger[e].status # "SETTLED"
            BY <4>1, <4>3, <5>2 DEF SettledByItsPin
          <6> QED BY <6>1, <6>2 DEF Settleable, Posted, FinanceTypeOK
        <5> QED BY <5>1, <5>2
      <4>4. Pinned(p)' = S
        BY <2>0, <4>2, <4>3 DEF Pinned
      <4> QED BY <2>5, <3>3, <4>4
    <3> QED BY <3>2, <3>3
  <2> QED BY <2>1, <2>7, <2>8, <2>9
<1>4. ASSUME NEW p \in Period, Approve(p)
      PROVE  FinanceInv'
  <2>1. FinanceTypeOK'
    BY <1>4 DEF FinanceTypeOK, Approve
  <2>2. pin' = pin
    BY <1>4 DEF Approve
  <2>3. \A q \in Period : q # p => settlement'[q] = settlement[q]
    BY <1>4 DEF Approve, FinanceTypeOK
  <2>4. settlement[p].status = "PENDING_APPROVAL" /\ settlement'[p].status = "APPROVED"
    BY <1>4 DEF Approve, FinanceTypeOK
  <2>5. \A e \in Entry : ledger'[e] = IF e \in Pinned(p) THEN [status |-> "SETTLED", by |-> p]
                                      ELSE ledger[e]
    BY <1>4 DEF Approve
  <2>6. \A e \in Entry : pin'[e] # None =>
           Posted(e)' /\ e \in Selects[pin'[e]] /\ settlement'[pin'[e]].status # "NONE"
    <3>1. \A e \in Entry : pin[e] # None => pin[e] \in Period
      BY DEF FinanceTypeOK
    <3> QED BY <2>2, <2>3, <2>4, <2>5, <3>1 DEF Posted, Pinned
  <2>7. SettledByItsPin'
    <3>1. p # None
      BY AftersaleAssumption
    <3>2. \A e \in Entry : pin[e] # None => pin[e] \in Period
      BY DEF FinanceTypeOK
    <3> QED BY <2>2, <2>3, <2>4, <2>5, <3>1, <3>2 DEF SettledByItsPin, Pinned
  <2>8. PendingAddsUp'
    BY <2>2, <2>3, <2>4 DEF PendingAddsUp, Pinned
  <2> QED BY <2>1, <2>6, <2>7, <2>8
<1> QED
  BY <1>1, <1>2, <1>3, <1>4 DEF FinanceNext

-----------------------------------------------------------------------------
ConsumerTypeOK == reading \in [Worker -> Item \cup {None}] /\ faults \in 0..MaxFaults

\* An adjustment or a reversal is no earning, and an earning no reversal.
LEMMA EntriesApart ==
  ASSUME NEW i \in Item
  PROVE  /\ Earnings(i) \subseteq Entry /\ Reversals(i) \subseteq Entry
         /\ \A e \in Earnings(i) : e \notin Adjustment
         /\ \A e \in Earnings(i), j \in Item : e \notin Reversals(j)
         /\ \A j \in Item, e \in Earnings(i) : e \in Earnings(j) => j = i
         /\ \A e \in Reversible(i) : ReversalOf(e) \in Reversals(i)
<1>1. Earnings(i) \subseteq Entry /\ Reversals(i) \subseteq Entry
  BY DEF Entry
<1>2. \A e \in Earnings(i) : e \notin Adjustment
  BY AftersaleAssumption
<1>3. \A e \in Earnings(i), j \in Item : e \notin Reversals(j)
  BY DEF Earnings, Reversals
<1>4. \A j \in Item, e \in Earnings(i) : e \in Earnings(j) => j = i
  BY DEF Earnings
<1>5. \A e \in Reversible(i) : ReversalOf(e) \in Reversals(i)
  BY DEF Reversible, ReversalOf, Earnings, Reversals
<1> QED BY <1>1, <1>2, <1>3, <1>4, <1>5

AInv == ReturnsInv /\ FinanceInv /\ ConsumerTypeOK /\ ReturnedIsReversed

LEMMA AInit == Init => AInv
<1> SUFFICES ASSUME Init PROVE AInv
  OBVIOUS
<1>1. ReturnsInv
  BY ReturnsAssumption, Statuses, FS_CardinalityType
  DEF Init, ReturnsInit, ReturnsInv, ReturnsTypeOK, RequestOK, RefundedOnce, NoRequest,
      RequestStatus, Written, Open, Captured
<1>2. FinanceTypeOK
  BY DEF Init, FinanceInit, FinanceTypeOK
<1>3. SettledByItsPin /\ PendingAddsUp
  BY DEF Init, FinanceInit, SettledByItsPin, PendingAddsUp
<1>4. \A e \in Entry : pin[e] = None
  BY DEF Init, FinanceInit
<1>5. FinanceInv
  BY <1>2, <1>3, <1>4 DEF FinanceInv
<1>6. ConsumerTypeOK
  BY AftersaleAssumption DEF Init, ConsumerTypeOK
<1>7. ReturnedIsReversed
  BY DEF Init, ReturnsInit, ReturnedIsReversed, NoRequest
<1> QED BY <1>1, <1>5, <1>6, <1>7 DEF AInv

CameBack(r, i) ==
  /\ request[r].item = i
  /\ request[r].status \in {"QC_PASSED", "REFUND_INITIATED"}
  /\ Received(r) \notin events
NothingKept(i) ==
  /\ \A w \in Worker : reading[w] # i
  /\ \A e \in Reversible(i) : Posted(ReversalOf(e))

\* The property follows request by request and item by item.
LEMMA KeptApart ==
  ASSUME ReturnedIsReversed,
         OneWorker => \A r \in Request, i \in Item :
           CameBack(r, i)' => NothingKept(i)' \/ CameBack(r, i),
         OneWorker => \A i \in Item : NothingKept(i) => NothingKept(i)'
  PROVE  ReturnedIsReversed'
<1>1. SUFFICES ASSUME OneWorker, NEW r \in Request, NEW i \in Item, CameBack(r, i)'
               PROVE  NothingKept(i)'
  BY DEF ReturnedIsReversed, CameBack, NothingKept
<1>2. CameBack(r, i) => NothingKept(i)
  BY <1>1 DEF ReturnedIsReversed, CameBack, NothingKept
<1> QED BY <1>1, <1>2

\* What is taken back stays so while the readers read nothing new and no earning is posted.
LEMMA KeptStays ==
  ASSUME NEW i \in Item, NothingKept(i),
         \A w \in Worker : reading'[w] = i => reading[w] = i,
         \A e \in Entry : Posted(e) => Posted(e)',
         \A e \in Earnings(i) : Posted(e)' => Posted(e)
  PROVE  NothingKept(i)'
<1>1. Reversible(i)' \subseteq Reversible(i)
  BY EntriesApart DEF Reversible
<1>2. \A e \in Reversible(i) : ReversalOf(e) \in Entry
  BY EntriesApart
<1>3. \A e \in Reversible(i)' : Posted(ReversalOf(e))'
  BY <1>1, <1>2 DEF NothingKept, ReversalOf
<1> QED BY <1>3 DEF NothingKept

\* A step of the returns: a request that passes has just sent its event, and the others that
\* passed keep theirs.
LEMMA ReturnsReversed ==
  ASSUME AInv, ReturnsNext, UNCHANGED <<reading, faults, books>>
  PROVE  ReturnedIsReversed'
<1>1. \A i \in Item : NothingKept(i) => NothingKept(i)'
  BY KeptStays DEF books, Posted
<1>2. ASSUME NEW s \in Request, events \subseteq events',
             \A t \in Request : t # s => request'[t] = request[t],
             request'[s].status \in {"QC_PASSED", "REFUND_INITIATED"} => Received(s) \in events'
      PROVE  \A r \in Request, i \in Item : CameBack(r, i)' => CameBack(r, i)
  BY <1>2 DEF CameBack, Received
<1>3. ASSUME NEW s \in Request, NEW o \in {"COMPLETED", "FAILED", "PROCESSING"},
             ProcessRefund(s, o) \/ RefundSettles(s, o)
      PROVE  \A r \in Request, i \in Item : CameBack(r, i)' => CameBack(r, i)
  BY <1>3 DEF ProcessRefund, RefundSettles, CameBack, Received, AInv, ReturnsInv, ReturnsTypeOK
<1>4. ASSUME NEW i \in Item, NEW to \in ItemStatus, Deliver(i) \/ SellerMove(i, to)
      PROVE  \A r \in Request, j \in Item : CameBack(r, j)' => CameBack(r, j)
  BY <1>4 DEF Deliver, SellerMove, CameBack, Received
<1>5. ASSUME NEW s \in Request,
             \/ \E i \in Item, units \in 1..Quantity, repair \in BOOLEAN : Ask(s, i, units, repair)
             \/ MakeRequest(s) \/ DropRequest(s) \/ Receive(s)
             \/ \E approved \in BOOLEAN : Decide(s, approved)
             \/ \E actor \in {"SELLER", "WAREHOUSE"} : Fail(s, actor)
             \/ \E actor \in {"SELLER", "WAREHOUSE"}, d \in Deduction : Pass(s, actor, d)
      PROVE  \A r \in Request, i \in Item : CameBack(r, i)' => CameBack(r, i)
  <2>1. events \subseteq events'
    BY <1>5 DEF Ask, MakeRequest, DropRequest, Receive, Decide, Fail, Pass
  <2>2. \A t \in Request : t # s => request'[t] = request[t]
    BY <1>5 DEF Ask, MakeRequest, DropRequest, Receive, Decide, Fail, Pass,
                AInv, ReturnsInv, ReturnsTypeOK
  <2>3. request'[s].status \in {"QC_PASSED", "REFUND_INITIATED"} => Received(s) \in events'
    <3>1. CASE \E actor \in {"SELLER", "WAREHOUSE"}, d \in Deduction : Pass(s, actor, d)
      BY <3>1 DEF Pass
    <3>2. CASE \/ \E i \in Item, units \in 1..Quantity, repair \in BOOLEAN : Ask(s, i, units, repair)
               \/ DropRequest(s)
      <4>1. request'[s].status \in {"ASKING", "NONE"}
        <5>1. ASSUME NEW i \in Item, NEW units, NEW repair, Ask(s, i, units, repair)
              PROVE  request'[s].status = "ASKING"
          <6>1. request'[s] = [NoRequest EXCEPT !.status = "ASKING", !.item = i,
                                                !.units = units, !.repair = repair]
            BY <5>1 DEF Ask, AInv, ReturnsInv, ReturnsTypeOK
          <6> QED BY <6>1 DEF NoRequest
        <5>2. ASSUME DropRequest(s) PROVE request'[s].status = "NONE"
          BY <5>2 DEF DropRequest, NoRequest, AInv, ReturnsInv, ReturnsTypeOK
        <5> QED BY <3>2, <5>1, <5>2
      <4> QED BY <4>1
    <3>3. CASE MakeRequest(s) \/ Receive(s)
      <4>1. request'[s].status \in {"AUTO_APPROVED", "REQUESTED", "RECEIVED"}
        <5>1. ASSUME MakeRequest(s) PROVE request'[s].status \in {"AUTO_APPROVED", "REQUESTED"}
          BY <5>1 DEF MakeRequest, AInv, ReturnsInv, ReturnsTypeOK
        <5>2. ASSUME Receive(s) PROVE request'[s].status = "RECEIVED"
          BY <5>2 DEF Receive, AInv, ReturnsInv, ReturnsTypeOK
        <5> QED BY <3>3, <5>1, <5>2
      <4> QED BY <4>1
    <3>4. CASE \E approved \in BOOLEAN : Decide(s, approved)
      <4>1. request'[s].status \in {"APPROVED", "REJECTED"}
        BY <3>4 DEF Decide, AInv, ReturnsInv, ReturnsTypeOK
      <4> QED BY <4>1
    <3>5. CASE \E actor \in {"SELLER", "WAREHOUSE"} : Fail(s, actor)
      <4>1. request'[s].status = "QC_FAILED"
        BY <3>5 DEF Fail, AInv, ReturnsInv, ReturnsTypeOK
      <4> QED BY <4>1
    <3> QED BY <1>5, <3>1, <3>2, <3>3, <3>4, <3>5
  <2> HIDE <1>5
  <2> QED BY <1>2, <2>1, <2>2, <2>3
<1>6. \A r \in Request, i \in Item : CameBack(r, i)' => CameBack(r, i)
  <2>1. CASE \E i \in Item : Deliver(i) \/ \E to \in ItemStatus : SellerMove(i, to)
    BY <1>4, <2>1, Statuses
  <2>2. CASE \E s \in Request, o \in {"COMPLETED", "FAILED", "PROCESSING"} :
               ProcessRefund(s, o) \/ RefundSettles(s, o)
    BY <1>3, <2>2
  <2>3. CASE /\ ~\E i \in Item : Deliver(i) \/ \E to \in ItemStatus : SellerMove(i, to)
             /\ ~\E s \in Request, o \in {"COMPLETED", "FAILED", "PROCESSING"} :
                  ProcessRefund(s, o) \/ RefundSettles(s, o)
    <3>1. PICK s \in Request :
             \/ \E i \in Item, units \in 1..Quantity, repair \in BOOLEAN : Ask(s, i, units, repair)
             \/ MakeRequest(s) \/ DropRequest(s) \/ Receive(s)
             \/ \E approved \in BOOLEAN : Decide(s, approved)
             \/ \E actor \in {"SELLER", "WAREHOUSE"} : Fail(s, actor)
             \/ \E actor \in {"SELLER", "WAREHOUSE"}, d \in Deduction : Pass(s, actor, d)
      BY <2>3 DEF ReturnsNext
    <3> QED BY <1>5, <3>1
  <2> QED BY <2>1, <2>2, <2>3
<1> QED BY <1>1, <1>6, KeptApart DEF AInv

\* A step of the books posts no earning and takes nothing back.
LEMMA BooksReversed ==
  ASSUME AInv, FinanceNext, UNCHANGED <<returnVars, consumerVars>>
  PROVE  ReturnedIsReversed'
<1>1. \A e \in Entry : Posted(e) => Posted(e)'
  <2>1. ASSUME NEW a \in Adjustment, NEW u \in Person, NEW approved \in BOOLEAN,
               DecideAdjustment(a, u, approved)
        PROVE  \A e \in Entry : Posted(e) => Posted(e)'
    BY <2>1 DEF DecideAdjustment, WithPosted, Posted
  <2>2. ASSUME NEW p \in Period, Approve(p)
        PROVE  \A e \in Entry : Posted(e) => Posted(e)'
    BY <2>2 DEF Approve, Posted
  <2> QED BY <2>1, <2>2 DEF FinanceNext, RequestAdjustment, Generate, Posted
<1>2. \A i \in Item : \A e \in Earnings(i) : Posted(e)' => Posted(e)
  <2>1. ASSUME NEW a \in Adjustment, NEW u \in Person, NEW approved \in BOOLEAN,
               DecideAdjustment(a, u, approved)
        PROVE  \A i \in Item : \A e \in Earnings(i) : Posted(e)' => Posted(e)
    BY <2>1, EntriesApart DEF DecideAdjustment, WithPosted, Posted
  <2>2. ASSUME NEW p \in Period, Approve(p)
        PROVE  \A i \in Item : \A e \in Earnings(i) : Posted(e)' => Posted(e)
    BY <2>2, EntriesApart DEF Approve, Posted, Pinned, AInv, FinanceInv
  <2> QED BY <2>1, <2>2 DEF FinanceNext, RequestAdjustment, Generate, Posted
<1>3. \A i \in Item : NothingKept(i) => NothingKept(i)'
  BY <1>1, <1>2, KeptStays DEF consumerVars
<1>4. \A r \in Request, i \in Item : CameBack(r, i)' => CameBack(r, i)
  BY DEF CameBack, returnVars, Received
<1> QED BY <1>3, <1>4, KeptApart DEF AInv

-----------------------------------------------------------------------------
\* A worker touches no request and no item, and only consumes events.
LEMMA ConsumerKeepsReturns ==
  ASSUME ReturnsInv, UNCHANGED <<item, request, intent>>, events' \subseteq events
  PROVE  ReturnsInv'
BY DEF ReturnsInv, ReturnsTypeOK, RequestOK, RefundedOnce

LEMMA ConsumerStep ==
  ASSUME AInv, NEW w \in Worker, Consume(w) \/ ConsumeFails(w)
  PROVE  AInv'
<1>1. UNCHANGED <<item, request, intent, pin, settlement, adjustment>> /\ events' \subseteq events
  BY DEF Consume, ConsumeFails, ReadItem, PostEarnings, ReverseEarnings, books
<1>2. ReturnsInv'
  BY <1>1, ConsumerKeepsReturns DEF AInv
<1>3. ConsumerTypeOK'
  <2>1. \/ reading' = reading
        \/ \E i \in Item \cup {None} : reading' = [reading EXCEPT ![w] = i]
    BY DEF Consume, ConsumeFails, ReadItem, PostEarnings, ReverseEarnings
  <2>2. faults' = faults \/ (faults > 0 /\ faults' = faults - 1)
    BY DEF Consume, ConsumeFails, ReadItem, PostEarnings, ReverseEarnings
  <2> QED BY <2>1, <2>2, AftersaleAssumption DEF AInv, ConsumerTypeOK
<1>4. ASSUME NEW i \in Item, ReadItem(w, i)
      PROVE  FinanceInv' /\ ReturnedIsReversed'
  <2>1. UNCHANGED books
    BY <1>4 DEF ReadItem
  <2>2. FinanceInv'
    BY <2>1 DEF books, AInv, FinanceInv, FinanceTypeOK, SettledByItsPin, PendingAddsUp, Posted, Pinned
  <2>3. CASE item[i].status = "DELIVERED"
    <3>1. UNCHANGED events /\ reading' = [reading EXCEPT ![w] = i]
      BY <1>4, <2>3 DEF ReadItem
    <3>2. \A r \in Request, j \in Item : CameBack(r, j)' => CameBack(r, j)
      BY <1>1, <3>1 DEF CameBack
    <3>3. \A r \in Request : ~CameBack(r, i)
      BY <2>3 DEF AInv, ReturnsInv, RequestOK, CameBack, Written, Open, Ahead
    <3>4. \A j \in Item \ {i} : NothingKept(j) => NothingKept(j)'
      BY <2>1, <3>1, KeptStays DEF books, Posted, AInv, ConsumerTypeOK
    <3>5. \A r \in Request, j \in Item : CameBack(r, j) => NothingKept(j) \/ ~OneWorker
      BY DEF AInv, ReturnedIsReversed, CameBack, NothingKept
    <3>6. SUFFICES ASSUME OneWorker, NEW r \in Request, NEW j \in Item, CameBack(r, j)'
                   PROVE  NothingKept(j)'
      BY <2>2 DEF ReturnedIsReversed, CameBack, NothingKept
    <3> QED BY <3>2, <3>3, <3>4, <3>5, <3>6
  <2>4. CASE item[i].status # "DELIVERED"
    <3>1. UNCHANGED reading /\ events' = events \ {Delivered(i)}
      BY <1>4, <2>4 DEF ReadItem
    <3>2. \A r \in Request, j \in Item : CameBack(r, j)' => CameBack(r, j)
      BY <1>1, <3>1 DEF CameBack, Delivered, Received
    <3>3. \A j \in Item : NothingKept(j) => NothingKept(j)'
      BY <2>1, <3>1, KeptStays DEF books, Posted
    <3> QED BY <2>2, <3>2, <3>3, KeptApart DEF AInv
  <2> QED BY <2>3, <2>4
<1>5. ASSUME PostEarnings(w)
      PROVE  FinanceInv' /\ ReturnedIsReversed'
  <2> DEFINE i == reading[w]
  <2>1. i \in Item /\ ledger' = WithPosted(Earnings(i))
    BY <1>5 DEF PostEarnings, AInv, ConsumerTypeOK
  <2>2. FinanceInv'
    BY <1>1, <2>1, PostingKeeps DEF AInv, FinanceInv, FinanceTypeOK, AdjustmentRow
  <2>3. \A e \in Entry : Posted(e) => Posted(e)'
    BY <2>1 DEF WithPosted, Posted
  <2>4. \A j \in Item \ {i} : \A e \in Earnings(j) : Posted(e)' => Posted(e)
    BY <2>1, EntriesApart DEF WithPosted, Posted
  <2>5. events' = events \ {Delivered(i)} /\ reading' = [reading EXCEPT ![w] = None]
    BY <1>5 DEF PostEarnings
  <2>6. \A r \in Request, j \in Item : CameBack(r, j)' => CameBack(r, j)
    BY <1>1, <2>5 DEF CameBack, Delivered, Received
  <2>7. ~NothingKept(i)
    BY DEF NothingKept
  <2>8. \A v \in Worker : reading'[v] \in {reading[v], None}
    BY <2>5 DEF AInv, ConsumerTypeOK
  <2>9. \A j \in Item \ {i} : NothingKept(j) => NothingKept(j)'
    BY <2>3, <2>4, <2>8, KeptStays, ReturnsAssumption
  <2>10. \A j \in Item : NothingKept(j) => NothingKept(j)'
    BY <2>7, <2>9
  <2> QED BY <2>2, <2>6, <2>10, KeptApart DEF AInv
<1>6. ASSUME NEW r \in Request, ReverseEarnings(w, r)
      PROVE  FinanceInv' /\ ReturnedIsReversed'
  <2> DEFINE R == {ReversalOf(e) : e \in Reversible(request[r].item)}
  <2>1. ledger' = WithPosted(R) /\ events' = events \ {Received(r)} /\ UNCHANGED reading
    BY <1>6 DEF ReverseEarnings
  <2>2. FinanceInv'
    BY <1>1, <2>1, PostingKeeps DEF AInv, FinanceInv, FinanceTypeOK, AdjustmentRow
  <2>3. \A e \in Entry : Posted(e) => Posted(e)'
    BY <2>1 DEF WithPosted, Posted
  <2>4. \A j \in Item : \A e \in Earnings(j) : e \notin R
    BY DEF Earnings, ReversalOf
  <2>5. \A j \in Item : \A e \in Earnings(j) : Posted(e)' => Posted(e)
    BY <2>1, <2>4, EntriesApart DEF WithPosted, Posted
  <2>6. \A j \in Item : NothingKept(j) => NothingKept(j)'
    BY <2>1, <2>3, <2>5, KeptStays
  <2>7. ASSUME OneWorker, NEW s \in Request, NEW j \in Item, CameBack(s, j)'
        PROVE  NothingKept(j)' \/ CameBack(s, j)
    <3>1. CASE s = r
      <4>1. j = request[r].item
        BY <1>1, <2>7, <3>1 DEF CameBack
      <4>2. \A v \in Worker : reading'[v] # j
        BY <1>6, <2>1, <2>7, ReturnsAssumption DEF ReverseEarnings, OneWorker
      <4>3. Reversible(j)' \subseteq Reversible(j)
        BY <2>5, EntriesApart DEF Reversible
      <4>4. \A e \in Reversible(j) : ReversalOf(e) \in Entry /\ ReversalOf(e) \in R
        BY <4>1, EntriesApart
      <4>5. \A e \in Entry : e \in R => Posted(e)'
        BY <2>1 DEF WithPosted, Posted
      <4>6. \A e \in Reversible(j)' : Posted(ReversalOf(e))'
        <5>1. ASSUME NEW e \in Reversible(j)' PROVE ReversalOf(e) \in R /\ ReversalOf(e) \in Entry
          BY <4>3, <4>4
        <5> HIDE DEF R
        <5> QED BY <4>5, <5>1 DEF Posted, ReversalOf
      <4> QED BY <4>2, <4>6 DEF NothingKept
    <3>2. CASE s # r
      BY <1>1, <2>1, <2>7, <3>2 DEF CameBack, Received
    <3> QED BY <3>1, <3>2
  <2> QED BY <2>2, <2>6, <2>7, KeptApart DEF AInv
<1>7. ASSUME ConsumeFails(w)
      PROVE  FinanceInv' /\ ReturnedIsReversed'
  <2>1. UNCHANGED <<books, events>> /\ reading' = [reading EXCEPT ![w] = None]
    BY <1>7 DEF ConsumeFails
  <2>2. FinanceInv'
    BY <2>1 DEF books, AInv, FinanceInv, FinanceTypeOK, SettledByItsPin, PendingAddsUp, Posted, Pinned
  <2>3. \A j \in Item : NothingKept(j) => NothingKept(j)'
    BY <2>1, KeptStays, ReturnsAssumption DEF books, Posted, AInv, ConsumerTypeOK
  <2>4. \A r \in Request, j \in Item : CameBack(r, j)' => CameBack(r, j)
    BY <1>1, <2>1 DEF CameBack
  <2> QED BY <2>2, <2>3, <2>4, KeptApart DEF AInv
<1> QED BY <1>2, <1>3, <1>4, <1>5, <1>6, <1>7 DEF Consume, AInv

LEMMA AStep ==
  ASSUME AInv, [Next]_vars
  PROVE  AInv'
<1>1. CASE ReturnsNext /\ UNCHANGED <<consumerVars, books>>
  <2>1. ReturnsInv'
    BY <1>1, ReturnsStep DEF AInv
  <2>2. FinanceInv' /\ ConsumerTypeOK'
    BY <1>1 DEF books, consumerVars, AInv, FinanceInv, FinanceTypeOK, SettledByItsPin,
                PendingAddsUp, Posted, Pinned, ConsumerTypeOK
  <2>3. ReturnedIsReversed'
    BY <1>1, ReturnsReversed DEF consumerVars
  <2> QED BY <2>1, <2>2, <2>3 DEF AInv
<1>2. CASE FinanceNext /\ UNCHANGED <<returnVars, consumerVars>>
  <2>1. ReturnsInv' /\ ConsumerTypeOK'
    BY <1>2, ConsumerKeepsReturns DEF returnVars, consumerVars, AInv, ConsumerTypeOK
  <2>2. FinanceInv'
    BY <1>2, FinanceStep DEF AInv
  <2> QED BY <1>2, <2>1, <2>2, BooksReversed DEF AInv
<1>3. ASSUME NEW w \in Worker, Consume(w) \/ ConsumeFails(w) PROVE AInv'
  BY <1>3, ConsumerStep
<1>4. CASE UNCHANGED vars
  <2>1. ReturnsInv' /\ ConsumerTypeOK'
    BY <1>4, ConsumerKeepsReturns DEF vars, returnVars, consumerVars, AInv, ConsumerTypeOK
  <2>2. FinanceInv'
    BY <1>4 DEF vars, books, AInv, FinanceInv, FinanceTypeOK, SettledByItsPin, PendingAddsUp,
                Posted, Pinned
  <2>3. ReturnedIsReversed'
    BY <1>4 DEF vars, books, returnVars, consumerVars, AInv, ReturnedIsReversed, Reversible, Posted
  <2> QED BY <2>1, <2>2, <2>3 DEF AInv
<1> QED BY <1>1, <1>2, <1>3, <1>4 DEF Next

THEOREM AftersaleInvariant == Spec => []AInv
BY AInit, AStep, PTL DEF Spec

\* Requests, refunds, ledger and settlements hold nothing their tables would refuse.
THEOREM AftersaleTypeCorrect == Spec => []TypeOK
<1>1. AInv => TypeOK
  BY DEF AInv, ReturnsInv, FinanceInv, ConsumerTypeOK, TypeOK
<1> QED BY <1>1, AftersaleInvariant, PTL

\* An item is refunded by one return at most, and for no more than its price.
THEOREM AftersaleRefundedOnce == Spec => []RefundedOnce
<1>1. AInv => RefundedOnce
  BY DEF AInv, ReturnsInv
<1> QED BY <1>1, AftersaleInvariant, PTL

\* With one worker, the seller keeps no reversible earning of an item that came back.
THEOREM AftersaleReversed == Spec => []ReturnedIsReversed
<1>1. AInv => ReturnedIsReversed
  BY DEF AInv
<1> QED BY <1>1, AftersaleInvariant, PTL

\* A settlement that waits for approval pays what is pinned to it, if periods share no entry.
THEOREM SettlementAddsUp == Spec => []PendingAddsUp
<1>1. AInv => PendingAddsUp
  BY DEF AInv, FinanceInv
<1> QED BY <1>1, AftersaleInvariant, PTL

\* What was paid for names the settlement that pinned it.
THEOREM SettlementPins == Spec => []SettledByItsPin
<1>1. AInv => SettledByItsPin
  BY DEF AInv, FinanceInv
<1> QED BY <1>1, AftersaleInvariant, PTL
=============================================================================
