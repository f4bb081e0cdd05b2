------------------------------ MODULE Returns ------------------------------
(***************************************************************************)
(* Returns of a delivered, prepaid order (returns.service.ts): asked for,  *)
(* decided, received, inspected, refunded, while the seller moves the same *)
(* items behind the request's back (seller.service.ts).                    *)
(*                                                                         *)
(* Eligibility is read before the transaction that writes the request, so  *)
(* several requests may be open for one item; what keeps them apart is the *)
(* transition table of the items.  A request whose key is already written  *)
(* changes nothing and is left out, as are evidence, addresses and the     *)
(* return window.                                                          *)
(***************************************************************************)
EXTENDS OrderItem, FiniteSets

CONSTANTS
  Item,       \* items of the order
  Quantity,   \* units of each
  Price,      \* total_payable_paise of each
  Request,    \* return requests that may be made (bound)
  Deduction,  \* what an inspection may deduct
  None

ASSUME ReturnsAssumption ==
  /\ IsFiniteSet(Item)
  /\ Quantity \in Nat \ {0} /\ Price \in Nat \ {0}
  /\ Deduction \subseteq Nat
  /\ None \notin Item

VARIABLES
  item,     \* commerce.order_items: status and returned_quantity
  request,  \* returns.return_requests with its item, units and refund, requests being made included
  intent,   \* payment_intents: status and refunded_paise
  events    \* the outbox rows that finance consumes and has not yet

returnVars == <<item, request, intent, events>>

NoRequest == [status |-> "NONE", item |-> None, units |-> 0, repair |-> FALSE,
              amount |-> 0, refund |-> "NONE"]
Open == {"REQUESTED", "AUTO_APPROVED", "APPROVED", "RECEIVED", "QC_PASSED", "QC_FAILED",
         "REFUND_INITIATED"}
RequestStatus == Open \cup {"NONE", "ASKING", "REJECTED"}

Delivered(i) == <<"ORDER_DELIVERED", i>>
Received(r) == <<"RETURN_RECEIVED", r>>

Captured == Price * Cardinality(Item)
Share(units) == (Price * units) \div Quantity

-----------------------------------------------------------------------------
\* A report or a proof of delivery; a further proof announces the delivery again.
Deliver(i) ==
  /\ item[i].status \in {"OUT_FOR_DELIVERY", "DELIVERED"}
  /\ item' = [item EXCEPT ![i].status = "DELIVERED"]
  /\ events' = events \cup {Delivered(i)}
  /\ UNCHANGED <<request, intent>>

\* updateOrderItemStatus, after delivery.
SellerMove(i, to) ==
  /\ to # item[i].status
  /\ Allowed(item[i].status, to, "SELLER", TRUE)
  /\ item' = [item EXCEPT ![i].status = to]
  /\ UNCHANGED <<request, intent, events>>

\* check_eligibility.
Eligible(i) ==
  /\ item[i].status = "DELIVERED"
  /\ item[i].returned < Quantity
  /\ ~\E r \in Request : request[r].item = i /\ request[r].status \in Open

\* create, before its transaction.
Ask(r, i, units, repair) ==
  /\ request[r] = NoRequest
  /\ Eligible(i)
  /\ request' = [request EXCEPT ![r] =
       [NoRequest EXCEPT !.status = "ASKING", !.item = i, !.units = units, !.repair = repair]]
  /\ UNCHANGED <<item, intent, events>>

\* create: everything but a repair is approved at once, request and item.
MakeRequest(r) ==
  LET i == request[r].item
      auto == ~request[r].repair IN
  /\ request[r].status = "ASKING"
  /\ Allowed(item[i].status, "RETURN_REQUESTED", "CUSTOMER", TRUE)
  /\ request' = [request EXCEPT ![r].status = IF auto THEN "AUTO_APPROVED" ELSE "REQUESTED",
                                ![r].amount = Share(request[r].units)]
  /\ item' = [item EXCEPT ![i].status = IF auto THEN "RETURN_APPROVED" ELSE "RETURN_REQUESTED"]
  /\ UNCHANGED <<intent, events>>

\* The item table refuses the transaction, or the process dies.
DropRequest(r) ==
  /\ request[r].status = "ASKING"
  /\ request' = [request EXCEPT ![r] = NoRequest]
  /\ UNCHANGED <<item, intent, events>>

\* decide, by the seller or by support, whom the table treats alike here.
Decide(r, approved) ==
  LET i == request[r].item IN
  /\ request[r].status \in {"REQUESTED", "AUTO_APPROVED"}
  /\ request' = [request EXCEPT ![r].status = IF approved THEN "APPROVED" ELSE "REJECTED"]
  /\ item' = IF item[i].status # "RETURN_REQUESTED" THEN item
             ELSE [item EXCEPT ![i].status =
                     IF approved THEN "RETURN_APPROVED" ELSE "RETURN_REJECTED"]
  /\ UNCHANGED <<intent, events>>

\* receive: the carrier's two steps at once, of an item that is at the first or the second.
Receive(r) ==
  LET i == request[r].item IN
  /\ request[r].status = "APPROVED"
  /\ request' = [request EXCEPT ![r].status = "RECEIVED"]
  /\ item' = IF item[i].status \in {"RETURN_APPROVED", "RETURN_PICKED"}
             THEN [item EXCEPT ![i].status = "RETURN_RECEIVED"] ELSE item
  /\ UNCHANGED <<intent, events>>

\* Mutant: the inspected item is refunded whatever it was before.
MutMayComplete(i, actor) == item[i].status # "RETURN_REJECTED"
\* inspect completes the item's inspection, if the table lets it.
MayComplete(i, actor) == Allowed(item[i].status, "RETURN_QC_COMPLETED", actor, TRUE)

\* inspect, passed: the units are counted and, where the payment is CAPTURED, a refund is
\* queued under the request's own key.  The refund must be positive.
Pass(r, actor, deduction) ==
  LET i == request[r].item
      refunds == request[r].amount > 0 /\ intent.status = "CAPTURED" IN
  /\ request[r].status = "RECEIVED"
  /\ MayComplete(i, actor)
  /\ item[i].returned + request[r].units <= Quantity
  /\ refunds => deduction < request[r].amount
  /\ item' = [item EXCEPT ![i] =
       [status |-> IF refunds THEN "REFUND_PENDING" ELSE "RETURN_QC_COMPLETED",
        returned |-> @.returned + request[r].units]]
  /\ request' = IF refunds
                THEN [request EXCEPT ![r].status = "REFUND_INITIATED", ![r].refund = "PENDING",
                                     ![r].amount = @ - deduction]
                ELSE [request EXCEPT ![r].status = "QC_PASSED"]
  /\ events' = events \cup {Received(r)}
  /\ UNCHANGED intent

\* inspect, failed: only the warehouse may reject the item.  The event is the same.
Fail(r, actor) ==
  LET i == request[r].item
      rejects == item[i].status \in {"RETURN_RECEIVED", "RETURN_QC_COMPLETED"} IN
  /\ request[r].status = "RECEIVED"
  /\ rejects => actor = "WAREHOUSE"
  /\ request' = [request EXCEPT ![r].status = "QC_FAILED"]
  /\ item' = IF rejects THEN [item EXCEPT ![i].status = "RETURN_REJECTED"] ELSE item
  /\ events' = events \cup {Received(r)}
  /\ UNCHANGED intent

-----------------------------------------------------------------------------
Pending(i) == item[i].status = "REFUND_PENDING"
Refunded(i) == [item EXCEPT ![i].status = IF Pending(i) THEN "REFUNDED" ELSE @]

\* processRefund, of a refund that has no attempt yet; Payments has its steps.
ProcessRefund(r, outcome) ==
  LET total == intent.refunded + request[r].amount IN
  /\ request[r].refund = "PENDING"
  /\ outcome = "COMPLETED" => total <= Captured
  /\ request' = [request EXCEPT ![r].refund = outcome]
  /\ IF outcome = "COMPLETED"
     THEN /\ intent' = [status |-> IF total >= Captured THEN "REFUNDED" ELSE "PARTIALLY_REFUNDED",
                        refunded |-> total]
          /\ item' = Refunded(request[r].item)
     ELSE UNCHANGED <<intent, item>>
  /\ UNCHANGED events

\* The provider's webhook settles a refund it had accepted: neither the item nor the status
\* of the intent is touched.
RefundSettles(r, outcome) ==
  /\ request[r].refund = "PROCESSING"
  /\ outcome = "COMPLETED" => intent.refunded + request[r].amount <= Captured
  /\ request' = [request EXCEPT ![r].refund = outcome]
  /\ intent' = IF outcome = "COMPLETED"
               THEN [intent EXCEPT !.refunded = @ + request[r].amount] ELSE intent
  /\ UNCHANGED <<item, events>>

-----------------------------------------------------------------------------
ReturnsInit ==
  /\ item = [i \in Item |-> [status |-> "OUT_FOR_DELIVERY", returned |-> 0]]
  /\ request = [r \in Request |-> NoRequest]
  /\ intent = [status |-> "CAPTURED", refunded |-> 0]
  /\ events = {}

ReturnsNext ==
  \/ \E i \in Item : Deliver(i) \/ \E to \in ItemStatus : SellerMove(i, to)
  \/ \E r \in Request :
       \/ \E i \in Item, units \in 1..Quantity, repair \in BOOLEAN : Ask(r, i, units, repair)
       \/ MakeRequest(r)
       \/ DropRequest(r)
       \/ \E approved \in BOOLEAN : Decide(r, approved)
       \/ Receive(r)
       \/ \E actor \in {"SELLER", "WAREHOUSE"} :
            \/ \E deduction \in Deduction : Pass(r, actor, deduction)
            \/ Fail(r, actor)
       \/ \E outcome \in {"COMPLETED", "FAILED", "PROCESSING"} : ProcessRefund(r, outcome)
       \/ \E outcome \in {"COMPLETED", "FAILED"} : RefundSettles(r, outcome)

-----------------------------------------------------------------------------
ReturnsTypeOK ==
  /\ item \in [Item -> [status : ItemStatus, returned : 0..Quantity]]
  /\ request \in [Request -> [status : RequestStatus, item : Item \cup {None},
                              units : 0..Quantity, repair : BOOLEAN, amount : 0..Price,
                              refund : {"NONE", "PENDING", "PROCESSING", "COMPLETED", "FAILED"}]]
  /\ intent \in [status : {"CAPTURED", "PARTIALLY_REFUNDED", "REFUNDED"}, refunded : 0..Captured]
  /\ events \subseteq {Delivered(i) : i \in Item} \cup {Received(r) : r \in Request}

\* However many requests were eligible at once, an item's price is refunded at most once and
\* never more than was paid for it (create's check at line 59 is not what ensures it).
RefundedOnce ==
  \A r, s \in Request :
    (request[r].refund # "NONE" /\ request[s].refund # "NONE"
      /\ request[r].item = request[s].item) => (r = s /\ request[r].amount <= Price)

\* A return that passed its inspection is refunded (violated: once another item of the order
\* is refunded the intent is no longer CAPTURED, and inspect finds no payment to refund).
PassedIsRefunded == \A r \in Request : request[r].status # "QC_PASSED"
=============================================================================
