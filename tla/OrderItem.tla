----------------------------- MODULE OrderItem -----------------------------
(***************************************************************************)
(* The life of an order item: which status may follow which, by whose      *)
(* hand, and whether a reason must be given.  The table is kept twice, in  *)
(* packages/domain/src/order-state-machine.ts and in                       *)
(* commerce.order_status_transitions, row for row the same; the trigger    *)
(* guard_order_item_transition holds every writer to it.                   *)
(***************************************************************************)
EXTENDS Naturals

\* The order of the statuses, before and after delivery (ORDER_STATUS_RANK).
Rank ==
  [s \in {"CREATED", "PENDING_PAYMENT", "PAYMENT_FAILED", "PAYMENT_CONFIRMED", "CONFIRMED",
          "CANCELLATION_REQUESTED", "CANCELLED", "ALLOCATED", "PROCESSING", "PACKED",
          "READY_TO_SHIP", "SHIPPED", "OUT_FOR_DELIVERY", "DELIVERED", "RTO_INITIATED",
          "RTO_DELIVERED", "LOST_IN_TRANSIT", "RETURN_REQUESTED", "RETURN_APPROVED",
          "RETURN_REJECTED", "RETURN_PICKED", "RETURN_RECEIVED", "RETURN_QC_COMPLETED",
          "REPLACEMENT_CREATED", "REFUND_PENDING", "REFUND_FAILED", "REFUNDED"} |->
    CASE s = "CREATED" -> 10           [] s = "PENDING_PAYMENT" -> 20
      [] s = "PAYMENT_FAILED" -> 25    [] s = "PAYMENT_CONFIRMED" -> 30
      [] s = "CONFIRMED" -> 40         [] s = "CANCELLATION_REQUESTED" -> 45
      [] s = "CANCELLED" -> 46         [] s = "ALLOCATED" -> 50
      [] s = "PROCESSING" -> 60        [] s = "PACKED" -> 70
      [] s = "READY_TO_SHIP" -> 75     [] s = "SHIPPED" -> 80
      [] s = "OUT_FOR_DELIVERY" -> 90  [] s = "DELIVERED" -> 100
      [] s = "RTO_INITIATED" -> 105    [] s = "RTO_DELIVERED" -> 106
      [] s = "LOST_IN_TRANSIT" -> 107  [] s = "RETURN_REQUESTED" -> 110
      [] s = "RETURN_APPROVED" -> 120  [] s = "RETURN_REJECTED" -> 121
      [] s = "RETURN_PICKED" -> 130    [] s = "RETURN_RECEIVED" -> 140
      [] s = "RETURN_QC_COMPLETED" -> 150 [] s = "REPLACEMENT_CREATED" -> 155
      [] s = "REFUND_PENDING" -> 160   [] s = "REFUND_FAILED" -> 165
      [] s = "REFUNDED" -> 170]

ItemStatus == DOMAIN Rank

\* <<from, to, who>> for the statuses of an item (TRANSITIONS with appliesTo ITEM or BOTH).
Transitions ==
  { <<"CREATED", "PENDING_PAYMENT", {"SYSTEM"}>>,
    <<"CREATED", "CONFIRMED", {"SYSTEM"}>>,
    <<"CREATED", "CANCELLED", {"CUSTOMER", "SUPPORT", "SYSTEM"}>>,
    <<"PENDING_PAYMENT", "PAYMENT_CONFIRMED", {"SYSTEM"}>>,
    <<"PENDING_PAYMENT", "PAYMENT_FAILED", {"SYSTEM"}>>,
    <<"PENDING_PAYMENT", "CANCELLED", {"CUSTOMER", "SUPPORT", "SYSTEM"}>>,
    <<"PAYMENT_FAILED", "PENDING_PAYMENT", {"CUSTOMER", "SYSTEM"}>>,
    <<"PAYMENT_CONFIRMED", "CONFIRMED", {"SYSTEM"}>>,
    <<"CONFIRMED", "ALLOCATED", {"SYSTEM"}>>,
    <<"CONFIRMED", "CANCELLATION_REQUESTED", {"CUSTOMER", "SUPPORT"}>>,
    <<"CONFIRMED", "CANCELLED", {"SELLER", "SUPPORT", "SYSTEM"}>>,
    <<"ALLOCATED", "PROCESSING", {"SELLER", "WAREHOUSE", "SYSTEM"}>>,
    <<"ALLOCATED", "CANCELLATION_REQUESTED", {"CUSTOMER", "SUPPORT"}>>,
    <<"ALLOCATED", "CANCELLED", {"SELLER", "SUPPORT", "SYSTEM"}>>,
    <<"PROCESSING", "PACKED", {"SELLER", "WAREHOUSE"}>>,
    <<"PROCESSING", "CANCELLED", {"SELLER", "SUPPORT", "SYSTEM"}>>,
    <<"PACKED", "READY_TO_SHIP", {"SELLER", "WAREHOUSE", "SYSTEM"}>>,
    <<"PACKED", "CANCELLED", {"SUPPORT", "SYSTEM"}>>,
    <<"READY_TO_SHIP", "SHIPPED", {"SYSTEM", "WAREHOUSE"}>>,
    <<"READY_TO_SHIP", "CANCELLED", {"SUPPORT", "SYSTEM"}>>,
    <<"SHIPPED", "OUT_FOR_DELIVERY", {"SYSTEM"}>>,
    <<"SHIPPED", "RTO_INITIATED", {"SYSTEM"}>>,
    <<"SHIPPED", "LOST_IN_TRANSIT", {"SUPPORT", "SYSTEM"}>>,
    <<"OUT_FOR_DELIVERY", "DELIVERED", {"SYSTEM"}>>,
    <<"OUT_FOR_DELIVERY", "RTO_INITIATED", {"SYSTEM"}>>,
    <<"OUT_FOR_DELIVERY", "LOST_IN_TRANSIT", {"SUPPORT", "SYSTEM"}>>,
    <<"RTO_INITIATED", "RTO_DELIVERED", {"SYSTEM", "WAREHOUSE"}>>,
    <<"CANCELLATION_REQUESTED", "CANCELLED", {"SELLER", "SUPPORT", "SYSTEM"}>>,
    <<"CANCELLATION_REQUESTED", "PROCESSING", {"SELLER", "SUPPORT"}>>,
    <<"DELIVERED", "RETURN_REQUESTED", {"CUSTOMER", "SUPPORT"}>>,
    <<"RETURN_REQUESTED", "RETURN_APPROVED", {"SELLER", "SUPPORT", "SYSTEM"}>>,
    <<"RETURN_REQUESTED", "RETURN_REJECTED", {"SELLER", "SUPPORT"}>>,
    <<"RETURN_APPROVED", "RETURN_PICKED", {"SYSTEM"}>>,
    <<"RETURN_PICKED", "RETURN_RECEIVED", {"WAREHOUSE", "SELLER", "SYSTEM"}>>,
    <<"RETURN_RECEIVED", "RETURN_QC_COMPLETED", {"WAREHOUSE", "SELLER"}>>,
    <<"RETURN_QC_COMPLETED", "REFUND_PENDING", {"SYSTEM"}>>,
    <<"RETURN_QC_COMPLETED", "REPLACEMENT_CREATED", {"SYSTEM"}>>,
    <<"RETURN_QC_COMPLETED", "RETURN_REJECTED", {"WAREHOUSE", "SUPPORT"}>>,
    <<"CANCELLED", "REFUND_PENDING", {"SYSTEM"}>>,
    <<"RTO_DELIVERED", "REFUND_PENDING", {"SYSTEM"}>>,
    <<"LOST_IN_TRANSIT", "REFUND_PENDING", {"SYSTEM"}>>,
    <<"REFUND_PENDING", "REFUNDED", {"SYSTEM"}>>,
    <<"REFUND_PENDING", "REFUND_FAILED", {"SYSTEM"}>>,
    <<"REFUND_FAILED", "REFUND_PENDING", {"SUPPORT", "SYSTEM"}>> }

\* Where the table asks for a reason (requiresReason).
NeedsReason(from, to) ==
  \/ to \in {"CANCELLED", "CANCELLATION_REQUESTED", "PAYMENT_FAILED", "RTO_INITIATED",
             "LOST_IN_TRANSIT", "RETURN_REQUESTED", "RETURN_REJECTED", "REFUND_FAILED"}
  \/ from = "CANCELLATION_REQUESTED"

\* canTransition, and guard_order_item_transition: writing the status that is there is free.
Allowed(from, to, actor, reason) ==
  \/ from = to
  \/ /\ \E t \in Transitions : t[1] = from /\ t[2] = to /\ actor \in t[3]
     /\ NeedsReason(from, to) => reason
=============================================================================
