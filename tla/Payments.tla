------------------------------ MODULE Payments ------------------------------
(***************************************************************************)
(* Payment of one prepaid order (payments.service.ts, schema payments):    *)
(* provider session, webhooks, client verification, refunds, and the       *)
(* customer's cancellation, which shares the order with them.              *)
(*                                                                         *)
(* A webhook claims its event by a unique insert, asks the provider what   *)
(* became of the payment, reads intent and order, and applies what it      *)
(* learned in one transaction; the client's verification does the same in  *)
(* another order and under an event id of its own.  Between any two of     *)
(* these steps other requests act and the process may die.                 *)
(*                                                                         *)
(* Every item costs one unit of money, so the order costs as many as it    *)
(* has items.  Signatures, instruments, fees and messages are left out;    *)
(* the outbox rows of an outcome commit with it and are not modelled.      *)
(***************************************************************************)
EXTENDS FiniteSets, Integers

CONSTANTS
  Item,       \* order items
  Payment,    \* payments the customer tries at the provider
  Charge,     \* amounts the provider may report for a payment
  Handler,    \* concurrent API requests
  MaxFaults,  \* bound: requests that die or cannot reach the provider
  None

ASSUME PaymentsAssumption ==
  /\ IsFiniteSet(Item) /\ Item # {} /\ IsFiniteSet(Payment)
  /\ Charge \subseteq Nat \ {0} /\ MaxFaults \in Nat
  /\ None \notin Payment

Amount == Cardinality(Item)   \* payment_intents.amount_paise

VARIABLES
  pay,      \* the provider's payments: status and amount
  credit,   \* the provider's refund
  order,    \* orders: status, amount_paid_paise, amount_refunded_paise
  item,     \* order_items.status
  held,     \* items whose reservation is CONFIRMED for the order
  intent,   \* payment_intents: status, captured, refunded, provider order known
  txn,      \* payment_attempts and payment_transactions: outcome recorded for a payment
  claimed,  \* ids that have a row in payment_webhook_events
  refund,   \* refunds: status, amount, whether refund_attempts has a row
  handler,  \* requests under way
  faults    \* faults left

providerVars == <<pay, credit>>
orderVars == <<order, item, held>>
vars == <<pay, credit, order, item, held, intent, txn, claimed, refund, handler, faults>>

-----------------------------------------------------------------------------
OrderStatus == {"PENDING_PAYMENT", "PAYMENT_FAILED", "CONFIRMED", "CANCELLATION_REQUESTED",
                "CANCELLED"}
Dead == {"PAYMENT_FAILED", "CANCELLED"}

\* A failure is DECLINED when the provider's error code is one the service retries.
PayStatus == {"none", "AUTHORISED", "CAPTURED", "FAILED", "DECLINED"}
CreditStatus == {"none", "PENDING", "SUCCESS", "FAILED"}

\* Event ids are "<type>:<entity>"; the client's verification makes up its own.  Events of
\* other types take the path of these under other ids.
WebhookEvent == {"payment.captured", "payment.failed"} \X Payment
VerifyEvent == {"client-verify"} \X Payment
RefundEvent == {"refund.processed", "refund.failed"} \X {None}
Event == WebhookEvent \cup VerifyEvent \cup RefundEvent

\* What a request knows: the payment it is about, the status the provider told it, and
\* whether the order waited for payment when it was read.
Idle == [pc |-> "idle", pay |-> None, seen |-> "none", due |-> FALSE]

Goto(h, pc) == handler' = [handler EXCEPT ![h].pc = pc]
Respond(h) == handler' = [handler EXCEPT ![h] = Idle]

-----------------------------------------------------------------------------
(* The customer and the provider *)

\* The payment sheet stays open whatever becomes of the order.
Pay(p, a) ==
  /\ intent.session
  /\ pay[p].status = "none"
  /\ pay' = [pay EXCEPT ![p] = [status |-> "AUTHORISED", amount |-> a]]
  /\ UNCHANGED <<credit, orderVars, intent, txn, claimed, refund, handler, faults>>

PayEnds(p, outcome) ==
  /\ pay[p].status = "AUTHORISED"
  /\ pay' = [pay EXCEPT ![p].status = outcome]
  /\ UNCHANGED <<credit, orderVars, intent, txn, claimed, refund, handler, faults>>

\* A refund the provider accepted is settled later.
CreditEnds(outcome) ==
  /\ credit = "PENDING"
  /\ credit' = outcome
  /\ UNCHANGED <<pay, orderVars, intent, txn, claimed, refund, handler, faults>>

\* What the provider has sent, and sends again until it is answered.
Emitted(e) ==
  CASE e[1] = "payment.captured" -> pay[e[2]].status = "CAPTURED"
    [] e[1] = "payment.failed"   -> pay[e[2]].status \in {"FAILED", "DECLINED"}
    [] e[1] = "refund.processed" -> credit = "SUCCESS"
    [] e[1] = "refund.failed"    -> credit = "FAILED"
    [] OTHER -> FALSE

\* getPayment: a payment that was refunded in full says so.
Fetched(p) ==
  IF credit = "SUCCESS" /\ refund.amount = Amount /\ txn[p] = "SUCCESS" THEN "REFUNDED"
  ELSE pay[p].status

-----------------------------------------------------------------------------
(* createSession *)

\* An intent that has a provider order is answered with it, so that case is left out.
BeginSession(h) ==
  /\ handler[h].pc = "idle"
  /\ intent.status # "CAPTURED"
  /\ ~intent.session
  /\ Goto(h, "opening")
  /\ UNCHANGED <<providerVars, orderVars, intent, txn, claimed, refund, faults>>

\* The provider order is the same for every call (its key is the intent); the row is
\* written by id.
FinishSession(h) ==
  /\ handler[h].pc = "opening"
  /\ intent' = [intent EXCEPT !.session = TRUE, !.status = "PENDING"]
  /\ Respond(h)
  /\ UNCHANGED <<providerVars, orderVars, txn, claimed, refund, faults>>

-----------------------------------------------------------------------------
(* handleWebhook and verifyFromClient, up to their transaction *)

\* The unique insert.  The row stays, whatever its processing_status becomes, and a delivery
\* that finds it changes nothing.
Deliver(h, e) ==
  /\ handler[h].pc = "idle"
  /\ Emitted(e)
  /\ e \notin claimed
  /\ claimed' = claimed \cup {e}
  /\ handler' = [handler EXCEPT ![h] = [Idle EXCEPT !.pay = e[2],
                   !.pc = IF e \in RefundEvent THEN "fetching refund" ELSE "fetching"]]
  /\ UNCHANGED <<providerVars, orderVars, intent, txn, refund, faults>>

Fetch(h) ==
  /\ handler[h].pc = "fetching"
  /\ handler' = [handler EXCEPT ![h].pc = "finding", ![h].seen = Fetched(handler[h].pay)]
  /\ UNCHANGED <<providerVars, orderVars, intent, txn, claimed, refund, faults>>

\* findIntentForPayment: always found, since the payment came from the order's session.
FindIntent(h) ==
  /\ handler[h].pc = "finding"
  /\ handler' = [handler EXCEPT ![h].pc = "applying",
                                ![h].due = (order.status = "PENDING_PAYMENT")]
  /\ UNCHANGED <<providerVars, orderVars, intent, txn, claimed, refund, faults>>

\* The client's verification loads the intent first, then asks the provider and refuses a
\* wrong amount, then claims its event.  A second verification of a payment changes nothing.
Verify(h, p) ==
  /\ handler[h].pc = "idle"
  /\ pay[p].status # "none"
  /\ <<"client-verify", p>> \notin claimed
  /\ handler' = [handler EXCEPT ![h] = [Idle EXCEPT !.pc = "verifying", !.pay = p,
                   !.due = (order.status = "PENDING_PAYMENT")]]
  /\ UNCHANGED <<providerVars, orderVars, intent, txn, claimed, refund, faults>>

VerifyFetch(h) ==
  LET p == handler[h].pay
  IN /\ handler[h].pc = "verifying"
     /\ IF pay[p].amount = Amount
        THEN handler' = [handler EXCEPT ![h].pc = "claiming", ![h].seen = Fetched(p)]
        ELSE Respond(h)
     /\ UNCHANGED <<providerVars, orderVars, intent, txn, claimed, refund, faults>>

VerifyClaim(h) ==
  LET e == <<"client-verify", handler[h].pay>>
  IN /\ handler[h].pc = "claiming"
     /\ claimed' = claimed \cup {e}
     /\ IF e \in claimed THEN Respond(h) ELSE Goto(h, "applying")
     /\ UNCHANGED <<providerVars, orderVars, intent, txn, refund, faults>>

-----------------------------------------------------------------------------
(* Their transaction *)

\* refresh_intent_totals: the totals are summed anew from the transactions, among which
\* there is never a refund.
CapturedBy(t) == Amount * Cardinality({p \in Payment : t[p] = "SUCCESS"})
Refreshed(t) ==
  [intent EXCEPT !.captured = CapturedBy(t), !.refunded = 0,
                 !.status = IF CapturedBy(t) >= Amount THEN "CAPTURED" ELSE @]

\* Mutant: the amount the provider reports is not compared.
MutSucceeds(h) == handler[h].seen = "CAPTURED"
Succeeds(h) == handler[h].seen = "CAPTURED" /\ pay[handler[h].pay].amount = Amount
Fails(h) == handler[h].seen \in {"FAILED", "DECLINED"}

\* Transactions that overlap number their attempt alike, and UNIQUE (payment_intent_id,
\* attempt_number) lets only the first commit.
Overlapping(h) ==
  {g \in Handler \ {h} : handler[g].pc = "applying" /\ (Succeeds(g) \/ Fails(g))}
Commit(h, lost) ==
  handler' = [g \in Handler |-> IF g \in lost \cup {h} THEN Idle ELSE handler[g]]

\* payment_attempts and payment_transactions have one row per payment, and
\* payment_intents_capture_within_amount bounds what is captured.
\* Mutant: the total is not bounded.
MutStorable(p, outcome) == txn[p] = "none"
Storable(p, outcome) ==
  /\ txn[p] = "none"
  /\ CapturedBy([txn EXCEPT ![p] = outcome]) <= Amount

\* Mutant: only the order status read before the transaction counts.
MutRecordSuccess(h, lost) ==
  LET p == handler[h].pay
      due == handler[h].due
  IN /\ handler[h].pc = "applying"
     /\ Succeeds(h)
     /\ Storable(p, "SUCCESS")
     /\ txn' = [txn EXCEPT ![p] = "SUCCESS"]
     /\ intent' = Refreshed(txn')
     /\ order' = IF due THEN [order EXCEPT !.status = "CONFIRMED", !.paid = Amount] ELSE order
     /\ item' = [i \in Item |->
          IF due /\ item[i] = "CREATED" THEN "CONFIRMED" ELSE item[i]]
     /\ Commit(h, lost)
     /\ UNCHANGED <<providerVars, held, claimed, refund, faults>>

\* recordSuccess.  The order row is guarded by its status, its items only by what the order
\* was when it was read.
RecordSuccess(h, lost) ==
  LET p == handler[h].pay
      due == handler[h].due
  IN /\ handler[h].pc = "applying"
     /\ Succeeds(h)
     /\ Storable(p, "SUCCESS")
     /\ txn' = [txn EXCEPT ![p] = "SUCCESS"]
     /\ intent' = Refreshed(txn')
     /\ order' = IF due /\ order.status = "PENDING_PAYMENT"
                 THEN [order EXCEPT !.status = "CONFIRMED", !.paid = Amount] ELSE order
     /\ item' = [i \in Item |->
          IF due /\ item[i] = "CREATED" THEN "CONFIRMED" ELSE item[i]]
     /\ Commit(h, lost)
     /\ UNCHANGED <<providerVars, held, claimed, refund, faults>>

\* Mutant: the holds are left to the sweeper, which takes no CONFIRMED one.
MutRecordFailure(h, lost) ==
  LET p == handler[h].pay
      final == handler[h].seen = "FAILED"
      refreshed == Refreshed([txn EXCEPT ![p] = "FAILED"])
  IN /\ handler[h].pc = "applying"
     /\ Fails(h)
     /\ Storable(p, "FAILED")
     /\ txn' = [txn EXCEPT ![p] = "FAILED"]
     /\ intent' = IF refreshed.status = "CAPTURED" THEN refreshed
                  ELSE [refreshed EXCEPT !.status = "FAILED"]
     /\ order' = IF final /\ order.status = "PENDING_PAYMENT"
                 THEN [order EXCEPT !.status = "PAYMENT_FAILED"] ELSE order
     /\ Commit(h, lost)
     /\ UNCHANGED <<providerVars, item, held, claimed, refund, faults>>

\* recordFailure.  A failure that is not worth a retry ends an order that waits for payment,
\* and gives the order's stock back whatever the order has become.
RecordFailure(h, lost) ==
  LET p == handler[h].pay
      final == handler[h].seen = "FAILED"
      refreshed == Refreshed([txn EXCEPT ![p] = "FAILED"])
  IN /\ handler[h].pc = "applying"
     /\ Fails(h)
     /\ Storable(p, "FAILED")
     /\ txn' = [txn EXCEPT ![p] = "FAILED"]
     /\ intent' = IF refreshed.status = "CAPTURED" THEN refreshed
                  ELSE [refreshed EXCEPT !.status = "FAILED"]
     /\ order' = IF final /\ order.status = "PENDING_PAYMENT"
                 THEN [order EXCEPT !.status = "PAYMENT_FAILED"] ELSE order
     /\ held' = IF final THEN {} ELSE held
     /\ Commit(h, lost)
     /\ UNCHANGED <<providerVars, item, claimed, refund, faults>>

\* Nothing to record yet or any more, or a wrong amount.
RecordNothing(h) ==
  /\ handler[h].pc = "applying"
  /\ ~Succeeds(h) /\ ~Fails(h)
  /\ Respond(h)
  /\ UNCHANGED <<providerVars, orderVars, intent, txn, claimed, refund, faults>>

\* A constraint rejects the transaction.
ApplyFails(h) ==
  /\ handler[h].pc = "applying"
  /\ \/ Succeeds(h) /\ ~Storable(handler[h].pay, "SUCCESS")
     \/ Fails(h) /\ ~Storable(handler[h].pay, "FAILED")
  /\ Respond(h)
  /\ UNCHANGED <<providerVars, orderVars, intent, txn, claimed, refund, faults>>

-----------------------------------------------------------------------------
(* Cancellation *)

\* The refund cancel asks for: the items' share of what was paid and not yet refunded.
Owed(cancelled) ==
  LET left == order.paid - order.refunded
  IN IF Cardinality(cancelled) < left THEN Cardinality(cancelled) ELSE left

\* Mutant: a partial cancellation refunds the whole order.
MutCancel(S) ==
  LET cancelled == {i \in S : item[i] # "CANCELLED"}
      all == \A i \in Item \ cancelled : item[i] = "CANCELLED"
  IN /\ order.status \in {"PENDING_PAYMENT", "CONFIRMED"}
     /\ cancelled # {}
     /\ item' = [i \in Item |-> IF i \in cancelled THEN "CANCELLED" ELSE item[i]]
     /\ held' = held \ S
     /\ order' = [order EXCEPT !.status =
          IF all THEN "CANCELLED"
          ELSE IF @ = "CONFIRMED" THEN "CANCELLATION_REQUESTED" ELSE @]
     /\ refund' = IF order.paid > order.refunded /\ intent.status = "CAPTURED"
                  THEN [status |-> "PENDING", amount |-> order.paid - order.refunded,
                        attempted |-> FALSE]
                  ELSE refund
     /\ UNCHANGED <<providerVars, intent, txn, claimed, handler, faults>>

\* cancel, of the whole order or of some of its items.  An order that was paid and is
\* cancelled in part waits in CANCELLATION_REQUESTED; the refund is a row an administrator
\* has processed later.
Cancel(S) ==
  LET cancelled == {i \in S : item[i] # "CANCELLED"}
      all == \A i \in Item \ cancelled : item[i] = "CANCELLED"
  IN /\ order.status \in {"PENDING_PAYMENT", "CONFIRMED"}
     /\ cancelled # {}
     /\ item' = [i \in Item |-> IF i \in cancelled THEN "CANCELLED" ELSE item[i]]
     /\ held' = held \ S
     /\ order' = [order EXCEPT !.status =
          IF all THEN "CANCELLED"
          ELSE IF @ = "CONFIRMED" THEN "CANCELLATION_REQUESTED" ELSE @]
     /\ refund' = IF Owed(cancelled) > 0 /\ intent.status = "CAPTURED"
                  THEN [status |-> "PENDING", amount |-> Owed(cancelled), attempted |-> FALSE]
                  ELSE refund
     /\ UNCHANGED <<providerVars, intent, txn, claimed, handler, faults>>

-----------------------------------------------------------------------------
(* Refunds *)

\* processRefund reads the refund; its row lock ends with the statement.  A refund that has
\* an attempt is refused by the provider index in the end, so that case is left out.
BeginRefund(h) ==
  /\ handler[h].pc = "idle"
  /\ refund.status \notin {"none", "COMPLETED"}
  /\ ~refund.attempted
  /\ \E p \in Payment : txn[p] = "SUCCESS"
  /\ Goto(h, "refunding")
  /\ UNCHANGED <<providerVars, orderVars, intent, txn, claimed, refund, faults>>

\* The provider answers a repeated idempotency key with the refund it has.
CallRefund(h, outcome) ==
  /\ handler[h].pc = "refunding"
  /\ credit' = IF credit = "none" THEN outcome ELSE credit
  /\ handler' = [handler EXCEPT ![h].pc = "settling", ![h].seen = credit']
  /\ UNCHANGED <<pay, orderVars, intent, txn, claimed, refund, faults>>

\* The CHECKs payment_intents_refund_within_capture and orders_refund_within_paid.
Refundable ==
  /\ intent.refunded + refund.amount <= intent.captured
  /\ order.refunded + refund.amount <= order.paid

SettleRefund(h) ==
  LET done == handler[h].seen = "SUCCESS"
  IN /\ handler[h].pc = "settling"
     /\ ~refund.attempted
     /\ done => Refundable
     /\ refund' = [refund EXCEPT !.attempted = TRUE,
          !.status = IF done THEN "COMPLETED"
                     ELSE IF handler[h].seen = "FAILED" THEN "FAILED" ELSE "PROCESSING"]
     /\ IF done
        THEN /\ intent' = [intent EXCEPT !.refunded = @ + refund.amount, !.status =
                  IF intent.refunded + refund.amount >= intent.captured THEN "REFUNDED"
                  ELSE "PARTIALLY_REFUNDED"]
             /\ order' = [order EXCEPT !.refunded = @ + refund.amount]
        ELSE UNCHANGED <<intent, order>>
     /\ Respond(h)
     /\ UNCHANGED <<providerVars, item, held, txn, claimed, faults>>

SettleFails(h) ==
  /\ handler[h].pc = "settling"
  /\ \/ refund.attempted
     \/ handler[h].seen = "SUCCESS" /\ ~Refundable
  /\ Respond(h)
  /\ UNCHANGED <<providerVars, orderVars, intent, txn, claimed, refund, faults>>

\* applyRefundOutcome asks the provider, then looks for the attempt and ignores a refund
\* that has none.
FetchRefund(h) ==
  /\ handler[h].pc = "fetching refund"
  /\ handler' = [handler EXCEPT ![h].pc = "finding refund", ![h].seen = credit]
  /\ UNCHANGED <<providerVars, orderVars, intent, txn, claimed, refund, faults>>

FindAttempt(h) ==
  /\ handler[h].pc = "finding refund"
  /\ IF refund.attempted THEN Goto(h, "crediting") ELSE Respond(h)
  /\ UNCHANGED <<providerVars, orderVars, intent, txn, claimed, refund, faults>>

\* Its transaction, which adds to the totals whatever the refund's status was.
ApplyRefundOutcome(h) ==
  LET done == handler[h].seen = "SUCCESS"
  IN /\ handler[h].pc = "crediting"
     /\ done => Refundable
     /\ refund' = [refund EXCEPT !.status = IF done THEN "COMPLETED" ELSE handler[h].seen]
     /\ intent' = IF done THEN [intent EXCEPT !.refunded = @ + refund.amount] ELSE intent
     /\ order' = IF done THEN [order EXCEPT !.refunded = @ + refund.amount] ELSE order
     /\ Respond(h)
     /\ UNCHANGED <<providerVars, item, held, txn, claimed, faults>>

RefundOutcomeFails(h) ==
  /\ handler[h].pc = "crediting"
  /\ handler[h].seen = "SUCCESS" /\ ~Refundable
  /\ Respond(h)
  /\ UNCHANGED <<providerVars, orderVars, intent, txn, claimed, refund, faults>>

-----------------------------------------------------------------------------
(* Failures *)

\* The process dies, or a call of the provider or the database throws.  A webhook that throws
\* marks its event FAILED, which nothing reads.
Die(h) ==
  /\ handler[h].pc # "idle"
  /\ faults > 0
  /\ faults' = faults - 1
  /\ Respond(h)
  /\ UNCHANGED <<providerVars, orderVars, intent, txn, claimed, refund>>

-----------------------------------------------------------------------------
\* placeOrder leaves an order that waits for payment, with its stock confirmed.
Init ==
  /\ pay = [p \in Payment |-> [status |-> "none", amount |-> 0]]
  /\ credit = "none"
  /\ order = [status |-> "PENDING_PAYMENT", paid |-> 0, refunded |-> 0]
  /\ item = [i \in Item |-> "CREATED"]
  /\ held = Item
  /\ intent = [status |-> "CREATED", captured |-> 0, refunded |-> 0, session |-> FALSE]
  /\ txn = [p \in Payment |-> "none"]
  /\ claimed = {}
  /\ refund = [status |-> "none", amount |-> 0, attempted |-> FALSE]
  /\ handler = [h \in Handler |-> Idle]
  /\ faults = MaxFaults

World ==
  \/ \E p \in Payment, a \in Charge : Pay(p, a)
  \/ \E p \in Payment, o \in {"CAPTURED", "FAILED", "DECLINED"} : PayEnds(p, o)
  \/ \E o \in {"SUCCESS", "FAILED"} : CreditEnds(o)
  \/ \E S \in SUBSET Item : Cancel(S)

Begin(h) ==
  \/ BeginSession(h) \/ BeginRefund(h)
  \/ \E e \in Event : Deliver(h, e)
  \/ \E p \in Payment : Verify(h, p)

Continue(h) ==
  \/ FinishSession(h)
  \/ Fetch(h) \/ FindIntent(h) \/ VerifyFetch(h) \/ VerifyClaim(h)
  \/ \E lost \in SUBSET Overlapping(h) : RecordSuccess(h, lost) \/ RecordFailure(h, lost)
  \/ RecordNothing(h) \/ ApplyFails(h)
  \/ \E o \in {"PENDING", "SUCCESS", "FAILED"} : CallRefund(h, o)
  \/ SettleRefund(h) \/ SettleFails(h)
  \/ FetchRefund(h) \/ FindAttempt(h) \/ ApplyRefundOutcome(h) \/ RefundOutcomeFails(h)

Next ==
  \/ World
  \/ \E h \in Handler : Begin(h) \/ Continue(h) \/ Die(h)

Spec == Init /\ [][Next]_vars

\* A request that began goes on, and the provider repeats a webhook until it is taken.
Fairness ==
  /\ \A h \in Handler : WF_vars(Continue(h))
  /\ \A e \in Event : SF_vars(\E h \in Handler : Deliver(h, e))

FairSpec == Spec /\ Fairness

-----------------------------------------------------------------------------
(* Properties *)

HandlerRecord ==
  [pc : {"idle", "opening", "fetching", "finding", "verifying", "claiming", "applying",
         "refunding", "settling", "fetching refund", "finding refund", "crediting"},
   pay : Payment \cup {None}, seen : PayStatus \cup {"REFUNDED"} \cup CreditStatus,
   due : BOOLEAN]

TypeOK ==
  /\ pay \in [Payment -> [status : PayStatus, amount : Nat]]
  /\ credit \in CreditStatus
  /\ order \in [status : OrderStatus, paid : 0..Amount, refunded : 0..Amount]
  /\ item \in [Item -> {"CREATED", "CONFIRMED", "CANCELLED"}]
  /\ held \subseteq Item
  /\ intent \in [status : {"CREATED", "PENDING", "CAPTURED", "FAILED", "PARTIALLY_REFUNDED",
                           "REFUNDED"},
                 captured : Nat, refunded : 0..Amount, session : BOOLEAN]
  /\ txn \in [Payment -> {"none", "SUCCESS", "FAILED"}]
  /\ claimed \subseteq Event
  /\ refund \in [status : {"none", "PENDING", "PROCESSING", "COMPLETED", "FAILED"},
                 amount : 0..Amount, attempted : BOOLEAN]
  /\ handler \in [Handler -> HandlerRecord]
  /\ faults \in Nat

\* "Order is confirmed only on server-verified provider state": whoever reported it, in
\* whatever order, money counts as paid only when the provider has captured the whole price
\* in a payment that is on record.
PaidIsCaptured ==
  order.paid > 0 \/ order.status \in {"CONFIRMED", "CANCELLATION_REQUESTED"} =>
    /\ order.paid = Amount /\ intent.captured = Amount
    /\ \E p \in Payment : txn[p] = "SUCCESS" /\ pay[p] = [status |-> "CAPTURED", amount |-> Amount]

\* The customer pays once: however webhooks and verifications of several payments meet, at
\* most one capture is recorded, and the intent's total is that one.
CapturedOnce ==
  /\ \A p, q \in Payment : txn[p] = "SUCCESS" /\ txn[q] = "SUCCESS" => p = q
  /\ intent.captured = CapturedBy(txn)

\* A late or repeated outcome never revives an order that ended, nor takes a confirmation
\* back, nor changes what was paid.
OrderMovesOn ==
  [][/\ order.status \in Dead => order'.status = order.status
     /\ order.status = "CONFIRMED" =>
          order'.status \in {"CONFIRMED", "CANCELLATION_REQUESTED", "CANCELLED"}
     /\ order.paid > 0 => order'.paid = order.paid]_vars

\* The provider is asked to give back money only for items that were cancelled, and never
\* more than their price.
RefundIsOwed ==
  /\ refund.amount <= Cardinality({i \in Item : item[i] = "CANCELLED"})
  /\ refund.amount <= order.paid
  /\ credit # "none" => refund.amount > 0

\* An order that ended, and an item that was cancelled, keep no stock.
DeadKeepsNoStock ==
  /\ order.status \in Dead => held = {}
  /\ \A i \in held : item[i] # "CANCELLED"

-----------------------------------------------------------------------------
(* What comments and documents claim and the code does not keep.  None of them
   holds; the README describes how each of them fails. *)

\* "Record the failure and let the provider retry": a captured payment ends the order's wait
\* even when the request that was told of it fails, since the provider tells it again.
CaptureSettles ==
  \A p \in Payment :
    pay[p] = [status |-> "CAPTURED", amount |-> Amount] ~> order.status # "PENDING_PAYMENT"

\* An order that is paid keeps its stock, whichever payment's outcome arrives last.
PaidKeepsStock ==
  order.status = "CONFIRMED" => \A i \in Item : item[i] # "CANCELLED" => i \in held

\* Only a paid order has confirmed items.
ItemsFollowOrder == (\E i \in Item : item[i] = "CONFIRMED") => order.paid > 0

\* A paid order that is cancelled has a refund.
CancelledIsRefunded == order.status = "CANCELLED" /\ order.paid > 0 => refund.status # "none"

\* Totals count a refund once, and only what the provider gave back.
RefundCountedOnce ==
  /\ order.refunded = intent.refunded
  /\ order.refunded = IF refund.status = "COMPLETED" THEN refund.amount ELSE 0
=============================================================================
