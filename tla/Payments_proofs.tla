--------------------------- MODULE Payments_proofs ---------------------------
(***************************************************************************)
(* Proofs about Payments: types, that a capture is recorded once and an    *)
(* order is paid only by it, that it never moves back, and what a          *)
(* cancellation and its refund take.                                       *)
(***************************************************************************)
EXTENDS Payments, FiniteSetTheorems, TLAPS

-----------------------------------------------------------------------------
(* The inductive invariant *)

AboutPayment == {"fetching", "finding", "verifying", "claiming", "applying"}

Refunding == {"refunding", "settling", "fetching refund", "finding refund", "crediting"}

\* What a request knows is still so: it is about a payment, a capture it was told of has
\* happened, and a refund it was told of has ended.
Knows(h) ==
  /\ handler[h].pc \in AboutPayment => handler[h].pay \in Payment
  /\ handler[h].seen = "CAPTURED" =>
       handler[h].pay \in Payment /\ pay[handler[h].pay].status = "CAPTURED"
  /\ handler[h].pc \in Refunding => refund.amount > 0
  /\ handler[h].pc = "settling" => handler[h].seen \in CreditStatus
  /\ handler[h].pc = "fetching refund" => credit \in {"SUCCESS", "FAILED"}
  /\ handler[h].pc \in {"finding refund", "crediting"} => handler[h].seen \in {"SUCCESS", "FAILED"}

\* The intent's total is that of the transactions, and they stay within its amount.
Totals ==
  /\ intent.captured = CapturedBy(txn)
  /\ CapturedBy(txn) <= Amount
  /\ order.refunded <= order.paid

\* A success on record was captured by the provider, for the whole price.
Recorded ==
  \A p \in Payment : txn[p] = "SUCCESS" => pay[p] = [status |-> "CAPTURED", amount |-> Amount]

\* An order that is paid has a success on record.
PaidOnRecord ==
  order.paid > 0 \/ order.status \in {"CONFIRMED", "CANCELLATION_REQUESTED"} =>
    order.paid = Amount /\ \E p \in Payment : txn[p] = "SUCCESS"

RefundAsked == refund.status # "none" => refund.amount > 0

\* What the rows say of each other.
Books ==
  /\ Totals
  /\ Recorded
  /\ PaidOnRecord
  /\ RefundAsked
  /\ RefundIsOwed
  /\ DeadKeepsNoStock

PInv ==
  /\ TypeOK
  /\ \A h \in Handler : Knows(h)
  /\ Books

-----------------------------------------------------------------------------
(* Counting *)

LEMMA AmountType == Amount \in Nat /\ Amount > 0
  BY PaymentsAssumption, FS_CardinalityType, FS_EmptySet DEF Amount

LEMMA ItemsType ==
  ASSUME NEW S \in SUBSET Item
  PROVE  IsFiniteSet(S) /\ Cardinality(S) \in Nat
  BY PaymentsAssumption, FS_Subset, FS_CardinalityType

LEMMA CapturedType ==
  ASSUME NEW t
  PROVE  /\ IsFiniteSet({p \in Payment : t[p] = "SUCCESS"})
         /\ Cardinality({p \in Payment : t[p] = "SUCCESS"}) \in Nat
         /\ CapturedBy(t) \in Nat
<1>1. {p \in Payment : t[p] = "SUCCESS"} \in SUBSET Payment OBVIOUS
<1>2. /\ IsFiniteSet({p \in Payment : t[p] = "SUCCESS"})
      /\ Cardinality({p \in Payment : t[p] = "SUCCESS"}) \in Nat
  BY <1>1, PaymentsAssumption, FS_Subset, FS_CardinalityType
<1> QED BY <1>2, AmountType DEF CapturedBy

LEMMA AtMostOne ==
  ASSUME NEW a \in Nat, a > 0, NEW c \in Nat, a * c <= a
  PROVE  c <= 1
<1>1. ASSUME c >= 2 PROVE FALSE
  <2>1. a * c = a + a * (c - 1) OBVIOUS
  <2>2. a * (c - 1) > 0 BY <1>1
  <2> QED BY <2>1, <2>2
<1> QED BY <1>1

\* Within the amount there is room for one success, which makes up the whole of it.
LEMMA OneSuccess ==
  ASSUME NEW t, CapturedBy(t) <= Amount
  PROVE  /\ \A p, q \in Payment : t[p] = "SUCCESS" /\ t[q] = "SUCCESS" => p = q
         /\ \A p \in Payment : t[p] = "SUCCESS" => CapturedBy(t) = Amount
<1> DEFINE S == {p \in Payment : t[p] = "SUCCESS"}
<1>1. IsFiniteSet(S) /\ Cardinality(S) \in Nat BY CapturedType
<1>2. CapturedBy(t) = Amount * Cardinality(S) BY DEF CapturedBy
<1>3. Cardinality(S) <= 1 BY <1>1, <1>2, AmountType, AtMostOne
<1>4. ASSUME NEW p \in Payment, t[p] = "SUCCESS"
      PROVE  Cardinality(S) = 1
  <2>1. p \in S BY <1>4
  <2>2. Cardinality(S) # 0 BY <1>1, <2>1, FS_EmptySet
  <2> QED BY <1>1, <1>3, <2>2
<1>5. ASSUME NEW p \in Payment, NEW q \in Payment, t[p] = "SUCCESS", t[q] = "SUCCESS"
      PROVE  p = q
  <2>1. p \in S /\ q \in S BY <1>5
  <2>2. PICK x : S = {x} BY <1>1, <1>4, <1>5, FS_Singleton
  <2> QED BY <2>1, <2>2
<1>6. ASSUME NEW p \in Payment, t[p] = "SUCCESS"
      PROVE  CapturedBy(t) = Amount
  <2>1. Cardinality(S) = 1 BY <1>4, <1>6
  <2> QED BY <1>2, <2>1, AmountType
<1> QED BY <1>5, <1>6

IntentRecord ==
  [status : {"CREATED", "PENDING", "CAPTURED", "FAILED", "PARTIALLY_REFUNDED", "REFUNDED"},
   captured : Nat, refunded : 0..Amount, session : BOOLEAN]

LEMMA RefreshedType ==
  ASSUME TypeOK, NEW t
  PROVE  /\ Refreshed(t) \in IntentRecord
         /\ Refreshed(t).captured = CapturedBy(t)
         /\ Refreshed(t).refunded = 0
<1>1. intent \in IntentRecord BY DEF TypeOK, IntentRecord
<1>2. CapturedBy(t) \in Nat BY CapturedType
<1>6. 0 \in 0..Amount BY AmountType
<1> DEFINE c == CapturedBy(t)
           x == IF c >= Amount THEN "CAPTURED" ELSE intent.status
<1>3. x \in {"CREATED", "PENDING", "CAPTURED", "FAILED", "PARTIALLY_REFUNDED", "REFUNDED"}
  BY <1>1 DEF IntentRecord
<1>4. Refreshed(t) = [intent EXCEPT !.captured = c, !.refunded = 0, !.status = x]
  BY <1>1 DEF Refreshed, IntentRecord
<1> HIDE DEF c, x
<1>5. /\ Refreshed(t) \in IntentRecord /\ Refreshed(t).captured = c
      /\ Refreshed(t).refunded = 0
  BY <1>1, <1>2, <1>3, <1>4, <1>6 DEF IntentRecord, c
<1> QED BY <1>5 DEF c

-----------------------------------------------------------------------------
(* Requests *)

LEMMA IdleType == Idle \in HandlerRecord
  BY DEF Idle, HandlerRecord, PayStatus, CreditStatus

\* What requests know about lasts: a capture, a refund that ended, a refund that was asked.
Lasting ==
  /\ \A p \in Payment : pay[p].status = "CAPTURED" => pay'[p].status = "CAPTURED"
  /\ credit \in {"SUCCESS", "FAILED"} => credit' = credit
  /\ refund.amount > 0 => refund'.amount > 0

LEMMA KnowsOn ==
  ASSUME NEW g \in Handler, Knows(g), Lasting, handler'[g] = handler[g]
  PROVE  Knows(g)'
  BY DEF Knows, Lasting

LEMMA IdleKnows ==
  ASSUME NEW g \in Handler, handler'[g] = Idle
  PROVE  Knows(g)'
  BY DEF Knows, Idle, AboutPayment, Refunding

\* A step of one request keeps what all know, if it keeps what that one knows.
LEMMA OneHandler ==
  ASSUME PInv, Lasting, NEW h \in Handler, NEW x \in HandlerRecord,
         handler' = [handler EXCEPT ![h] = x], Knows(h)'
  PROVE  handler' \in [Handler -> HandlerRecord] /\ \A g \in Handler : Knows(g)'
<1>1. handler \in [Handler -> HandlerRecord] BY DEF PInv, TypeOK
<1>2. ASSUME NEW g \in Handler, g # h PROVE Knows(g)'
  <2>1. handler'[g] = handler[g] BY <1>1, <1>2
  <2> QED BY <2>1, KnowsOn DEF PInv
<1> QED BY <1>1, <1>2

LEMMA RespondOk ==
  ASSUME PInv, Lasting, NEW h \in Handler, Respond(h)
  PROVE  handler' \in [Handler -> HandlerRecord] /\ \A g \in Handler : Knows(g)'
<1>1. handler' = [handler EXCEPT ![h] = Idle] BY DEF Respond
<1>2. handler'[h] = Idle BY <1>1 DEF PInv, TypeOK
<1> QED BY <1>1, <1>2, IdleType, IdleKnows, OneHandler

\* Steps that change no row but the claims.
Quiet == UNCHANGED <<providerVars, orderVars, intent, txn, refund>>

LEMMA QuietOk ==
  ASSUME PInv, Quiet, claimed' \subseteq Event, faults' \in Nat,
         handler' \in [Handler -> HandlerRecord], \A g \in Handler : Knows(g)'
  PROVE  PInv'
<1>1. TypeOK' BY DEF PInv, TypeOK, Quiet, providerVars, orderVars
<1>2. Books'
  BY DEF PInv, Quiet, providerVars, orderVars, Books, Totals, Recorded, PaidOnRecord,
         RefundAsked, RefundIsOwed, DeadKeepsNoStock
<1> QED BY <1>1, <1>2 DEF PInv

LEMMA QuietLasting ==
  ASSUME Quiet
  PROVE  Lasting
  BY DEF Quiet, Lasting, providerVars

\* The fields of one request.
LEMMA Fields ==
  ASSUME TypeOK, NEW h \in Handler
  PROVE  /\ handler[h] \in HandlerRecord
         /\ handler[h].pay \in Payment \cup {None}
         /\ handler[h].seen \in PayStatus \cup {"REFUNDED"} \cup CreditStatus
         /\ handler[h].due \in BOOLEAN
  BY DEF TypeOK, HandlerRecord

\* Respond, and nothing else but a claim.
LEMMA QuietRespond ==
  ASSUME PInv, NEW h \in Handler, Quiet, Respond(h), claimed' \subseteq Event, faults' \in Nat
  PROVE  PInv'
  BY QuietLasting, RespondOk, QuietOk

\* A request goes on knowing x, and nothing else but a claim.
LEMMA QuietStep ==
  ASSUME PInv, NEW h \in Handler, Quiet, NEW x \in HandlerRecord,
         handler' = [handler EXCEPT ![h] = x], Knows(h)',
         claimed' \subseteq Event, faults' \in Nat
  PROVE  PInv'
  BY QuietLasting, OneHandler, QuietOk

LEMMA BeginSessionP ==
  ASSUME PInv, NEW h \in Handler, BeginSession(h)
  PROVE  PInv'
<1> DEFINE x == [handler[h] EXCEPT !.pc = "opening"]
<1>1. Quiet /\ claimed' \subseteq Event /\ faults' \in Nat
  BY DEF BeginSession, Quiet, PInv, TypeOK
<1>2. x \in HandlerRecord BY Fields DEF PInv, HandlerRecord
<1>3. handler' = [handler EXCEPT ![h] = x] BY DEF BeginSession, Goto
<1>4. handler'[h] = x BY <1>3 DEF PInv, TypeOK
<1>5. x.pc = "opening" /\ x.pay = handler[h].pay /\ x.seen = handler[h].seen
  BY Fields DEF PInv, HandlerRecord
<1>6. Knows(h)' BY <1>1, <1>4, <1>5 DEF PInv, Knows, AboutPayment, Refunding, Quiet, providerVars
<1> QED BY <1>1, <1>2, <1>3, <1>6, QuietStep

LEMMA DeliverP ==
  ASSUME PInv, NEW h \in Handler, NEW e \in Event, Deliver(h, e)
  PROVE  PInv'
<1> DEFINE pc == IF e \in RefundEvent THEN "fetching refund" ELSE "fetching"
           x == [Idle EXCEPT !.pay = e[2], !.pc = pc]
<1>1. Quiet /\ claimed' \subseteq Event /\ faults' \in Nat
  BY DEF Deliver, Quiet, PInv, TypeOK
<1>2. \/ e \in RefundEvent /\ e[2] = None /\ e[1] \in {"refund.processed", "refund.failed"}
      \/ e \notin RefundEvent /\ e[2] \in Payment
  BY DEF Event, WebhookEvent, VerifyEvent, RefundEvent
<1>3. e \in RefundEvent => credit \in {"SUCCESS", "FAILED"} /\ refund.amount > 0
  BY <1>2 DEF Deliver, Emitted, PInv, Books, RefundIsOwed
<1>4. x \in HandlerRecord /\ x.pay = e[2] /\ x.pc = pc /\ x.seen = "none"
  BY <1>2 DEF Idle, HandlerRecord, PayStatus, CreditStatus
<1>5. handler' = [handler EXCEPT ![h] = x] BY DEF Deliver
<1>6. handler'[h] = x BY <1>5 DEF PInv, TypeOK
<1> HIDE DEF x
<1>7. Knows(h)'
  BY <1>1, <1>2, <1>3, <1>4, <1>6 DEF Knows, AboutPayment, Refunding, Quiet, providerVars
<1> QED BY <1>1, <1>4, <1>5, <1>7, QuietStep

LEMMA FetchedType ==
  ASSUME TypeOK, NEW p \in Payment
  PROVE  /\ Fetched(p) \in PayStatus \cup {"REFUNDED"}
         /\ Fetched(p) = "CAPTURED" => pay[p].status = "CAPTURED"
  BY DEF TypeOK, Fetched, PayStatus

LEMMA FetchP ==
  ASSUME PInv, NEW h \in Handler, Fetch(h)
  PROVE  PInv'
<1> DEFINE s == Fetched(handler[h].pay)
           x == [handler[h] EXCEPT !.pc = "finding", !.seen = s]
<1>1. Quiet /\ claimed' \subseteq Event /\ faults' \in Nat
  BY DEF Fetch, Quiet, PInv, TypeOK
<1>2. handler[h].pay \in Payment BY DEF Fetch, PInv, Knows, AboutPayment, Refunding
<1>3. /\ s \in PayStatus \cup {"REFUNDED"}
      /\ s = "CAPTURED" => pay[handler[h].pay].status = "CAPTURED"
  BY <1>2, FetchedType DEF PInv
<1>4. handler' = [handler EXCEPT ![h] = x] BY DEF Fetch, PInv, TypeOK
<1> HIDE DEF s
<1>5. x \in HandlerRecord /\ x.pay = handler[h].pay /\ x.seen = s /\ x.pc = "finding"
  BY <1>3, Fields DEF PInv, HandlerRecord
<1>6. handler'[h] = x BY <1>4 DEF PInv, TypeOK
<1> HIDE DEF x
<1>7. Knows(h)'
  BY <1>1, <1>2, <1>3, <1>5, <1>6 DEF Knows, AboutPayment, Refunding, Quiet, providerVars
<1> QED BY <1>1, <1>4, <1>5, <1>7, QuietStep

LEMMA FindIntentP ==
  ASSUME PInv, NEW h \in Handler, FindIntent(h)
  PROVE  PInv'
<1> DEFINE d == (order.status = "PENDING_PAYMENT")
           x == [handler[h] EXCEPT !.pc = "applying", !.due = d]
<1>1. Quiet /\ claimed' \subseteq Event /\ faults' \in Nat
  BY DEF FindIntent, Quiet, PInv, TypeOK
<1>2. handler[h].pay \in Payment BY DEF FindIntent, PInv, Knows, AboutPayment, Refunding
<1>3. d \in BOOLEAN OBVIOUS
<1>4. handler' = [handler EXCEPT ![h] = x] BY DEF FindIntent, PInv, TypeOK
<1> HIDE DEF d
<1>5. x \in HandlerRecord /\ x.pay = handler[h].pay /\ x.seen = handler[h].seen /\ x.pc = "applying"
  BY <1>3, Fields DEF PInv, HandlerRecord
<1>6. handler'[h] = x BY <1>4 DEF PInv, TypeOK
<1> HIDE DEF x
<1>7. Knows(h)'
  BY <1>1, <1>2, <1>5, <1>6 DEF PInv, Knows, AboutPayment, Refunding, Quiet, providerVars
<1> QED BY <1>1, <1>4, <1>5, <1>7, QuietStep

LEMMA VerifyP ==
  ASSUME PInv, NEW h \in Handler, NEW p \in Payment, Verify(h, p)
  PROVE  PInv'
<1> DEFINE d == (order.status = "PENDING_PAYMENT")
           x == [Idle EXCEPT !.pc = "verifying", !.pay = p, !.due = d]
<1>1. Quiet /\ claimed' \subseteq Event /\ faults' \in Nat
  BY DEF Verify, Quiet, PInv, TypeOK
<1>2. d \in BOOLEAN OBVIOUS
<1>3. handler' = [handler EXCEPT ![h] = x] BY DEF Verify
<1> HIDE DEF d
<1>4. x \in HandlerRecord /\ x.pay = p /\ x.seen = "none" /\ x.pc = "verifying"
  BY <1>2 DEF Idle, HandlerRecord, PayStatus
<1>5. handler'[h] = x BY <1>3 DEF PInv, TypeOK
<1> HIDE DEF x
<1>6. Knows(h)' BY <1>4, <1>5 DEF Knows, AboutPayment, Refunding
<1> QED BY <1>1, <1>3, <1>4, <1>6, QuietStep

LEMMA VerifyFetchP ==
  ASSUME PInv, NEW h \in Handler, VerifyFetch(h)
  PROVE  PInv'
<1> DEFINE s == Fetched(handler[h].pay)
           x == [handler[h] EXCEPT !.pc = "claiming", !.seen = s]
<1>1. Quiet /\ claimed' \subseteq Event /\ faults' \in Nat
  BY DEF VerifyFetch, Quiet, PInv, TypeOK
<1>2. handler[h].pay \in Payment BY DEF VerifyFetch, PInv, Knows, AboutPayment, Refunding
<1>3. /\ s \in PayStatus \cup {"REFUNDED"}
      /\ s = "CAPTURED" => pay[handler[h].pay].status = "CAPTURED"
  BY <1>2, FetchedType DEF PInv
<1>4. CASE pay[handler[h].pay].amount # Amount
  <2>1. Respond(h) BY <1>4 DEF VerifyFetch
  <2> QED BY <1>1, <2>1, QuietRespond
<1>5. CASE pay[handler[h].pay].amount = Amount
  <2>1. handler' = [handler EXCEPT ![h] = x] BY <1>5 DEF VerifyFetch, PInv, TypeOK
  <2> HIDE DEF s
  <2>2. x \in HandlerRecord /\ x.pay = handler[h].pay /\ x.seen = s /\ x.pc = "claiming"
    BY <1>3, Fields DEF PInv, HandlerRecord
  <2>3. handler'[h] = x BY <2>1 DEF PInv, TypeOK
  <2> HIDE DEF x
  <2>4. Knows(h)'
    BY <1>1, <1>2, <1>3, <2>2, <2>3 DEF Knows, AboutPayment, Refunding, Quiet, providerVars
  <2> QED BY <1>1, <2>1, <2>2, <2>4, QuietStep
<1> QED BY <1>4, <1>5

\* Only the position of a request moves.
LEMMA GotoP ==
  ASSUME PInv, NEW h \in Handler, NEW pc, Goto(h, pc), Quiet,
         claimed' \subseteq Event, faults' \in Nat,
         pc \in {"applying", "refunding", "crediting"},
         pc = "applying" => handler[h].pay \in Payment,
         pc \in {"refunding", "crediting"} => refund.amount > 0,
         pc = "crediting" => handler[h].seen \in {"SUCCESS", "FAILED"}
  PROVE  PInv'
<1> DEFINE x == [handler[h] EXCEPT !.pc = pc]
<1>1. handler' = [handler EXCEPT ![h] = x] BY DEF Goto
<1>2. x \in HandlerRecord /\ x.pay = handler[h].pay /\ x.seen = handler[h].seen /\ x.pc = pc
  BY Fields DEF PInv, HandlerRecord
<1>3. handler'[h] = x BY <1>1 DEF PInv, TypeOK
<1> HIDE DEF x
<1>4. Knows(h)' BY <1>2, <1>3 DEF PInv, Knows, AboutPayment, Refunding, Quiet, providerVars
<1> QED BY <1>1, <1>2, <1>4, QuietStep

LEMMA VerifyClaimP ==
  ASSUME PInv, NEW h \in Handler, VerifyClaim(h)
  PROVE  PInv'
<1> DEFINE e == <<"client-verify", handler[h].pay>>
<1>1. handler[h].pay \in Payment BY DEF VerifyClaim, PInv, Knows, AboutPayment, Refunding
<1>2. e \in Event BY <1>1 DEF Event, VerifyEvent
<1>3. Quiet /\ claimed' \subseteq Event /\ faults' \in Nat
  BY <1>2 DEF VerifyClaim, Quiet, PInv, TypeOK
<1>4. Respond(h) \/ Goto(h, "applying") BY DEF VerifyClaim
<1> QED BY <1>1, <1>3, <1>4, QuietRespond, GotoP

LEMMA BeginRefundP ==
  ASSUME PInv, NEW h \in Handler, BeginRefund(h)
  PROVE  PInv'
<1>1. Quiet /\ claimed' \subseteq Event /\ faults' \in Nat
  BY DEF BeginRefund, Quiet, PInv, TypeOK
<1>2. refund.amount > 0 BY DEF BeginRefund, PInv, Books, RefundAsked
<1>3. Goto(h, "refunding") BY DEF BeginRefund
<1> QED BY <1>1, <1>2, <1>3, GotoP

LEMMA FindAttemptP ==
  ASSUME PInv, NEW h \in Handler, FindAttempt(h)
  PROVE  PInv'
<1>1. Quiet /\ claimed' \subseteq Event /\ faults' \in Nat
  BY DEF FindAttempt, Quiet, PInv, TypeOK
<1>2. handler[h].seen \in {"SUCCESS", "FAILED"} /\ refund.amount > 0
  BY DEF FindAttempt, PInv, Knows, Refunding
<1>3. Respond(h) \/ Goto(h, "crediting") BY DEF FindAttempt
<1> QED BY <1>1, <1>2, <1>3, QuietRespond, GotoP

LEMMA FetchRefundP ==
  ASSUME PInv, NEW h \in Handler, FetchRefund(h)
  PROVE  PInv'
<1> DEFINE x == [handler[h] EXCEPT !.pc = "finding refund", !.seen = credit]
<1>1. Quiet /\ claimed' \subseteq Event /\ faults' \in Nat
  BY DEF FetchRefund, Quiet, PInv, TypeOK
<1>2. credit \in {"SUCCESS", "FAILED"} /\ refund.amount > 0
  BY DEF FetchRefund, PInv, Knows, Refunding
<1>3. handler' = [handler EXCEPT ![h] = x] BY DEF FetchRefund, PInv, TypeOK
<1>4. x \in HandlerRecord /\ x.pay = handler[h].pay /\ x.seen = credit /\ x.pc = "finding refund"
  BY <1>2, Fields DEF PInv, HandlerRecord, CreditStatus
<1>5. handler'[h] = x BY <1>3 DEF PInv, TypeOK
<1> HIDE DEF x
<1>6. Knows(h)' BY <1>1, <1>2, <1>4, <1>5 DEF Knows, AboutPayment, Refunding, Quiet
<1> QED BY <1>1, <1>3, <1>4, <1>6, QuietStep

\* Requests that end without a write, or die.
LEMMA EndsP ==
  ASSUME PInv, NEW h \in Handler,
         RecordNothing(h) \/ ApplyFails(h) \/ SettleFails(h) \/ RefundOutcomeFails(h) \/ Die(h)
  PROVE  PInv'
<1>1. Quiet /\ Respond(h)
  BY DEF RecordNothing, ApplyFails, SettleFails, RefundOutcomeFails, Die, Quiet
<1>2. claimed' = claimed
  BY DEF RecordNothing, ApplyFails, SettleFails, RefundOutcomeFails, Die
<1>3. faults' = faults \/ (faults > 0 /\ faults' = faults - 1)
  BY DEF RecordNothing, ApplyFails, SettleFails, RefundOutcomeFails, Die
<1>4. claimed' \subseteq Event /\ faults' \in Nat BY <1>2, <1>3 DEF PInv, TypeOK
<1> QED BY <1>1, <1>4, QuietRespond

-----------------------------------------------------------------------------
(* Steps that write rows *)

\* Steps of the world that leave the requests where they are.
LEMMA NobodyMoves ==
  ASSUME PInv, Lasting, handler' = handler
  PROVE  handler' \in [Handler -> HandlerRecord] /\ \A g \in Handler : Knows(g)'
  BY KnowsOn DEF PInv, TypeOK

LEMMA PayP ==
  ASSUME PInv, NEW p \in Payment, NEW a \in Charge, Pay(p, a)
  PROVE  PInv'
<1> DEFINE x == [status |-> "AUTHORISED", amount |-> a]
<1>1. pay' = [pay EXCEPT ![p] = x] /\ pay[p].status = "none" BY DEF Pay
<1>2. pay \in [Payment -> [status : PayStatus, amount : Nat]] BY DEF PInv, TypeOK
<1>3. x \in [status : PayStatus, amount : Nat] BY PaymentsAssumption DEF PayStatus
<1>4. pay' \in [Payment -> [status : PayStatus, amount : Nat]] BY <1>1, <1>2, <1>3
<1>5. \A q \in Payment : q # p => pay'[q] = pay[q] BY <1>1, <1>2
<1>6. Lasting BY <1>1, <1>5 DEF Lasting, Pay
<1>7. Recorded' BY <1>1, <1>5 DEF Recorded, PInv, Books, Pay
<1>8. \A g \in Handler : Knows(g)' BY <1>6, NobodyMoves DEF Pay
<1>9. TypeOK' BY <1>4 DEF PInv, TypeOK, Pay, orderVars
<1>10. Books'
  BY <1>7 DEF PInv, Books, Pay, orderVars, Totals, PaidOnRecord, RefundAsked, RefundIsOwed,
              DeadKeepsNoStock
<1> QED BY <1>8, <1>9, <1>10 DEF PInv

LEMMA PayEndsP ==
  ASSUME PInv, NEW p \in Payment, NEW o \in {"CAPTURED", "FAILED", "DECLINED"}, PayEnds(p, o)
  PROVE  PInv'
<1> DEFINE x == [pay[p] EXCEPT !.status = o]
<1>1. pay' = [pay EXCEPT ![p] = x] /\ pay[p].status = "AUTHORISED" BY DEF PayEnds
<1>2. pay \in [Payment -> [status : PayStatus, amount : Nat]] BY DEF PInv, TypeOK
<1>3. x \in [status : PayStatus, amount : Nat] BY <1>2 DEF PayStatus
<1>4. pay' \in [Payment -> [status : PayStatus, amount : Nat]] BY <1>1, <1>2, <1>3
<1>5. \A q \in Payment : q # p => pay'[q] = pay[q] BY <1>1, <1>2
<1>6. Lasting BY <1>1, <1>5 DEF Lasting, PayEnds
<1>7. Recorded' BY <1>1, <1>5 DEF Recorded, PInv, Books, PayEnds
<1>8. \A g \in Handler : Knows(g)' BY <1>6, NobodyMoves DEF PayEnds
<1>9. TypeOK' BY <1>4 DEF PInv, TypeOK, PayEnds, orderVars
<1>10. Books'
  BY <1>7 DEF PInv, Books, PayEnds, orderVars, Totals, PaidOnRecord, RefundAsked, RefundIsOwed,
              DeadKeepsNoStock
<1> QED BY <1>8, <1>9, <1>10 DEF PInv

LEMMA CreditEndsP ==
  ASSUME PInv, NEW o \in {"SUCCESS", "FAILED"}, CreditEnds(o)
  PROVE  PInv'
<1>1. Lasting BY DEF Lasting, CreditEnds
<1>2. \A g \in Handler : Knows(g)' BY <1>1, NobodyMoves DEF CreditEnds
<1>3. TypeOK' BY DEF PInv, TypeOK, CreditEnds, orderVars, CreditStatus
<1>4. Books'
  BY DEF PInv, Books, CreditEnds, orderVars, Totals, Recorded, PaidOnRecord, RefundAsked,
         RefundIsOwed, DeadKeepsNoStock
<1> QED BY <1>2, <1>3, <1>4 DEF PInv

LEMMA FinishSessionP ==
  ASSUME PInv, NEW h \in Handler, FinishSession(h)
  PROVE  PInv'
<1>1. intent \in IntentRecord BY DEF PInv, TypeOK, IntentRecord
<1>2. intent' \in IntentRecord /\ intent'.captured = intent.captured
  BY <1>1 DEF FinishSession, IntentRecord
<1>3. Lasting BY DEF Lasting, FinishSession, providerVars
<1>4. handler' \in [Handler -> HandlerRecord] /\ \A g \in Handler : Knows(g)'
  BY <1>3, RespondOk DEF FinishSession
<1>5. TypeOK'
  BY <1>2, <1>4 DEF PInv, TypeOK, FinishSession, providerVars, orderVars, IntentRecord
<1>6. Books'
  BY <1>2 DEF PInv, Books, FinishSession, providerVars, orderVars, Totals, Recorded,
              PaidOnRecord, RefundAsked, RefundIsOwed, DeadKeepsNoStock
<1> QED BY <1>4, <1>5, <1>6 DEF PInv

\* The transaction of an outcome ends the request, and those it made lose.
LEMMA CommitOk ==
  ASSUME PInv, Lasting, NEW h \in Handler, NEW lost \in SUBSET Handler, Commit(h, lost)
  PROVE  handler' \in [Handler -> HandlerRecord] /\ \A g \in Handler : Knows(g)'
<1>1. handler' \in [Handler -> HandlerRecord] BY IdleType DEF Commit, PInv, TypeOK
<1>2. ASSUME NEW g \in Handler PROVE Knows(g)'
  <2>1. handler'[g] = Idle \/ handler'[g] = handler[g] BY DEF Commit
  <2> QED BY <2>1, IdleKnows, KnowsOn DEF PInv
<1> QED BY <1>1, <1>2

OrderRecord == [status : OrderStatus, paid : 0..Amount, refunded : 0..Amount]

LEMMA RecordSuccessP ==
  ASSUME PInv, NEW h \in Handler, NEW lost \in SUBSET Overlapping(h), RecordSuccess(h, lost)
  PROVE  PInv'
<1> DEFINE p == handler[h].pay
           due == handler[h].due
<1>1. p \in Payment /\ pay[p].status = "CAPTURED" /\ pay[p].amount = Amount
  BY DEF RecordSuccess, Succeeds, PInv, Knows, Refunding
<1>2. txn[p] = "none" /\ CapturedBy([txn EXCEPT ![p] = "SUCCESS"]) <= Amount
  BY DEF RecordSuccess, Storable
<1>3. txn' = [txn EXCEPT ![p] = "SUCCESS"] BY DEF RecordSuccess
<1>4. txn' \in [Payment -> {"none", "SUCCESS", "FAILED"}] /\ txn'[p] = "SUCCESS"
  BY <1>1, <1>3 DEF PInv, TypeOK
<1>5. Lasting BY DEF Lasting, RecordSuccess, providerVars
<1>6. lost \in SUBSET Handler BY DEF Overlapping
<1>7. handler' \in [Handler -> HandlerRecord] /\ \A g \in Handler : Knows(g)'
  BY <1>5, <1>6, CommitOk DEF RecordSuccess
<1>8. intent' \in IntentRecord /\ intent'.captured = CapturedBy(txn')
  BY RefreshedType DEF RecordSuccess, PInv
<1>9. order \in OrderRecord /\ order.refunded <= order.paid
  BY DEF PInv, TypeOK, Books, Totals, OrderRecord
<1>10. /\ order' \in OrderRecord /\ order'.refunded = order.refunded
       /\ \/ order'.paid = order.paid /\ order'.status = order.status
          \/ /\ order'.paid = Amount /\ order'.status = "CONFIRMED"
             /\ order.status = "PENDING_PAYMENT"
  <2>1. Amount \in 0..Amount BY AmountType
  <2>2. \/ order' = order
        \/ /\ order' = [order EXCEPT !.status = "CONFIRMED", !.paid = Amount]
           /\ order.status = "PENDING_PAYMENT"
    BY DEF RecordSuccess
  <2> QED BY <1>9, <2>1, <2>2 DEF OrderRecord, OrderStatus
<1>11. order'.refunded <= order'.paid /\ order.paid <= order'.paid
  BY <1>9, <1>10, AmountType DEF OrderRecord
<1>12. /\ item' \in [Item -> {"CREATED", "CONFIRMED", "CANCELLED"}]
       /\ \A i \in Item : item'[i] = "CANCELLED" <=> item[i] = "CANCELLED"
  BY DEF RecordSuccess, PInv, TypeOK
<1>13. {i \in Item : item'[i] = "CANCELLED"} = {i \in Item : item[i] = "CANCELLED"} BY <1>12
<1>14. TypeOK'
  BY <1>4, <1>7, <1>8, <1>10, <1>12
  DEF PInv, TypeOK, RecordSuccess, providerVars, IntentRecord, OrderRecord
<1>15. Totals' BY <1>2, <1>3, <1>8, <1>11 DEF Totals
<1>16. Recorded'
  <2>1. pay[p] = [status |-> "CAPTURED", amount |-> Amount]
    BY <1>1 DEF PInv, TypeOK
  <2> QED BY <1>3, <2>1 DEF PInv, TypeOK, Books, Recorded, RecordSuccess, providerVars
<1>17. PaidOnRecord'
  BY <1>1, <1>4, <1>10 DEF PInv, Books, PaidOnRecord
<1>18. RefundIsOwed'
  <2>1. refund' = refund /\ credit' = credit BY DEF RecordSuccess, providerVars
  <2>2. refund.amount \in Int BY DEF PInv, TypeOK
  <2> QED BY <1>9, <1>10, <1>11, <1>13, <2>1, <2>2 DEF PInv, Books, RefundIsOwed, OrderRecord
<1>19. DeadKeepsNoStock'
  <2>1. held' = held /\ held \subseteq Item BY DEF RecordSuccess, PInv, TypeOK
  <2>2. order'.status \in Dead => order.status \in Dead BY <1>10 DEF Dead
  <2> QED BY <1>12, <2>1, <2>2 DEF PInv, Books, DeadKeepsNoStock
<1>20. RefundAsked' BY DEF PInv, Books, RefundAsked, RecordSuccess
<1> QED BY <1>7, <1>14, <1>15, <1>16, <1>17, <1>18, <1>19, <1>20 DEF PInv, Books

LEMMA RecordFailureP ==
  ASSUME PInv, NEW h \in Handler, NEW lost \in SUBSET Overlapping(h), RecordFailure(h, lost)
  PROVE  PInv'
<1> DEFINE p == handler[h].pay
           x == [txn EXCEPT ![p] = "FAILED"]
<1>1. p \in Payment BY DEF RecordFailure, PInv, Knows, AboutPayment, Refunding
<1>2. txn[p] = "none" /\ CapturedBy(x) <= Amount
  BY DEF RecordFailure, Storable
<1>3. txn' = x BY DEF RecordFailure
<1>4. /\ txn' \in [Payment -> {"none", "SUCCESS", "FAILED"}]
      /\ \A q \in Payment : txn'[q] = "SUCCESS" <=> txn[q] = "SUCCESS"
  BY <1>1, <1>2, <1>3 DEF PInv, TypeOK
<1>5. Lasting BY DEF Lasting, RecordFailure, providerVars
<1>6. lost \in SUBSET Handler BY DEF Overlapping
<1>7. handler' \in [Handler -> HandlerRecord] /\ \A g \in Handler : Knows(g)'
  BY <1>5, <1>6, CommitOk DEF RecordFailure
<1>8. intent' \in IntentRecord /\ intent'.captured = CapturedBy(txn')
  <2>1. Refreshed(x) \in IntentRecord /\ Refreshed(x).captured = CapturedBy(x)
    BY RefreshedType DEF PInv
  <2>2. intent' = Refreshed(x) \/ intent' = [Refreshed(x) EXCEPT !.status = "FAILED"]
    BY DEF RecordFailure
  <2> QED BY <1>3, <2>1, <2>2 DEF IntentRecord
<1>9. order \in OrderRecord BY DEF PInv, TypeOK, OrderRecord
<1>10. /\ order' \in OrderRecord /\ order'.refunded = order.refunded /\ order'.paid = order.paid
       /\ \/ order'.status = order.status
          \/ order'.status = "PAYMENT_FAILED" /\ handler[h].seen = "FAILED"
  BY <1>9 DEF RecordFailure, OrderRecord, OrderStatus
<1>11. TypeOK'
  BY <1>4, <1>7, <1>8, <1>10
  DEF PInv, TypeOK, RecordFailure, providerVars, IntentRecord, OrderRecord
<1>12. Totals' BY <1>2, <1>3, <1>8, <1>10 DEF Totals, PInv, Books
<1>13. Recorded' BY <1>4 DEF PInv, Books, Recorded, RecordFailure, providerVars
<1>14. PaidOnRecord' BY <1>4, <1>10 DEF PInv, Books, PaidOnRecord
<1>15. RefundIsOwed' /\ RefundAsked'
  BY <1>10 DEF PInv, Books, RefundIsOwed, RefundAsked, RecordFailure, providerVars
<1>16. DeadKeepsNoStock'
  BY <1>10 DEF PInv, Books, DeadKeepsNoStock, RecordFailure
<1> QED BY <1>7, <1>11, <1>12, <1>13, <1>14, <1>15, <1>16 DEF PInv, Books

RefundRecord ==
  [status : {"none", "PENDING", "PROCESSING", "COMPLETED", "FAILED"}, amount : 0..Amount,
   attempted : BOOLEAN]

\* What a cancellation takes: the items it names that were not cancelled yet.
LEMMA CancelP ==
  ASSUME PInv, NEW S \in SUBSET Item, Cancel(S)
  PROVE  PInv'
<1> DEFINE new == {i \in S : item[i] # "CANCELLED"}
           gone == {i \in Item : item[i] = "CANCELLED"}
           gone1 == {i \in Item : item'[i] = "CANCELLED"}
           owed == Owed(new)
<1>1. item \in [Item -> {"CREATED", "CONFIRMED", "CANCELLED"}] BY DEF PInv, TypeOK
<1>2. item' = [i \in Item |-> IF i \in new THEN "CANCELLED" ELSE item[i]] BY DEF Cancel
<1>3. /\ item' \in [Item -> {"CREATED", "CONFIRMED", "CANCELLED"}]
      /\ gone \subseteq gone1 /\ new \subseteq gone1
  BY <1>1, <1>2
<1>4. /\ Cardinality(new) \in Nat /\ Cardinality(gone) \in Nat /\ Cardinality(gone1) \in Nat
      /\ Cardinality(new) <= Cardinality(gone1) /\ Cardinality(gone) <= Cardinality(gone1)
  <2>1. IsFiniteSet(gone1) /\ Cardinality(gone1) \in Nat BY ItemsType
  <2>2. Cardinality(new) \in Nat /\ Cardinality(gone) \in Nat BY ItemsType
  <2> QED BY <1>3, <2>1, <2>2, FS_Subset
<1>5. order \in OrderRecord /\ order.refunded <= order.paid
  BY DEF PInv, TypeOK, Books, Totals, OrderRecord
<1>6. owed \in Int /\ owed <= order.paid /\ owed <= Cardinality(new)
  BY <1>4, <1>5, AmountType DEF Owed, OrderRecord
<1>7. /\ order' \in OrderRecord /\ order'.refunded = order.refunded /\ order'.paid = order.paid
      /\ order'.status \in Dead => \A i \in Item \ new : item[i] = "CANCELLED"
      /\ order'.status \in {"CONFIRMED", "CANCELLATION_REQUESTED"} => order.status = "CONFIRMED"
  BY <1>5 DEF Cancel, OrderRecord, OrderStatus, Dead
<1> HIDE DEF owed, new
<1>8. refund' = refund \/ (owed > 0 /\ refund' = [status |-> "PENDING", amount |-> owed,
                                                 attempted |-> FALSE])
  BY DEF Cancel, owed, new
<1>9. refund.amount \in 0..Amount BY DEF PInv, TypeOK
<1>10. /\ refund' \in RefundRecord
       /\ refund.amount > 0 => refund'.amount > 0
       /\ refund'.amount = refund.amount \/ refund'.amount = owed
       /\ refund'.status # "none" => refund'.amount > 0
  <2>1. refund \in RefundRecord /\ (refund.status # "none" => refund.amount > 0)
    BY DEF PInv, TypeOK, Books, RefundAsked, RefundRecord
  <2>2. owed > 0 => owed \in 0..Amount BY <1>5, <1>6, AmountType DEF OrderRecord
  <2>3. CASE refund' = refund BY <2>1, <2>3
  <2>4. CASE owed > 0 /\ refund' = [status |-> "PENDING", amount |-> owed, attempted |-> FALSE]
    BY <2>2, <2>4 DEF RefundRecord
  <2> QED BY <1>8, <2>3, <2>4
<1>11. Lasting BY <1>10 DEF Lasting, Cancel, providerVars
<1>12. \A g \in Handler : Knows(g)' BY <1>11, NobodyMoves DEF Cancel
<1>13. held' = held \ S /\ held \subseteq Item BY DEF Cancel, PInv, TypeOK
<1>14. TypeOK'
  BY <1>3, <1>7, <1>10, <1>13 DEF PInv, TypeOK, Cancel, providerVars, OrderRecord, RefundRecord
<1>15. Totals' /\ Recorded' /\ PaidOnRecord'
  BY <1>7 DEF PInv, Books, Totals, Recorded, PaidOnRecord, Cancel, providerVars
<1>16. RefundIsOwed'
  <2>1. refund.amount <= Cardinality(gone) /\ refund.amount <= order.paid
    BY DEF PInv, Books, RefundIsOwed
  <2>2. refund'.amount <= Cardinality(gone1) /\ refund'.amount <= order'.paid
    BY <1>4, <1>5, <1>6, <1>7, <1>9, <1>10, <2>1 DEF OrderRecord
  <2>3. credit' # "none" => refund'.amount > 0
    BY <1>10 DEF PInv, Books, RefundIsOwed, Cancel, providerVars
  <2> QED BY <2>2, <2>3 DEF RefundIsOwed
<1>17. RefundAsked' BY <1>10 DEF RefundAsked
<1>18. DeadKeepsNoStock'
  <2>1. \A i \in held : item[i] # "CANCELLED" BY DEF PInv, Books, DeadKeepsNoStock
  <2>2. \A i \in held' : i \notin new /\ item'[i] = item[i]
    BY <1>2, <1>13 DEF new
  <2>3. order'.status \in Dead => held' = {}
    BY <1>7, <1>13, <2>1, <2>2
  <2> QED BY <1>13, <2>1, <2>2, <2>3 DEF DeadKeepsNoStock
<1> QED BY <1>12, <1>14, <1>15, <1>16, <1>17, <1>18 DEF PInv, Books

LEMMA CallRefundP ==
  ASSUME PInv, NEW h \in Handler, NEW o \in {"PENDING", "SUCCESS", "FAILED"}, CallRefund(h, o)
  PROVE  PInv'
<1> DEFINE x == [handler[h] EXCEPT !.pc = "settling", !.seen = credit']
<1>1. credit' \in CreditStatus /\ (credit # "none" => credit' = credit)
  BY DEF CallRefund, CreditStatus, PInv, TypeOK
<1>2. refund.amount > 0 BY DEF CallRefund, PInv, Knows, Refunding
<1>3. Lasting BY <1>1 DEF Lasting, CallRefund
<1>4. handler' = [handler EXCEPT ![h] = x] BY DEF CallRefund, PInv, TypeOK
<1>5. x \in HandlerRecord /\ x.pay = handler[h].pay /\ x.seen = credit' /\ x.pc = "settling"
  BY <1>1, Fields DEF PInv, HandlerRecord, CreditStatus
<1>6. handler'[h] = x BY <1>4 DEF PInv, TypeOK
<1> HIDE DEF x
<1>7. Knows(h)'
  BY <1>1, <1>2, <1>5, <1>6 DEF Knows, AboutPayment, Refunding, CreditStatus, CallRefund
<1>8. handler' \in [Handler -> HandlerRecord] /\ \A g \in Handler : Knows(g)'
  BY <1>3, <1>4, <1>5, <1>7, OneHandler
<1>9. TypeOK' BY <1>1, <1>8 DEF PInv, TypeOK, CallRefund, orderVars
<1>10. Books'
  BY <1>2 DEF PInv, Books, CallRefund, orderVars, Totals, Recorded, PaidOnRecord, RefundAsked,
              RefundIsOwed, DeadKeepsNoStock
<1> QED BY <1>8, <1>9, <1>10 DEF PInv

\* The refund's two transactions: a status, and the totals when the money went back.
LEMMA RefundStep ==
  ASSUME PInv, NEW h \in Handler, Respond(h),
         refund' \in RefundRecord, refund'.amount = refund.amount, refund.amount > 0,
         intent' \in IntentRecord, intent'.captured = intent.captured,
         order' \in OrderRecord, order'.status = order.status, order'.paid = order.paid,
         order'.refunded <= order'.paid,
         UNCHANGED <<providerVars, item, held, txn, claimed, faults>>
  PROVE  PInv'
<1>1. Lasting BY DEF Lasting, providerVars
<1>2. handler' \in [Handler -> HandlerRecord] /\ \A g \in Handler : Knows(g)'
  BY <1>1, RespondOk
<1>3. TypeOK'
  BY <1>2 DEF PInv, TypeOK, providerVars, IntentRecord, OrderRecord, RefundRecord
<1>4. Books'
  BY DEF PInv, Books, providerVars, Totals, Recorded, PaidOnRecord, RefundAsked, RefundIsOwed,
         DeadKeepsNoStock
<1> QED BY <1>2, <1>3, <1>4 DEF PInv

\* What the CHECKs leave room for.
LEMMA RefundableType ==
  ASSUME PInv, Refundable
  PROVE  /\ intent.refunded + refund.amount \in 0..Amount
         /\ order.refunded + refund.amount \in 0..Amount
         /\ order.refunded + refund.amount <= order.paid
<1>1. intent \in IntentRecord /\ order \in OrderRecord /\ refund.amount \in 0..Amount
  BY DEF PInv, TypeOK, IntentRecord, OrderRecord
<1>2. intent.captured <= Amount BY DEF PInv, Books, Totals
<1> QED BY <1>1, <1>2, AmountType DEF Refundable, IntentRecord, OrderRecord

LEMMA SettleRefundP ==
  ASSUME PInv, NEW h \in Handler, SettleRefund(h)
  PROVE  PInv'
<1>1. /\ intent \in IntentRecord /\ order \in OrderRecord /\ refund \in RefundRecord
      /\ order.refunded <= order.paid
  BY DEF PInv, TypeOK, Books, Totals, IntentRecord, OrderRecord, RefundRecord
<1>2. refund' \in RefundRecord /\ refund'.amount = refund.amount
  BY <1>1 DEF SettleRefund, RefundRecord
<1>3. refund.amount > 0 BY DEF SettleRefund, PInv, Knows, Refunding
<1>4. /\ intent' \in IntentRecord /\ intent'.captured = intent.captured
      /\ order' \in OrderRecord /\ order'.status = order.status /\ order'.paid = order.paid
      /\ order'.refunded <= order'.paid
  <2>1. CASE handler[h].seen = "SUCCESS"
    <3>1. Refundable BY <2>1 DEF SettleRefund
    <3> DEFINE i == intent.refunded + refund.amount
               o == order.refunded + refund.amount
    <3>2. i \in 0..Amount /\ o \in 0..Amount /\ o <= order.paid BY <3>1, RefundableType
    <3>3. /\ order' = [order EXCEPT !.refunded = o]
          /\ \E s \in {"REFUNDED", "PARTIALLY_REFUNDED"} :
               intent' = [intent EXCEPT !.refunded = i, !.status = s]
      BY <1>1, <2>1 DEF SettleRefund, IntentRecord, OrderRecord
    <3> HIDE DEF i, o
    <3> QED BY <1>1, <3>2, <3>3 DEF IntentRecord, OrderRecord
  <2>2. CASE handler[h].seen # "SUCCESS"
    BY <1>1, <2>2 DEF SettleRefund
  <2> QED BY <2>1, <2>2
<1>5. Respond(h) /\ UNCHANGED <<providerVars, item, held, txn, claimed, faults>>
  BY DEF SettleRefund
<1> QED BY <1>2, <1>3, <1>4, <1>5, RefundStep

LEMMA ApplyRefundOutcomeP ==
  ASSUME PInv, NEW h \in Handler, ApplyRefundOutcome(h)
  PROVE  PInv'
<1>1. /\ intent \in IntentRecord /\ order \in OrderRecord /\ refund \in RefundRecord
      /\ order.refunded <= order.paid
  BY DEF PInv, TypeOK, Books, Totals, IntentRecord, OrderRecord, RefundRecord
<1>2. handler[h].seen \in {"SUCCESS", "FAILED"} BY DEF ApplyRefundOutcome, PInv, Knows, Refunding
<1>3. refund' \in RefundRecord /\ refund'.amount = refund.amount
  BY <1>1, <1>2 DEF ApplyRefundOutcome, RefundRecord
<1>4. refund.amount > 0 BY DEF ApplyRefundOutcome, PInv, Knows, Refunding
<1>5. /\ intent' \in IntentRecord /\ intent'.captured = intent.captured
      /\ order' \in OrderRecord /\ order'.status = order.status /\ order'.paid = order.paid
      /\ order'.refunded <= order'.paid
  <2>1. CASE handler[h].seen = "SUCCESS"
    <3>1. Refundable BY <2>1 DEF ApplyRefundOutcome
    <3> DEFINE i == intent.refunded + refund.amount
               o == order.refunded + refund.amount
    <3>2. i \in 0..Amount /\ o \in 0..Amount /\ o <= order.paid BY <3>1, RefundableType
    <3>3. order' = [order EXCEPT !.refunded = o] /\ intent' = [intent EXCEPT !.refunded = i]
      BY <1>1, <2>1 DEF ApplyRefundOutcome, IntentRecord, OrderRecord
    <3> HIDE DEF i, o
    <3> QED BY <1>1, <3>2, <3>3 DEF IntentRecord, OrderRecord
  <2>2. CASE handler[h].seen # "SUCCESS"
    BY <1>1, <2>2 DEF ApplyRefundOutcome
  <2> QED BY <2>1, <2>2
<1>6. Respond(h) /\ UNCHANGED <<providerVars, item, held, txn, claimed, faults>>
  BY DEF ApplyRefundOutcome
<1> QED BY <1>3, <1>4, <1>5, <1>6, RefundStep

-----------------------------------------------------------------------------
(* The invariant, and the theorems *)

LEMMA InitP == Init => PInv
<1> SUFFICES ASSUME Init PROVE PInv OBVIOUS
<1>1. TypeOK
  <2>1. 0 \in 0..Amount BY AmountType
  <2> QED BY <2>1, IdleType, PaymentsAssumption
      DEF Init, TypeOK, PayStatus, CreditStatus, OrderStatus
<1>2. \A h \in Handler : Knows(h)
  BY DEF Init, Knows, Idle, AboutPayment, Refunding
<1>3. CapturedBy(txn) = 0
  <2>1. {p \in Payment : txn[p] = "SUCCESS"} = {} BY DEF Init
  <2> QED BY <2>1, FS_EmptySet, AmountType DEF CapturedBy
<1>4. Totals BY <1>3, AmountType DEF Init, Totals
<1>5. Cardinality({i \in Item : item[i] = "CANCELLED"}) \in Nat BY ItemsType
<1>6. Books
  BY <1>4, <1>5 DEF Init, Books, Recorded, PaidOnRecord, RefundAsked, RefundIsOwed,
                    DeadKeepsNoStock, Dead
<1> QED BY <1>1, <1>2, <1>6 DEF PInv

LEMMA NextP == PInv /\ [Next]_vars => PInv'
<1> SUFFICES ASSUME PInv, [Next]_vars PROVE PInv' OBVIOUS
<1>1. CASE World
  BY <1>1, PayP, PayEndsP, CreditEndsP, CancelP DEF World
<1>2. ASSUME NEW h \in Handler, Begin(h) PROVE PInv'
  BY <1>2, BeginSessionP, BeginRefundP, DeliverP, VerifyP DEF Begin
<1>3. ASSUME NEW h \in Handler, Continue(h) PROVE PInv'
  <2>1. CASE \E lost \in SUBSET Overlapping(h) : RecordSuccess(h, lost) \/ RecordFailure(h, lost)
    BY <2>1, RecordSuccessP, RecordFailureP
  <2>2. CASE \E o \in {"PENDING", "SUCCESS", "FAILED"} : CallRefund(h, o)
    BY <2>2, CallRefundP
  <2>3. CASE \/ FinishSession(h) \/ Fetch(h) \/ FindIntent(h) \/ VerifyFetch(h) \/ VerifyClaim(h)
             \/ SettleRefund(h) \/ FetchRefund(h) \/ FindAttempt(h) \/ ApplyRefundOutcome(h)
    BY <2>3, FinishSessionP, FetchP, FindIntentP, VerifyFetchP, VerifyClaimP, SettleRefundP,
       FetchRefundP, FindAttemptP, ApplyRefundOutcomeP
  <2>4. CASE RecordNothing(h) \/ ApplyFails(h) \/ SettleFails(h) \/ RefundOutcomeFails(h)
    BY <2>4, EndsP
  <2> QED BY <1>3, <2>1, <2>2, <2>3, <2>4 DEF Continue
<1>4. ASSUME NEW h \in Handler, Die(h) PROVE PInv'
  BY <1>4, EndsP
<1>5. CASE UNCHANGED vars
  <2>1. Quiet /\ claimed' = claimed /\ faults' = faults /\ handler' = handler
    BY <1>5 DEF vars, Quiet, providerVars, orderVars
  <2>2. handler' \in [Handler -> HandlerRecord] /\ \A g \in Handler : Knows(g)'
    BY <2>1, QuietLasting, NobodyMoves
  <2>3. claimed' \subseteq Event /\ faults' \in Nat BY <2>1 DEF PInv, TypeOK
  <2> QED BY <2>1, <2>2, <2>3, QuietOk
<1> QED BY <1>1, <1>2, <1>3, <1>4, <1>5 DEF Next

\* What requests know, the totals, the order and its refund agree in every state (all of
\* payments.service.ts and cancel).
THEOREM PaymentsInvariant == Spec => []PInv
BY InitP, NextP, PTL DEF Spec

\* Rows and requests keep their types; in particular no total leaves what its CHECK allows.
THEOREM PaymentsTypeCorrect == Spec => []TypeOK
<1>1. PInv => TypeOK BY DEF PInv
<1> QED BY <1>1, PaymentsInvariant, PTL

\* Webhooks and verifications record one capture at most (applyPaymentOutcome and the tables'
\* constraints).
THEOREM PaymentsCaptureOnce == Spec => []CapturedOnce
<1>1. PInv => CapturedOnce
  BY OneSuccess DEF PInv, Books, Totals, CapturedOnce
<1> QED BY <1>1, PaymentsInvariant, PTL

\* An order counts as paid only with a capture of its whole price on record (recordSuccess).
THEOREM PaymentsPaidIsCaptured == Spec => []PaidIsCaptured
<1>1. PInv => PaidIsCaptured
  BY OneSuccess DEF PInv, Books, Totals, Recorded, PaidOnRecord, PaidIsCaptured
<1> QED BY <1>1, PaymentsInvariant, PTL

\* A refund is asked for cancelled items only (cancel and processRefund).
THEOREM PaymentsRefundIsOwed == Spec => []RefundIsOwed
<1>1. PInv => RefundIsOwed BY DEF PInv, Books
<1> QED BY <1>1, PaymentsInvariant, PTL

\* What ended keeps no stock (cancel and recordFailure).
THEOREM PaymentsDeadKeepsNoStock == Spec => []DeadKeepsNoStock
<1>1. PInv => DeadKeepsNoStock BY DEF PInv, Books
<1> QED BY <1>1, PaymentsInvariant, PTL

\* The only steps that write the order's status or what was paid.
LEMMA OrderSteps ==
  ASSUME PInv, [Next]_vars
  PROVE  \/ order'.status = order.status /\ order'.paid = order.paid
         \/ /\ order.status = "PENDING_PAYMENT"
            /\ order'.status = "CONFIRMED" /\ order'.paid = Amount
         \/ /\ order.status = "PENDING_PAYMENT"
            /\ order'.status = "PAYMENT_FAILED" /\ order'.paid = order.paid
         \/ /\ order.status = "PENDING_PAYMENT"
            /\ order'.status \in {"PENDING_PAYMENT", "CANCELLED"} /\ order'.paid = order.paid
         \/ /\ order.status = "CONFIRMED"
            /\ order'.status \in {"CANCELLATION_REQUESTED", "CANCELLED"}
            /\ order'.paid = order.paid
<1>1. order \in OrderRecord BY DEF PInv, TypeOK, OrderRecord
<1>2. ASSUME NEW h \in Handler, NEW lost \in SUBSET Overlapping(h), RecordSuccess(h, lost)
      PROVE  \/ order' = order
             \/ /\ order.status = "PENDING_PAYMENT"
                /\ order' = [order EXCEPT !.status = "CONFIRMED", !.paid = Amount]
  BY <1>2 DEF RecordSuccess
<1>3. ASSUME NEW h \in Handler, NEW lost \in SUBSET Overlapping(h), RecordFailure(h, lost)
      PROVE  \/ order' = order
             \/ /\ order.status = "PENDING_PAYMENT"
                /\ order' = [order EXCEPT !.status = "PAYMENT_FAILED"]
  BY <1>3 DEF RecordFailure
<1>4. ASSUME NEW S \in SUBSET Item, Cancel(S)
      PROVE  /\ order.status \in {"PENDING_PAYMENT", "CONFIRMED"}
             /\ \E s \in OrderStatus :
                  /\ order' = [order EXCEPT !.status = s]
                  /\ order.status = "CONFIRMED" => s \in {"CANCELLATION_REQUESTED", "CANCELLED"}
                  /\ order.status = "PENDING_PAYMENT" => s \in {"PENDING_PAYMENT", "CANCELLED"}
  BY <1>1, <1>4 DEF Cancel, OrderRecord, OrderStatus
<1>5. ASSUME NEW h \in Handler, SettleRefund(h) \/ ApplyRefundOutcome(h)
      PROVE  order'.status = order.status /\ order'.paid = order.paid
  BY <1>1, <1>5 DEF SettleRefund, ApplyRefundOutcome, OrderRecord
<1>6. ASSUME NEW h \in Handler, Begin(h) \/ Die(h) PROVE order' = order
  BY <1>6 DEF Begin, BeginSession, BeginRefund, Deliver, Verify, Die, orderVars
<1>7. ASSUME NEW h \in Handler, Continue(h)
      PROVE  \/ order' = order
             \/ \E lost \in SUBSET Overlapping(h) : RecordSuccess(h, lost) \/ RecordFailure(h, lost)
             \/ SettleRefund(h) \/ ApplyRefundOutcome(h)
  BY <1>7 DEF Continue, FinishSession, Fetch, FindIntent, VerifyFetch, VerifyClaim, RecordNothing,
              ApplyFails, CallRefund, SettleFails, FetchRefund, FindAttempt, RefundOutcomeFails,
              orderVars
<1>8. ASSUME World PROVE order' = order \/ \E S \in SUBSET Item : Cancel(S)
  BY <1>8 DEF World, Pay, PayEnds, CreditEnds, orderVars
<1>9. UNCHANGED vars => order' = order BY DEF vars
<1>10. CASE \E h \in Handler : \E lost \in SUBSET Overlapping(h) : RecordSuccess(h, lost)
  BY <1>1, <1>2, <1>10 DEF OrderRecord
<1>11. CASE \E h \in Handler : \E lost \in SUBSET Overlapping(h) : RecordFailure(h, lost)
  BY <1>1, <1>3, <1>11 DEF OrderRecord
<1>12. CASE \E S \in SUBSET Item : Cancel(S)
  BY <1>1, <1>4, <1>12 DEF OrderRecord
<1>13. CASE \E h \in Handler : SettleRefund(h) \/ ApplyRefundOutcome(h)
  BY <1>5, <1>13
<1> QED BY <1>6, <1>7, <1>8, <1>9, <1>10, <1>11, <1>12, <1>13 DEF Next

\* An order never revives, is never unconfirmed, and what was paid never changes.
THEOREM PaymentsOrderMovesOn == Spec => OrderMovesOn
<1>1. PInv /\ [Next]_vars =>
        [/\ order.status \in Dead => order'.status = order.status
         /\ order.status = "CONFIRMED" =>
              order'.status \in {"CONFIRMED", "CANCELLATION_REQUESTED", "CANCELLED"}
         /\ order.paid > 0 => order'.paid = order.paid]_vars
  BY OrderSteps DEF PInv, Books, PaidOnRecord, Dead
<1> QED BY <1>1, InitP, NextP, PTL DEF Spec, OrderMovesOn

-----------------------------------------------------------------------------
(* When no payment failed for good *)

\* A failure that ended its payment is on record (recordFailure, `final`).
FailedForGood == \E p \in Payment : txn[p] = "FAILED" /\ pay[p].status = "FAILED"

\* A request that was told of such a failure was told the truth.
Informed == {"finding", "claiming", "applying"}
Told ==
  \A h \in Handler :
    handler[h].pc \in Informed /\ handler[h].seen = "FAILED" =>
      pay[handler[h].pay].status = "FAILED"

\* An order fails by such a failure only, and one that was cancelled has no item left.
Ends ==
  /\ order.status = "PAYMENT_FAILED" => FailedForGood
  /\ order.status = "CANCELLED" => \A i \in Item : item[i] = "CANCELLED"

\* Until then an order that goes on has the stock of its items.
Stocked == order.status \in Dead \/ \A i \in Item : item[i] # "CANCELLED" => i \in held

InOrder == FailedForGood \/ (Stocked /\ ItemsFollowOrder)

Calm == Told /\ Ends /\ InOrder

\* What a step may teach a request.
LEMMA Learns ==
  ASSUME PInv, [Next]_vars, NEW g \in Handler
  PROVE  \/ handler'[g] = handler[g]
         \/ handler'[g].pc \notin Informed
         \/ /\ handler[g].pc \in {"fetching", "verifying"} /\ handler'[g].pay = handler[g].pay
            /\ handler'[g].seen = Fetched(handler[g].pay)
         \/ /\ handler[g].pc \in Informed /\ handler'[g].pay = handler[g].pay
            /\ handler'[g].seen = handler[g].seen
<1>0. /\ handler \in [Handler -> HandlerRecord] /\ Idle.pc = "idle"
      /\ \A h \in Handler : handler[h] \in HandlerRecord
  BY DEF PInv, TypeOK, Idle
<1> DEFINE Same == handler'[g] = handler[g] \/ handler'[g].pc \notin Informed
<1>1. ASSUME NEW h \in Handler, Respond(h) PROVE Same
  <2>1. handler'[g] = IF g = h THEN Idle ELSE handler[g] BY <1>0, <1>1 DEF Respond
  <2> QED BY <1>0, <2>1 DEF Informed
<1>2. ASSUME NEW h \in Handler, NEW pc, pc \notin Informed, Goto(h, pc) PROVE Same
  <2>1. handler'[g] = IF g = h THEN [handler[g] EXCEPT !.pc = pc] ELSE handler[g]
    BY <1>0, <1>2 DEF Goto
  <2>2. [handler[g] EXCEPT !.pc = pc].pc = pc BY <1>0 DEF HandlerRecord
  <2> QED BY <1>2, <2>1, <2>2
<1>3. ASSUME NEW h \in Handler, Begin(h) PROVE Same
  <2>1. CASE BeginSession(h) \/ BeginRefund(h)
    BY <1>2, <2>1 DEF BeginSession, BeginRefund, Informed
  <2>2. ASSUME NEW e \in Event, Deliver(h, e) PROVE Same
    BY <1>0, <2>2 DEF Deliver, Idle, Informed
  <2>3. ASSUME NEW p \in Payment, Verify(h, p) PROVE Same
    BY <1>0, <2>3 DEF Verify, Idle, Informed
  <2> QED BY <1>3, <2>1, <2>2, <2>3 DEF Begin
<1>4. ASSUME NEW h \in Handler, Fetch(h) \/ VerifyFetch(h)
      PROVE  \/ Same
             \/ /\ handler[g].pc \in {"fetching", "verifying"} /\ handler'[g].pay = handler[g].pay
                /\ handler'[g].seen = Fetched(handler[g].pay)
  <2> DEFINE s == Fetched(handler[h].pay)
  <2>1. ASSUME Respond(h) PROVE Same BY <1>1, <2>1
  <2>2. ASSUME NEW pc, handler' = [handler EXCEPT ![h].pc = pc, ![h].seen = s]
        PROVE  g # h => handler'[g] = handler[g]
    BY <1>0, <2>2
  <2>3. ASSUME NEW pc, handler' = [handler EXCEPT ![h].pc = pc, ![h].seen = s], g = h
        PROVE  handler'[g].pay = handler[g].pay /\ handler'[g].seen = s
    <3>1. handler'[g] = [handler[g] EXCEPT !.pc = pc, !.seen = s] BY <1>0, <2>3
    <3> HIDE DEF s
    <3> QED BY <1>0, <3>1 DEF HandlerRecord
  <2>4. \/ Respond(h)
        \/ /\ handler[h].pc \in {"fetching", "verifying"}
           /\ \E pc \in Informed : handler' = [handler EXCEPT ![h].pc = pc, ![h].seen = s]
    BY <1>4 DEF Fetch, VerifyFetch, Informed
  <2> HIDE DEF s, Same
  <2>5. \/ handler'[g] = handler[g]
        \/ g = h /\ handler[h].pc \in {"fetching", "verifying"}
           /\ handler'[g].pay = handler[g].pay /\ handler'[g].seen = s
        \/ Same
    <3>1. CASE Respond(h) BY <2>1, <3>1
    <3>2. CASE ~Respond(h)
      <4>1. PICK pc \in Informed : handler' = [handler EXCEPT ![h].pc = pc, ![h].seen = s]
        BY <2>4, <3>2
      <4>2. handler[h].pc \in {"fetching", "verifying"} BY <2>4, <3>2
      <4>3. g # h => handler'[g] = handler[g] BY <2>2, <4>1
      <4>4. g = h => handler'[g].pay = handler[g].pay /\ handler'[g].seen = s BY <2>3, <4>1
      <4> QED BY <4>2, <4>3, <4>4
    <3> QED BY <3>1, <3>2
  <2> QED BY <2>5 DEF Same, s
<1>5. ASSUME NEW h \in Handler, FindIntent(h) \/ VerifyClaim(h)
      PROVE  \/ Same
             \/ /\ handler[g].pc \in Informed /\ handler'[g].pay = handler[g].pay
                /\ handler'[g].seen = handler[g].seen
  <2>1. ASSUME Respond(h) PROVE Same BY <1>1, <2>1
  <2>2. ASSUME NEW pc, NEW due,
               \/ handler' = [handler EXCEPT ![h].pc = pc]
               \/ handler' = [handler EXCEPT ![h].pc = pc, ![h].due = due]
        PROVE  /\ g # h => handler'[g] = handler[g]
               /\ handler'[g].pay = handler[g].pay /\ handler'[g].seen = handler[g].seen
    <3>1. g # h => handler'[g] = handler[g] BY <1>0, <2>2
    <3>2. g = h => \/ handler'[g] = [handler[g] EXCEPT !.pc = pc]
                   \/ handler'[g] = [handler[g] EXCEPT !.pc = pc, !.due = due]
      BY <1>0, <2>2
    <3> QED BY <1>0, <3>1, <3>2 DEF HandlerRecord
  <2>3. \/ Respond(h)
        \/ /\ handler[h].pc \in Informed
           /\ \E pc, due : \/ handler' = [handler EXCEPT ![h].pc = pc]
                           \/ handler' = [handler EXCEPT ![h].pc = pc, ![h].due = due]
    BY <1>5 DEF FindIntent, VerifyClaim, Goto, Informed
  <2> HIDE DEF Same
  <2>4. \/ Same
        \/ handler'[g] = handler[g]
        \/ g = h /\ handler[h].pc \in Informed
           /\ handler'[g].pay = handler[g].pay /\ handler'[g].seen = handler[g].seen
    <3>1. CASE Respond(h) BY <2>1, <3>1
    <3>2. CASE ~Respond(h)
      <4>1. PICK pc, due : \/ handler' = [handler EXCEPT ![h].pc = pc]
                           \/ handler' = [handler EXCEPT ![h].pc = pc, ![h].due = due]
        BY <2>3, <3>2
      <4>2. handler[h].pc \in Informed BY <2>3, <3>2
      <4>3. /\ g # h => handler'[g] = handler[g]
            /\ handler'[g].pay = handler[g].pay /\ handler'[g].seen = handler[g].seen
        BY <2>2, <4>1
      <4> QED BY <4>2, <4>3
    <3> QED BY <3>1, <3>2
  <2> QED BY <2>4 DEF Same
<1>6. ASSUME NEW h \in Handler,
             \/ FinishSession(h) \/ RecordNothing(h) \/ ApplyFails(h) \/ SettleRefund(h)
             \/ SettleFails(h) \/ ApplyRefundOutcome(h) \/ RefundOutcomeFails(h) \/ Die(h)
      PROVE  Same
  BY <1>1, <1>6 DEF FinishSession, RecordNothing, ApplyFails, SettleRefund, SettleFails,
                    ApplyRefundOutcome, RefundOutcomeFails, Die
<1>7. ASSUME NEW h \in Handler, FindAttempt(h) PROVE Same
  BY <1>1, <1>2, <1>7 DEF FindAttempt, Informed
<1>8. ASSUME NEW h \in Handler, NEW o, FetchRefund(h) \/ CallRefund(h, o) PROVE Same
  <2>1. PICK pc \in {"finding refund", "settling"}, s \in {credit, credit'} :
          handler' = [handler EXCEPT ![h].pc = pc, ![h].seen = s]
    BY <1>8 DEF FetchRefund, CallRefund
  <2>2. handler'[g] = IF g = h THEN [handler[g] EXCEPT !.pc = pc, !.seen = s] ELSE handler[g]
    BY <1>0, <2>1
  <2>3. [handler[g] EXCEPT !.pc = pc, !.seen = s].pc = pc BY <1>0 DEF HandlerRecord
  <2> QED BY <2>2, <2>3 DEF Informed
<1>9. ASSUME NEW h \in Handler, NEW lost, RecordSuccess(h, lost) \/ RecordFailure(h, lost)
      PROVE  Same
  <2>1. handler'[g] = Idle \/ handler'[g] = handler[g]
    BY <1>9 DEF RecordSuccess, RecordFailure, Commit
  <2> QED BY <1>0, <2>1 DEF Informed
<1>10. ASSUME World PROVE handler'[g] = handler[g]
  BY <1>10 DEF World, Pay, PayEnds, CreditEnds, Cancel
<1>11. UNCHANGED vars => handler'[g] = handler[g] BY DEF vars
<1> HIDE DEF Same
<1>12. \A h \in Handler : Continue(h) =>
         \/ Same
         \/ /\ handler[g].pc \in {"fetching", "verifying"} /\ handler'[g].pay = handler[g].pay
            /\ handler'[g].seen = Fetched(handler[g].pay)
         \/ /\ handler[g].pc \in Informed /\ handler'[g].pay = handler[g].pay
            /\ handler'[g].seen = handler[g].seen
  BY <1>4, <1>5, <1>6, <1>7, <1>8, <1>9 DEF Continue
<1> QED BY <1>3, <1>6, <1>10, <1>11, <1>12 DEF Next, Same

\* How a payment ended is final.
LEMMA EndedStays ==
  ASSUME PInv, [Next]_vars, NEW p \in Payment, pay[p].status = "FAILED"
  PROVE  pay'[p].status = "FAILED"
<1>1. pay \in [Payment -> [status : PayStatus, amount : Nat]] BY DEF PInv, TypeOK
<1>2. ASSUME NEW q \in Payment, NEW a \in Charge, Pay(q, a) PROVE pay'[p] = pay[p]
  BY <1>1, <1>2 DEF Pay
<1>3. ASSUME NEW q \in Payment, NEW o, PayEnds(q, o) PROVE pay'[p] = pay[p]
  BY <1>1, <1>3 DEF PayEnds
<1>4. ASSUME NEW h \in Handler, Begin(h) \/ Die(h) PROVE pay' = pay
  BY <1>4 DEF Begin, BeginSession, BeginRefund, Deliver, Verify, Die, providerVars
<1>5. ASSUME NEW h \in Handler, Continue(h) PROVE pay' = pay
  BY <1>5 DEF Continue, FinishSession, Fetch, FindIntent, VerifyFetch, VerifyClaim, RecordSuccess,
              RecordFailure, RecordNothing, ApplyFails, CallRefund, SettleRefund, SettleFails,
              FetchRefund, FindAttempt, ApplyRefundOutcome, RefundOutcomeFails, providerVars
<1>6. ASSUME World PROVE pay'[p] = pay[p]
  BY <1>2, <1>3, <1>6 DEF World, CreditEnds, Cancel, providerVars
<1>7. UNCHANGED vars => pay' = pay BY DEF vars, providerVars
<1> QED BY <1>4, <1>5, <1>6, <1>7 DEF Next

LEMMA NextTold == PInv /\ Told /\ [Next]_vars => Told'
<1> SUFFICES ASSUME PInv, Told, [Next]_vars, NEW g \in Handler,
                    handler'[g].pc \in Informed, handler'[g].seen = "FAILED"
             PROVE  pay'[handler'[g].pay].status = "FAILED"
  BY DEF Told
<1>1. handler[g].pc \in Informed \cup {"fetching", "verifying"} => handler[g].pay \in Payment
  BY DEF PInv, Knows, Informed, AboutPayment
<1>2. handler[g].pay \in Payment /\ Fetched(handler[g].pay) = "FAILED"
      => pay[handler[g].pay].status = "FAILED"
  BY DEF Fetched
<1>3. /\ handler'[g].pay = handler[g].pay /\ handler[g].pay \in Payment
      /\ pay[handler[g].pay].status = "FAILED"
  BY <1>1, <1>2, Learns DEF Told
<1> QED BY <1>3, EndedStays

Aside == UNCHANGED <<txn, item, held>> /\ order'.status = order.status /\ order'.paid = order.paid

\* The steps that write an outcome, an item, a hold or what became of the order.
LEMMA BookSteps ==
  ASSUME PInv, [Next]_vars
  PROVE  \/ Aside
         \/ \E h \in Handler, lost \in SUBSET Handler :
              RecordSuccess(h, lost) \/ RecordFailure(h, lost)
         \/ \E S \in SUBSET Item : Cancel(S)
<1>1. ASSUME NEW h \in Handler, Begin(h) \/ Die(h) PROVE Aside
  BY <1>1 DEF Aside, Begin, BeginSession, BeginRefund, Deliver, Verify, Die, orderVars
<1>2. ASSUME NEW h \in Handler, SettleRefund(h) \/ ApplyRefundOutcome(h) PROVE Aside
  BY <1>2 DEF Aside, SettleRefund, ApplyRefundOutcome, PInv, TypeOK
<1>3. ASSUME NEW h \in Handler, Continue(h)
      PROVE  Aside \/ \E lost \in SUBSET Overlapping(h) : RecordSuccess(h, lost) \/ RecordFailure(h, lost)
  BY <1>2, <1>3 DEF Aside, Continue, FinishSession, Fetch, FindIntent, VerifyFetch, VerifyClaim,
              RecordNothing, ApplyFails, CallRefund, SettleFails, FetchRefund, FindAttempt,
              RefundOutcomeFails, orderVars
<1>4. ASSUME World PROVE Aside \/ \E S \in SUBSET Item : Cancel(S)
  BY <1>4 DEF Aside, World, Pay, PayEnds, CreditEnds, orderVars
<1>5. UNCHANGED vars => Aside BY DEF Aside, vars, orderVars
<1>6. \A h \in Handler : Overlapping(h) \subseteq Handler BY DEF Overlapping
<1> QED BY <1>1, <1>3, <1>4, <1>5, <1>6 DEF Next

LEMMA FailureStays ==
  ASSUME PInv, [Next]_vars, FailedForGood
  PROVE  FailedForGood'
<1>1. PICK p \in Payment : txn[p] = "FAILED" /\ pay[p].status = "FAILED" BY DEF FailedForGood
<1>2. ASSUME NEW h \in Handler, NEW lost \in SUBSET Handler,
             RecordSuccess(h, lost) \/ RecordFailure(h, lost)
      PROVE  txn'[p] = txn[p]
  BY <1>1, <1>2 DEF RecordSuccess, RecordFailure, Storable, PInv, TypeOK
<1>3. ASSUME NEW S \in SUBSET Item, Cancel(S) PROVE txn' = txn
  BY <1>3 DEF Cancel
<1>4. txn'[p] = txn[p] BY <1>2, <1>3, BookSteps DEF Aside
<1> QED BY <1>1, <1>4, EndedStays DEF FailedForGood

\* recordSuccess confirms what has not been cancelled; the order is paid, or is by now.
LEMMA SuccessCalm ==
  ASSUME PInv, Calm, [Next]_vars, NEW h \in Handler, NEW lost \in SUBSET Handler,
         RecordSuccess(h, lost)
  PROVE  Ends' /\ InOrder'
<1>1. FailedForGood => FailedForGood' BY FailureStays
<1>2. order \in OrderRecord /\ item \in [Item -> {"CREATED", "CONFIRMED", "CANCELLED"}]
  BY DEF PInv, TypeOK, OrderRecord
<1>3. \A i \in Item : (item'[i] = "CANCELLED") <=> (item[i] = "CANCELLED")
  BY <1>2 DEF RecordSuccess
<1>4. held' = held BY DEF RecordSuccess
<1>5. CASE order.status = "PENDING_PAYMENT" /\ handler[h].due
  <2>1. order'.status = "CONFIRMED" /\ order'.paid = Amount
    BY <1>2, <1>5 DEF RecordSuccess, OrderRecord
  <2>2. Ends' BY <2>1 DEF Ends
  <2>3. Stocked => Stocked' BY <1>3, <1>4, <1>5, <2>1 DEF Stocked, Dead
  <2>4. ItemsFollowOrder' BY <2>1, AmountType DEF ItemsFollowOrder
  <2> QED BY <1>1, <2>2, <2>3, <2>4 DEF Calm, InOrder
<1>6. CASE ~(order.status = "PENDING_PAYMENT" /\ handler[h].due)
  <2>1. order' = order BY <1>6 DEF RecordSuccess
  <2>2. Ends' BY <1>1, <1>3, <2>1 DEF Ends, Calm
  <2>3. Stocked => Stocked' BY <1>3, <1>4, <2>1 DEF Stocked
  <2>4. ASSUME ItemsFollowOrder, ~FailedForGood PROVE ItemsFollowOrder'
    <3>1. CASE ~handler[h].due
      <4>1. \A i \in Item : item'[i] = item[i] BY <1>2, <3>1 DEF RecordSuccess
      <4> QED BY <2>1, <2>4, <4>1 DEF ItemsFollowOrder
    <3>2. CASE order.status = "CANCELLED"
      <4>1. \A i \in Item : item'[i] = "CANCELLED" BY <1>3, <3>2 DEF Ends, Calm
      <4> QED BY <4>1 DEF ItemsFollowOrder
    <3>3. CASE order.status \in {"CONFIRMED", "CANCELLATION_REQUESTED"}
      <4>1. order.paid = Amount BY <3>3 DEF PInv, Books, PaidOnRecord
      <4> QED BY <2>1, <4>1, AmountType DEF ItemsFollowOrder
    <3>4. order.status # "PAYMENT_FAILED" BY <2>4 DEF Ends, Calm
    <3> QED BY <1>2, <1>6, <3>1, <3>2, <3>3, <3>4 DEF OrderRecord, OrderStatus
  <2> QED BY <1>1, <2>2, <2>3, <2>4 DEF Calm, InOrder
<1> QED BY <1>5, <1>6

\* recordFailure ends the order and takes its holds only with a failure for good.
LEMMA FailureCalm ==
  ASSUME PInv, Calm, [Next]_vars, NEW h \in Handler, NEW lost \in SUBSET Handler,
         RecordFailure(h, lost)
  PROVE  Ends' /\ InOrder'
<1>1. FailedForGood => FailedForGood' BY FailureStays
<1>2. order \in OrderRecord /\ item' = item BY DEF PInv, TypeOK, OrderRecord, RecordFailure
<1>3. CASE handler[h].seen = "FAILED"
  <2> DEFINE p == handler[h].pay
  <2>1. p \in Payment /\ pay[p].status = "FAILED"
    BY <1>3 DEF RecordFailure, PInv, Knows, AboutPayment, Calm, Told, Informed
  <2>2. txn'[p] = "FAILED" /\ pay' = pay
    BY <2>1 DEF RecordFailure, PInv, TypeOK, providerVars
  <2>3. FailedForGood' BY <2>1, <2>2 DEF FailedForGood
  <2>4. order'.status = "CANCELLED" => order.status = "CANCELLED"
    BY <1>2 DEF RecordFailure, OrderRecord
  <2> QED BY <1>2, <2>3, <2>4 DEF Ends, InOrder, Calm
<1>4. CASE handler[h].seen # "FAILED"
  <2>1. order' = order /\ held' = held BY <1>4 DEF RecordFailure
  <2> QED BY <1>1, <1>2, <2>1 DEF Ends, Calm, InOrder, Stocked, ItemsFollowOrder
<1> QED BY <1>3, <1>4

\* cancel takes the holds of the items it cancels.
LEMMA CancelCalm ==
  ASSUME PInv, Calm, [Next]_vars, NEW S \in SUBSET Item, Cancel(S)
  PROVE  Ends' /\ InOrder'
<1>1. FailedForGood => FailedForGood' BY FailureStays
<1> DEFINE gone == {i \in S : item[i] # "CANCELLED"}
<1>2. order \in OrderRecord /\ item \in [Item -> {"CREATED", "CONFIRMED", "CANCELLED"}]
  BY DEF PInv, TypeOK, OrderRecord
<1>3. /\ order.status \in {"PENDING_PAYMENT", "CONFIRMED"}
      /\ item' = [i \in Item |-> IF i \in gone THEN "CANCELLED" ELSE item[i]]
      /\ held' = held \ S
      /\ order'.paid = order.paid /\ order'.status # "PAYMENT_FAILED"
      /\ order'.status = "CANCELLED" => \A i \in Item \ gone : item[i] = "CANCELLED"
  BY <1>2 DEF Cancel, OrderRecord
<1>4. \A i \in Item : /\ item'[i] # "CANCELLED" => i \notin S /\ item[i] # "CANCELLED"
                      /\ item'[i] = "CONFIRMED" => item[i] = "CONFIRMED"
  BY <1>3
<1>5. Ends' BY <1>3 DEF Ends
<1>6. Stocked => Stocked' BY <1>3, <1>4 DEF Stocked, Dead
<1>7. ItemsFollowOrder => ItemsFollowOrder' BY <1>3, <1>4 DEF ItemsFollowOrder
<1> QED BY <1>1, <1>5, <1>6, <1>7 DEF Calm, InOrder

LEMMA NextCalm == PInv /\ Calm /\ [Next]_vars => Calm'
<1> SUFFICES ASSUME PInv, Calm, [Next]_vars PROVE Calm' OBVIOUS
<1>1. Told' BY NextTold DEF Calm
<1>2. CASE Aside
  <2>1. FailedForGood => FailedForGood' BY FailureStays
  <2>2. Ends' /\ (Stocked => Stocked') /\ (ItemsFollowOrder => ItemsFollowOrder')
    BY <1>2, <2>1 DEF Aside, Ends, Stocked, ItemsFollowOrder, Calm
  <2> QED BY <1>1, <2>1, <2>2 DEF Calm, InOrder
<1> QED BY <1>1, <1>2, BookSteps, SuccessCalm, FailureCalm, CancelCalm DEF Calm

LEMMA InitCalm == Init => Calm
  BY DEF Init, Calm, InOrder, Told, Ends, Stocked, ItemsFollowOrder, Idle, Informed

LEMMA AlwaysCalm == Spec => []Calm
BY InitP, NextP, InitCalm, NextCalm, PTL DEF Spec

\* An order that is paid keeps its stock, and only a paid order has confirmed items, unless a
\* payment of it has failed for good: whatever webhooks, verifications, retries, sessions and
\* cancellations overlap, recordFailure (payments.service.ts:572) and what it leaves behind it
\* is the only way to lose either.
THEOREM PaymentsFailureIsToBlame == Spec => [](FailedForGood \/ (PaidKeepsStock /\ ItemsFollowOrder))
<1>1. Calm => FailedForGood \/ (PaidKeepsStock /\ ItemsFollowOrder)
  BY DEF Calm, InOrder, Stocked, PaidKeepsStock, Dead
<1> QED BY <1>1, AlwaysCalm, PTL
=============================================================================
