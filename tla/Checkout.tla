------------------------------ MODULE Checkout ------------------------------
(***************************************************************************)
(* Checkout sessions (checkout.service.ts, commerce.checkout_sessions): a  *)
(* customer starts a session, changes it, and turns it into an order.      *)
(*                                                                         *)
(* Requests run concurrently and in several steps: start and update write  *)
(* in one transaction, read outside it, and reprice in a second one, so    *)
(* another request, the hold sweeper or the expiry job may act between any *)
(* two of them.  Transactions run READ COMMITTED; placeOrder locks the     *)
(* session row from its checks to its commit.  A statement that releases   *)
(* "the ACTIVE holds" chooses them from its snapshot and then locks them   *)
(* one by one, and release_reservation gives back a hold that has become   *)
(* CONFIRMED by then too (migration 20260826100000).                       *)
(*                                                                         *)
(* A session is for one unit of one listing.  Prices are not computed: a   *)
(* quote remembers what it was computed for.  Requests that are refused    *)
(* before they change anything are left out.  A session's holds share one  *)
(* idempotency key, so only its latest one matters and the older are dead. *)
(***************************************************************************)
EXTENDS FiniteSets, Integers

CONSTANTS
  Session,      \* checkout session ids
  User,
  Owner,        \* whose session it is
  Request,      \* concurrent API calls
  Address,      \* delivery addresses
  Units,        \* units of the listing at its warehouse
  Cashable,     \* the listing may be paid in cash (seller_listings.cod_allowed)
  Trusted,      \* users the COD engine does not block
  CouponLimit,  \* total_usage_limit of the coupon
  CouponInput,  \* what callers do with the coupon
  MaxCalls,     \* bound: API calls
  MaxFaults,    \* bound: requests that die before their end
  None

ASSUME CheckoutAssumption ==
  /\ Owner \in [Session -> User]
  /\ IsFiniteSet(Session)
  /\ Units \in Nat /\ CouponLimit \in Nat /\ MaxCalls \in Nat /\ MaxFaults \in Nat
  /\ Cashable \in BOOLEAN
  /\ CouponInput \subseteq {"keep", "give", "clear"}
  /\ None \notin Address \cup Session \cup Request \cup {"UPI", "COD"}

Method == {"UPI", "COD"}
Editable == {"INITIATED", "OFFERS_APPLIED"}
Closed == {"COMPLETED", "ABANDONED", "EXPIRED"}

VARIABLES
  session,  \* checkout_sessions with its item and its latest price snapshot
  expired,  \* sessions past expires_at
  hold,     \* status of a session's latest reservation
  lapsed,   \* sessions whose latest hold is past expires_at
  free,     \* available_quantity
  order,    \* the order of a session
  lock,     \* which placeOrder has the session row
  req,      \* requests under way
  calls,    \* calls left
  faults    \* faults left

vars == <<session, expired, hold, lapsed, free, order, lock, req, calls, faults>>

-----------------------------------------------------------------------------
Quote == [address : Address \cup {None}, method : Method \cup {None}]
NoQuote == [address |-> None, method |-> None]

SessionRecord ==
  [status : {"absent"} \cup Editable \cup Closed,
   address : Address \cup {None},
   method : Method \cup {None},
   quote : Quote,       \* what the totals were computed for
   cash : BOOLEAN,      \* cod_decision is not COD_BLOCKED
   valid : BOOLEAN,     \* the item's validation_status is VALID
   held : BOOLEAN,      \* the item names the session's latest hold
   coupon : BOOLEAN]    \* applied_coupon_id

NoSession ==
  [status |-> "absent", address |-> None, method |-> None, quote |-> NoQuote,
   cash |-> TRUE, valid |-> FALSE, held |-> FALSE, coupon |-> FALSE]

OrderRecord ==
  [method : Method \cup {None}, address : Address \cup {None}, quote : Quote,
   coupon : BOOLEAN, ended : BOOLEAN]

ASSUME NoOrderAssumption == None \notin OrderRecord

Verdict == {"VALID", "OUT_OF_STOCK", "COD_NOT_AVAILABLE"}

RequestRecord ==
  [pc : {"idle", "opening", "changing", "resolving", "rebuilding", "placing"},
   session : Session \cup {None},
   reserve : BOOLEAN,                  \* rebuild takes new holds
   address : Address \cup {None},      \* asked for, then the one read for pricing
   method : Method \cup {None},        \* asked for
   pay : Method \cup {None},           \* priced with
   coupon : {"keep", "give", "clear"}, \* asked for
   apply : BOOLEAN,                    \* the coupon is to be applied
   verdict : Verdict,
   bound : BOOLEAN,                    \* the hold was CONFIRMED when the request looked
   open : SUBSET Session]              \* sessions start is about to abandon

Idle ==
  [pc |-> "idle", session |-> None, reserve |-> FALSE, address |-> None, method |-> None,
   pay |-> None, coupon |-> "keep", apply |-> FALSE, verdict |-> "VALID", bound |-> FALSE,
   open |-> {}]

Coalesce(x, y) == IF x # None THEN x ELSE y

Ordered(s) == order[s] # None

\* coupons.usage_count: one more with every order that carries the coupon.
CouponUses == Cardinality({s \in Session : Ordered(s) /\ order[s].coupon})

Live(s) == hold[s] \in {"ACTIVE", "CONFIRMED"}

Calls == calls > 0 /\ calls' = calls - 1
Respond(r) == req' = [req EXCEPT ![r] = Idle]

-----------------------------------------------------------------------------
(* start *)

\* start reads which sessions of the user are open.
Open(r, s, a, c) ==
  /\ Calls
  /\ req[r].pc = "idle"
  /\ session[s].status = "absent"
  /\ \A q \in Request : req[q].session # s
  /\ req' = [req EXCEPT ![r] =
       [Idle EXCEPT !.pc = "opening", !.session = s, !.reserve = TRUE, !.address = a,
                    !.coupon = c,
                    !.open = {t \in Session : /\ Owner[t] = Owner[s]
                                              /\ session[t].status \in Editable
                                              /\ ~Ordered(t)}]]
  /\ UNCHANGED <<session, expired, hold, lapsed, free, order, lock, faults>>

\* abandonOpenSessions and the insert commit.  A hold of an open session goes back; if the
\* session was ordered since it was read, the hold is CONFIRMED, and goes back as well when
\* the releasing statement still saw it ACTIVE.  The sessions are closed by id.
Abandon(r) ==
  LET s == req[r].session
      open == req[r].open
  IN /\ req[r].pc = "opening"
     /\ \A t \in open : lock[t] = None
     /\ \E late \in SUBSET {t \in open : hold[t] = "CONFIRMED"} :
          LET back == late \cup {t \in open : hold[t] = "ACTIVE"}
          IN /\ hold' = [t \in Session |-> IF t \in back THEN "RELEASED" ELSE hold[t]]
             /\ free' = free + Cardinality(back)
     /\ session' = [t \in Session |->
          IF t = s THEN [NoSession EXCEPT !.status = "INITIATED", !.address = req[r].address]
          ELSE IF t \in open THEN [session[t] EXCEPT !.status = "ABANDONED"]
          ELSE session[t]]
     /\ req' = [req EXCEPT ![r].pc = "resolving"]
     /\ UNCHANGED <<expired, lapsed, order, lock, calls, faults>>

-----------------------------------------------------------------------------
(* update *)

\* update loads the session and refuses one that is closed or past its end.
Change(r, s, a, m, c) ==
  /\ Calls
  /\ req[r].pc = "idle"
  /\ session[s].status \in Editable
  /\ s \notin expired
  /\ req' = [req EXCEPT ![r] =
       [Idle EXCEPT !.pc = "changing", !.session = s, !.reserve = (a # None), !.address = a,
                    !.method = m, !.pay = Coalesce(m, session[s].method), !.coupon = c]]
  /\ UNCHANGED <<session, expired, hold, lapsed, free, order, lock, faults>>

\* The choices are written, whatever the session has become.
Write(r) ==
  LET s == req[r].session
  IN /\ req[r].pc = "changing"
     /\ lock[s] = None
     /\ session' = [session EXCEPT ![s].address = Coalesce(req[r].address, @),
                                   ![s].method = Coalesce(req[r].method, @)]
     /\ req' = [req EXCEPT ![r].pc = "resolving"]
     /\ UNCHANGED <<expired, hold, lapsed, free, order, lock, calls, faults>>

-----------------------------------------------------------------------------
(* rebuild *)

\* resolveLines: what v_sellable_listings says of the listing, which counts out every unit
\* that is held, the session's own too.
VerdictFor(pay) ==
  IF free = 0 THEN "OUT_OF_STOCK"
  ELSE IF pay = "COD" /\ ~Cashable THEN "COD_NOT_AVAILABLE" ELSE "VALID"

\* rebuild reads the session again and resolves the line.
Resolve(r) ==
  LET s == req[r].session
      pay == Coalesce(req[r].pay, session[s].method)
  IN /\ req[r].pc = "resolving"
     /\ s \notin expired \/ session[s].status = "COMPLETED"
     /\ req' = [req EXCEPT ![r].pc = "rebuilding",
                           ![r].address = session[s].address,
                           ![r].pay = pay,
                           ![r].apply = \/ req[r].coupon = "give"
                                        \/ req[r].coupon = "keep" /\ session[s].coupon,
                           ![r].verdict = VerdictFor(pay),
                           ![r].bound = (hold[s] = "CONFIRMED")]
     /\ UNCHANGED <<session, expired, hold, lapsed, free, order, lock, calls, faults>>

\* It refuses a session past its end.
ResolveRefused(r) ==
  /\ req[r].pc = "resolving"
  /\ req[r].session \in expired /\ session[req[r].session].status # "COMPLETED"
  /\ Respond(r)
  /\ UNCHANGED <<session, expired, hold, lapsed, free, order, lock, calls, faults>>

\* The session row as the repricing transaction leaves it.  Its only line is VALID: with none
\* that is, computePricing has nothing to price and throws.
Repriced(r, held) ==
  LET s == req[r].session
  IN [session EXCEPT ![s] =
       [status |-> "OFFERS_APPLIED",
        address |-> session[s].address,
        method |-> req[r].pay,
        quote |-> [address |-> req[r].address, method |-> req[r].pay],
        cash |-> req[r].pay = "COD" => Owner[s] \in Trusted,
        valid |-> TRUE,
        held |-> held,
        coupon |-> req[r].apply /\ CouponUses < CouponLimit]]

\* A change of payment method or coupon carries the hold over.
Reprice(r) ==
  LET s == req[r].session
  IN /\ req[r].pc = "rebuilding"
     /\ lock[s] = None
     /\ req[r].verdict = "VALID"
     /\ ~req[r].reserve
     /\ session' = Repriced(r, session[s].held /\ hold[s] = "ACTIVE" /\ s \notin lapsed)
     /\ Respond(r)
     /\ UNCHANGED <<expired, hold, lapsed, free, order, lock, calls, faults>>

\* The hold that the release before reserve_stock gives back: an ACTIVE one, and one that
\* placeOrder confirmed after the releasing statement took its snapshot.
Released(r, late) ==
  LET s == req[r].session
  IN \/ hold[s] = "ACTIVE"
     \/ hold[s] = "CONFIRMED" /\ ~req[r].bound /\ late

\* Mutant: the replay check of reserve_stock knows ACTIVE holds only.
MutReserve(r, late) ==
  LET s == req[r].session
      back == Released(r, late)
      replay == FALSE
  IN /\ req[r].pc = "rebuilding"
     /\ lock[s] = None
     /\ req[r].verdict = "VALID"
     /\ req[r].reserve
     /\ replay \/ back \/ free > 0
     /\ hold' = IF replay THEN hold ELSE [hold EXCEPT ![s] = "ACTIVE"]
     /\ lapsed' = IF replay THEN lapsed ELSE lapsed \ {s}
     /\ free' = IF replay \/ back THEN free ELSE free - 1
     /\ session' = Repriced(r, TRUE)
     /\ Respond(r)
     /\ UNCHANGED <<expired, order, lock, calls, faults>>

\* A new session or address takes a new hold in place of the old one; a hold that is still
\* CONFIRMED under the session's key is returned as a replay.
Reserve(r, late) ==
  LET s == req[r].session
      back == Released(r, late)
      replay == hold[s] = "CONFIRMED" /\ ~back
  IN /\ req[r].pc = "rebuilding"
     /\ lock[s] = None
     /\ req[r].verdict = "VALID"
     /\ req[r].reserve
     /\ replay \/ back \/ free > 0
     /\ hold' = IF replay THEN hold ELSE [hold EXCEPT ![s] = "ACTIVE"]
     /\ lapsed' = IF replay THEN lapsed ELSE lapsed \ {s}
     /\ free' = IF replay \/ back THEN free ELSE free - 1
     /\ session' = Repriced(r, TRUE)
     /\ Respond(r)
     /\ UNCHANGED <<expired, order, lock, calls, faults>>

\* The transaction fails: computePricing throws when no line is VALID, or reserve_stock finds
\* the stock gone.  What update wrote before stays.
RebuildFails(r) ==
  LET s == req[r].session
  IN /\ req[r].pc = "rebuilding"
     /\ lock[s] = None
     /\ \/ req[r].verdict # "VALID"
        \/ req[r].reserve /\ ~Live(s) /\ free = 0
     /\ Respond(r)
     /\ UNCHANGED <<session, expired, hold, lapsed, free, order, lock, calls, faults>>

-----------------------------------------------------------------------------
(* placeOrder *)

\* placeOrder locks the session row and checks the session, its item and its hold.  A session
\* that has an order answers with it and changes nothing, so that case is left out.
Lock(r, s) ==
  /\ Calls
  /\ req[r].pc = "idle"
  /\ lock[s] = None
  /\ ~Ordered(s)
  /\ s \notin expired
  /\ session[s].status = "OFFERS_APPLIED"
  /\ session[s].method \in Method
  /\ session[s].method = "COD" => session[s].cash
  /\ session[s].valid /\ session[s].held
  /\ hold[s] = "ACTIVE" /\ s \notin lapsed
  /\ lock' = [lock EXCEPT ![s] = r]
  /\ req' = [req EXCEPT ![r] = [Idle EXCEPT !.pc = "placing", !.session = s]]
  /\ UNCHANGED <<session, expired, hold, lapsed, free, order, faults>>

\* Mutant: the number of confirmed holds is not checked.
MutPlace(r) ==
  LET s == req[r].session
  IN /\ req[r].pc = "placing"
     /\ session[s].method # "COD"
     /\ hold' = IF hold[s] = "ACTIVE" THEN [hold EXCEPT ![s] = "CONFIRMED"] ELSE hold
     /\ lapsed' = lapsed \ {s}
     /\ order' = [order EXCEPT ![s] =
          [method |-> session[s].method, address |-> session[s].address,
           quote |-> session[s].quote, coupon |-> session[s].coupon, ended |-> FALSE]]
     /\ session' = [session EXCEPT ![s].status = "COMPLETED"]
     /\ lock' = [lock EXCEPT ![s] = None]
     /\ Respond(r)
     /\ UNCHANGED <<expired, free, calls, faults>>

\* confirm_reservations raises unless the hold is still ACTIVE; then the order, the session's
\* end and the coupon's redemption commit together.
Place(r) ==
  LET s == req[r].session
  IN /\ req[r].pc = "placing"
     /\ hold[s] = "ACTIVE" /\ session[s].method # "COD"
     /\ hold' = [hold EXCEPT ![s] = "CONFIRMED"]
     /\ lapsed' = lapsed \ {s}
     /\ order' = [order EXCEPT ![s] =
          [method |-> session[s].method, address |-> session[s].address,
           quote |-> session[s].quote, coupon |-> session[s].coupon, ended |-> FALSE]]
     /\ session' = [session EXCEPT ![s].status = "COMPLETED"]
     /\ lock' = [lock EXCEPT ![s] = None]
     /\ Respond(r)
     /\ UNCHANGED <<expired, free, calls, faults>>

\* The transaction fails: the hold is gone, or the order is a cash one, whose insert says
\* COD_PENDING where the CHECK of orders.payment_status knows PENDING_COD.
PlaceFails(r) ==
  LET s == req[r].session
  IN /\ req[r].pc = "placing"
     /\ hold[s] # "ACTIVE" \/ session[s].method = "COD"
     /\ lock' = [lock EXCEPT ![s] = None]
     /\ Respond(r)
     /\ UNCHANGED <<session, expired, hold, lapsed, free, order, calls, faults>>

-----------------------------------------------------------------------------
(* Failures, time and the jobs *)

\* A request dies: its process, its connection, or its transaction as a deadlock's victim.
Die(r) ==
  /\ req[r].pc # "idle"
  /\ faults > 0
  /\ faults' = faults - 1
  /\ lock' = [s \in Session |-> IF lock[s] = r THEN None ELSE lock[s]]
  /\ Respond(r)
  /\ UNCHANGED <<session, expired, hold, lapsed, free, order, calls>>

SessionExpires(s) ==
  /\ session[s].status # "absent"
  /\ s \notin expired
  /\ expired' = expired \cup {s}
  /\ UNCHANGED <<session, hold, lapsed, free, order, lock, req, calls, faults>>

HoldLapses(s) ==
  /\ hold[s] = "ACTIVE" /\ s \notin lapsed
  /\ lapsed' = lapsed \cup {s}
  /\ UNCHANGED <<session, expired, hold, free, order, lock, req, calls, faults>>

\* Mutant: holds of sessions that have an order are spared.
MutSweep(s) ==
  /\ hold[s] = "ACTIVE" /\ s \in lapsed /\ ~Ordered(s)
  /\ hold' = [hold EXCEPT ![s] = "RELEASED"]
  /\ free' = free + 1
  /\ UNCHANGED <<session, expired, lapsed, order, lock, req, calls, faults>>

\* The hold sweeper.
Sweep(s) ==
  /\ hold[s] = "ACTIVE" /\ s \in lapsed
  /\ hold' = [hold EXCEPT ![s] = "RELEASED"]
  /\ free' = free + 1
  /\ UNCHANGED <<session, expired, lapsed, order, lock, req, calls, faults>>

\* Mutant: sessions that are not priced yet are forgotten.
MutExpireSession(s) ==
  /\ lock[s] = None
  /\ session[s].status = "OFFERS_APPLIED"
  /\ ~Ordered(s)
  /\ s \in expired
  /\ session' = [session EXCEPT ![s].status = "EXPIRED"]
  /\ hold' = IF hold[s] = "ACTIVE" THEN [hold EXCEPT ![s] = "RELEASED"] ELSE hold
  /\ free' = IF hold[s] = "ACTIVE" THEN free + 1 ELSE free
  /\ UNCHANGED <<expired, lapsed, order, lock, req, calls, faults>>

\* The checkout expiry job.  It has the session row when it releases, so no order can be
\* placed in between.
ExpireSession(s) ==
  /\ lock[s] = None
  /\ session[s].status \in Editable
  /\ ~Ordered(s)
  /\ s \in expired
  /\ session' = [session EXCEPT ![s].status = "EXPIRED"]
  /\ hold' = IF hold[s] = "ACTIVE" THEN [hold EXCEPT ![s] = "RELEASED"] ELSE hold
  /\ free' = IF hold[s] = "ACTIVE" THEN free + 1 ELSE free
  /\ UNCHANGED <<expired, lapsed, order, lock, req, calls, faults>>

\* Mutant: the order takes over what its session says by now.
MutEndOrder(s) ==
  /\ Ordered(s)
  /\ ~order[s].ended
  /\ order' = [order EXCEPT ![s].ended = TRUE, ![s].method = session[s].method]
  /\ hold' = IF hold[s] = "CONFIRMED" THEN [hold EXCEPT ![s] = "RELEASED"] ELSE hold
  /\ free' = IF hold[s] = "CONFIRMED" THEN free + 1 ELSE free
  /\ UNCHANGED <<session, expired, lapsed, lock, req, calls, faults>>

\* The order is cancelled or its payment fails for good: holds bound to it go back.
EndOrder(s) ==
  /\ Ordered(s)
  /\ ~order[s].ended
  /\ order' = [order EXCEPT ![s].ended = TRUE]
  /\ hold' = IF hold[s] = "CONFIRMED" THEN [hold EXCEPT ![s] = "RELEASED"] ELSE hold
  /\ free' = IF hold[s] = "CONFIRMED" THEN free + 1 ELSE free
  /\ UNCHANGED <<session, expired, lapsed, lock, req, calls, faults>>

-----------------------------------------------------------------------------
Init ==
  /\ session = [s \in Session |-> NoSession]
  /\ expired = {}
  /\ hold = [s \in Session |-> "none"]
  /\ lapsed = {}
  /\ free = Units
  /\ order = [s \in Session |-> None]
  /\ lock = [s \in Session |-> None]
  /\ req = [r \in Request |-> Idle]
  /\ calls = MaxCalls
  /\ faults = MaxFaults

Call(r) ==
  \E s \in Session :
    \/ \E a \in Address, c \in CouponInput : Open(r, s, a, c)
    \/ \E a \in Address \cup {None}, m \in Method \cup {None}, c \in CouponInput :
         Change(r, s, a, m, c)
    \/ Lock(r, s)

Continue(r) ==
  \/ Abandon(r) \/ Write(r) \/ Resolve(r) \/ ResolveRefused(r)
  \/ Reprice(r) \/ RebuildFails(r)
  \/ \E late \in BOOLEAN : Reserve(r, late)
  \/ Place(r) \/ PlaceFails(r)

Tick(s) == SessionExpires(s) \/ HoldLapses(s) \/ Sweep(s) \/ ExpireSession(s)

Next ==
  \/ \E r \in Request : Call(r) \/ Continue(r) \/ Die(r)
  \/ \E s \in Session : Tick(s) \/ EndOrder(s)

Spec == Init /\ [][Next]_vars

\* Time passes, the jobs run, and a transaction that began ends.
Fairness ==
  /\ \A s \in Session : /\ WF_vars(SessionExpires(s)) /\ WF_vars(HoldLapses(s))
                        /\ WF_vars(Sweep(s)) /\ WF_vars(ExpireSession(s))
  /\ \A r \in Request : WF_vars(Continue(r))

FairSpec == Spec /\ Fairness

-----------------------------------------------------------------------------
(* Properties *)

TypeOK ==
  /\ session \in [Session -> SessionRecord]
  /\ expired \subseteq Session
  /\ hold \in [Session -> {"none", "ACTIVE", "CONFIRMED", "RELEASED"}]
  /\ lapsed \subseteq Session
  /\ free \in Nat
  /\ order \in [Session -> OrderRecord \cup {None}]
  /\ lock \in [Session -> Request \cup {None}]
  /\ req \in [Request -> RequestRecord]
  /\ calls \in Nat /\ faults \in Nat

\* Every unit is for sale or under exactly one hold, however requests, sweeper and jobs meet.
UnitsConserved == free + Cardinality({s \in Session : Live(s)}) = Units

\* An order comes into being together with the confirmation of a hold that was ACTIVE until
\* then, on a session that is completed by it and whose quote nothing blocks.
OrderTakesItsHold ==
  [][\A s \in Session :
       ~Ordered(s) /\ Ordered(s)' =>
         /\ hold[s] = "ACTIVE" /\ hold'[s] = "CONFIRMED"
         /\ session[s].status = "OFFERS_APPLIED" /\ session'[s].status = "COMPLETED"
         /\ session[s].valid]_vars

\* "The same session cannot produce two orders", and an order keeps what it was placed with.
OrderIsFinal ==
  [][\A s \in Session :
       Ordered(s) => /\ Ordered(s)'
                     /\ order'[s] = [order[s] EXCEPT !.ended = order'[s].ended]]_vars

\* A session that leads to no order is closed in the end ("would otherwise sit in an open
\* state forever").
SessionsClose ==
  \A s \in Session :
    session[s].status \in Editable /\ ~Ordered(s) ~> session[s].status \in Closed \/ Ordered(s)

\* A hold that is not confirmed gives its unit back in the end ("A crashed client can never
\* permanently hold stock").
HoldsEnd == \A s \in Session : hold[s] = "ACTIVE" ~> hold[s] # "ACTIVE"

-----------------------------------------------------------------------------
(* What comments and documents claim and the code does not keep; the README describes how
   each of them fails. *)

\* A standing order has its stock ("an order with unconfirmed stock" is to be impossible).
OrderKeepsStock ==
  \A s \in Session : Ordered(s) /\ ~order[s].ended => hold[s] = "CONFIRMED"

\* "A cash order is confirmed the moment it is placed", and so is any other: a placement
\* that passed the checks and keeps its hold to the end, and does not die, makes the order.
CheckedOrderIsPlaced ==
  [][\A r \in Request, s \in Session :
       /\ req[r].pc = "placing" /\ req[r].session = s /\ hold[s] = "ACTIVE"
       /\ req'[r].pc = "idle" /\ faults' = faults
       => Ordered(s)']_vars

\* A session that is closed stays closed and keeps its quote.
ClosedStaysClosed ==
  [][\A s \in Session :
       session[s].status \in Closed =>
         session'[s].status \in Closed /\ session'[s].quote = session[s].quote]_vars

\* An order goes where, and is paid how, its price was computed for.
PlacedAsPriced ==
  \A s \in Session :
    Ordered(s) => /\ order[s].quote.method = order[s].method
                  /\ order[s].quote.address = order[s].address

\* A change of the payment method of a session that holds its stock does not fail for want of
\* stock ("Changing the payment method must not silently drop the stock").
HeldStockSuffices ==
  [][\A r \in Request :
       LET s == req[r].session
       IN RebuildFails(r) /\ session[s].held /\ hold[s] = "ACTIVE" /\ s \notin lapsed =>
            req[r].reserve \/ req[r].verdict # "OUT_OF_STOCK"]_vars

\* The coupon is used no more often than its limit allows.
CouponWithinLimit == CouponUses <= CouponLimit
=============================================================================
