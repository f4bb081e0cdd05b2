---------------------- MODULE CheckoutAndPricing_proofs -----------------------
(***************************************************************************)
(* Proofs about Checkout: types, that no unit is lost or sold twice by the *)
(* holds, and that a session has one order for good.                       *)
(*                                                                         *)
(* Proofs about Money and Pricing: what sharing out an amount gives for    *)
(* any lines, weights and amount; then that every quote passes the CHECKs  *)
(* of the tables, that coupon, offer and charges are shared out to the     *)
(* paisa, and that promotions that do not exclude each other add up,       *)
(* whatever the carts, offers and charges.                                 *)
(***************************************************************************)
EXTENDS Checkout, Pricing, FiniteSetTheorems, WellFoundedInduction, TLAPS

USE DEF Method, Editable, Closed

-----------------------------------------------------------------------------
(* Types *)

LEMMA IdleType == Idle \in RequestRecord
  BY DEF Idle, RequestRecord, Verdict

LEMMA NoSessionType == NoSession \in SessionRecord
  BY DEF NoSession, SessionRecord, NoQuote, Quote

LEMMA InitType == Init => TypeOK
  BY CheckoutAssumption, IdleType, NoSessionType DEF Init, TypeOK

LEMMA CoalesceType ==
  ASSUME NEW S, NEW x \in S \cup {None}, NEW y \in S \cup {None}
  PROVE  Coalesce(x, y) \in S \cup {None}
  BY DEF Coalesce

LEMMA RespondType ==
  ASSUME TypeOK, NEW r \in Request, Respond(r)
  PROVE  req' \in [Request -> RequestRecord]
  BY IdleType DEF Respond, TypeOK

\* The fields of one request.
LEMMA ReqFields ==
  ASSUME TypeOK, NEW r \in Request
  PROVE  /\ req[r] \in RequestRecord
         /\ req[r].session \in Session \cup {None}
         /\ req[r].address \in Address \cup {None}
         /\ req[r].method \in Method \cup {None}
         /\ req[r].pay \in Method \cup {None}
         /\ req[r].open \in SUBSET Session
  BY DEF TypeOK, RequestRecord

\* A request that is under way is about a session.
Busy == \A r \in Request : req[r].pc # "idle" => req[r].session \in Session

LEMMA RepricedType ==
  ASSUME TypeOK, NEW r \in Request, req[r].session \in Session, NEW h \in BOOLEAN
  PROVE  Repriced(r, h) \in [Session -> SessionRecord]
<1> DEFINE s == req[r].session
<1>1. session[s] \in SessionRecord BY DEF TypeOK
<1>2. req[r].address \in Address \cup {None} /\ req[r].pay \in Method \cup {None} BY ReqFields
<1>3. [address |-> req[r].address, method |-> req[r].pay] \in Quote BY <1>2 DEF Quote
<1>4. session[s].address \in Address \cup {None} BY <1>1 DEF SessionRecord
<1> DEFINE x == [status |-> "OFFERS_APPLIED",
                 address |-> session[s].address,
                 method |-> req[r].pay,
                 quote |-> [address |-> req[r].address, method |-> req[r].pay],
                 cash |-> req[r].pay = "COD" => Owner[s] \in Trusted,
                 valid |-> TRUE,
                 held |-> h,
                 coupon |-> req[r].apply /\ CouponUses < CouponLimit]
<1>5. x \in SessionRecord BY <1>2, <1>3, <1>4 DEF SessionRecord
<1>6. Repriced(r, h) = [session EXCEPT ![s] = x] BY DEF Repriced
<1> HIDE DEF x
<1> QED BY <1>5, <1>6 DEF TypeOK

\* Card(S) for subsets of Session.
LEMMA CountType ==
  ASSUME NEW S \in SUBSET Session
  PROVE  IsFiniteSet(S) /\ Cardinality(S) \in Nat
  BY CheckoutAssumption, FS_Subset, FS_CardinalityType

TInv == TypeOK /\ Busy

LEMMA OpenT ==
  ASSUME TInv, NEW r \in Request, NEW s \in Session, NEW a \in Address, NEW c \in CouponInput,
         Open(r, s, a, c)
  PROVE  TInv'
<1> DEFINE open == {t \in Session : /\ Owner[t] = Owner[s]
                                    /\ session[t].status \in Editable
                                    /\ ~Ordered(t)}
           x == [Idle EXCEPT !.pc = "opening", !.session = s, !.reserve = TRUE, !.address = a,
                             !.coupon = c, !.open = open]
<1>1. open \in SUBSET Session OBVIOUS
<1>2. c \in {"keep", "give", "clear"} BY CheckoutAssumption
<1>3. req' = [req EXCEPT ![r] = x] BY DEF Open
<1> HIDE DEF open
<1>4. x \in RequestRecord /\ x.session = s
  BY <1>1, <1>2 DEF RequestRecord, Idle, Verdict
<1> HIDE DEF x
<1>5. req' \in [Request -> RequestRecord] BY <1>3, <1>4 DEF TInv, TypeOK
<1>6. Busy' BY <1>3, <1>4 DEF TInv, TypeOK, Busy
<1>7. calls' \in Nat BY DEF Open, Calls, TInv, TypeOK
<1> QED BY <1>5, <1>6, <1>7 DEF Open, TInv, TypeOK

LEMMA ChangeT ==
  ASSUME TInv, NEW r \in Request, NEW s \in Session, NEW a \in Address \cup {None},
         NEW m \in Method \cup {None}, NEW c \in CouponInput, Change(r, s, a, m, c)
  PROVE  TInv'
<1> DEFINE p == Coalesce(m, session[s].method)
           x == [Idle EXCEPT !.pc = "changing", !.session = s, !.reserve = (a # None),
                             !.address = a, !.method = m, !.pay = p, !.coupon = c]
<1>1. session[s].method \in Method \cup {None} BY DEF TInv, TypeOK, SessionRecord
<1>2. p \in Method \cup {None} BY <1>1, CoalesceType
<1>3. c \in {"keep", "give", "clear"} BY CheckoutAssumption
<1>4. req' = [req EXCEPT ![r] = x] BY DEF Change
<1> HIDE DEF p
<1>5. x \in RequestRecord /\ x.session = s
  BY <1>2, <1>3 DEF RequestRecord, Idle, Verdict
<1> HIDE DEF x
<1>6. req' \in [Request -> RequestRecord] BY <1>4, <1>5 DEF TInv, TypeOK
<1>7. Busy' BY <1>4, <1>5 DEF TInv, TypeOK, Busy
<1>8. calls' \in Nat BY DEF Change, Calls, TInv, TypeOK
<1> QED BY <1>6, <1>7, <1>8 DEF Change, TInv, TypeOK

LEMMA LockT ==
  ASSUME TInv, NEW r \in Request, NEW s \in Session, Lock(r, s)
  PROVE  TInv'
<1> DEFINE x == [Idle EXCEPT !.pc = "placing", !.session = s]
<1>1. x \in RequestRecord /\ x.session = s BY DEF RequestRecord, Idle, Verdict
<1>2. req' = [req EXCEPT ![r] = x] BY DEF Lock
<1> HIDE DEF x
<1>3. req' \in [Request -> RequestRecord] BY <1>1, <1>2 DEF TInv, TypeOK
<1>4. Busy' BY <1>1, <1>2 DEF TInv, TypeOK, Busy
<1>5. calls' \in Nat BY DEF Lock, Calls, TInv, TypeOK
<1> QED BY <1>3, <1>4, <1>5 DEF Lock, TInv, TypeOK

\* A request that is answered is idle.
LEMMA RespondT ==
  ASSUME TInv, NEW r \in Request, Respond(r)
  PROVE  req' \in [Request -> RequestRecord] /\ Busy'
<1>1. Idle.pc = "idle" BY DEF Idle
<1>2. Busy' BY <1>1 DEF TInv, TypeOK, Busy, Respond
<1> QED BY <1>2, RespondType DEF TInv

\* The holds that start gives back, and their number.
AbandonedHolds(r, late) == late \cup {t \in req[r].open : hold[t] = "ACTIVE"}

LEMMA AbandonT ==
  ASSUME TInv, NEW r \in Request, Abandon(r)
  PROVE  TInv'
<1> DEFINE s == req[r].session
           open == req[r].open
<1>1. s \in Session /\ open \in SUBSET Session /\ req[r] \in RequestRecord
  BY ReqFields DEF TInv, Busy, Abandon
<1>2. PICK late \in SUBSET {t \in open : hold[t] = "CONFIRMED"} :
        /\ hold' = [t \in Session |->
                      IF t \in AbandonedHolds(r, late) THEN "RELEASED" ELSE hold[t]]
        /\ free' = free + Cardinality(AbandonedHolds(r, late))
  BY DEF Abandon, AbandonedHolds
<1>3. AbandonedHolds(r, late) \in SUBSET Session BY <1>1, <1>2 DEF AbandonedHolds
<1>4. free' \in Nat BY <1>2, <1>3, CountType DEF TInv, TypeOK
<1>5. hold' \in [Session -> {"none", "ACTIVE", "CONFIRMED", "RELEASED"}]
  BY <1>2 DEF TInv, TypeOK
<1>6. session' \in [Session -> SessionRecord]
  <2> DEFINE x == [NoSession EXCEPT !.status = "INITIATED", !.address = req[r].address]
  <2>1. x \in SessionRecord
    BY ReqFields DEF TInv, NoSession, SessionRecord, NoQuote, Quote
  <2>2. \A t \in Session : [session[t] EXCEPT !.status = "ABANDONED"] \in SessionRecord
    BY DEF TInv, TypeOK, SessionRecord
  <2>3. session' = [t \in Session |->
          IF t = s THEN x
          ELSE IF t \in open THEN [session[t] EXCEPT !.status = "ABANDONED"]
          ELSE session[t]]
    BY DEF Abandon
  <2> HIDE DEF x
  <2> QED BY <2>1, <2>2, <2>3 DEF TInv, TypeOK
<1>7. req' \in [Request -> RequestRecord] /\ Busy'
  <2>1. [req[r] EXCEPT !.pc = "resolving"] \in RequestRecord BY <1>1 DEF RequestRecord
  <2>2. req' = [req EXCEPT ![r].pc = "resolving"] BY DEF Abandon
  <2> QED BY <1>1, <2>1, <2>2 DEF TInv, TypeOK, Busy, RequestRecord
<1> QED BY <1>4, <1>5, <1>6, <1>7 DEF Abandon, TInv, TypeOK

LEMMA WriteT ==
  ASSUME TInv, NEW r \in Request, Write(r)
  PROVE  TInv'
<1> DEFINE s == req[r].session
           a == Coalesce(req[r].address, session[s].address)
           m == Coalesce(req[r].method, session[s].method)
<1>1. s \in Session /\ req[r] \in RequestRecord BY ReqFields DEF TInv, Busy, Write
<1>2. session[s] \in SessionRecord BY <1>1 DEF TInv, TypeOK
<1>3. a \in Address \cup {None} /\ m \in Method \cup {None}
  BY <1>2, ReqFields, CoalesceType DEF TInv, SessionRecord
<1> HIDE DEF a, m
<1>4. [session[s] EXCEPT !.address = a, !.method = m] \in SessionRecord
  BY <1>2, <1>3 DEF SessionRecord
<1>5. session' = [session EXCEPT ![s] = [session[s] EXCEPT !.address = a, !.method = m]]
  BY <1>1, <1>2 DEF Write, a, m, TInv, TypeOK, SessionRecord
<1>6. session' \in [Session -> SessionRecord] BY <1>4, <1>5 DEF TInv, TypeOK
<1>7. req' \in [Request -> RequestRecord] /\ Busy'
  <2>1. [req[r] EXCEPT !.pc = "resolving"] \in RequestRecord BY <1>1 DEF RequestRecord
  <2>2. req' = [req EXCEPT ![r].pc = "resolving"] BY DEF Write
  <2> QED BY <1>1, <2>1, <2>2 DEF TInv, TypeOK, Busy, RequestRecord
<1> QED BY <1>6, <1>7 DEF Write, TInv, TypeOK

LEMMA ResolveT ==
  ASSUME TInv, NEW r \in Request, Resolve(r)
  PROVE  TInv'
<1> DEFINE s == req[r].session
           addr == session[s].address
           pay == Coalesce(req[r].pay, session[s].method)
           app == \/ req[r].coupon = "give"
                  \/ req[r].coupon = "keep" /\ session[s].coupon
           v == VerdictFor(pay)
           b == (hold[s] = "CONFIRMED")
           x == [req[r] EXCEPT !.pc = "rebuilding", !.address = addr, !.pay = pay,
                               !.apply = app, !.verdict = v, !.bound = b]
<1>1. s \in Session /\ req[r] \in RequestRecord BY ReqFields DEF TInv, Busy, Resolve
<1>2. session[s] \in SessionRecord BY <1>1 DEF TInv, TypeOK
<1>3. pay \in Method \cup {None} BY <1>2, ReqFields, CoalesceType DEF TInv, SessionRecord
<1>4. v \in Verdict BY DEF VerdictFor, Verdict
<1>5. addr \in Address \cup {None} /\ app \in BOOLEAN /\ b \in BOOLEAN
  BY <1>2 DEF SessionRecord
<1>6. req' = [req EXCEPT ![r] = x]
  BY <1>1 DEF Resolve, TInv, TypeOK, RequestRecord
<1> HIDE DEF addr, pay, app, v, b
<1>7. x \in RequestRecord BY <1>1, <1>3, <1>4, <1>5 DEF RequestRecord
<1>8. x.session = s BY <1>1 DEF RequestRecord
<1> HIDE DEF x
<1>9. req' \in [Request -> RequestRecord] BY <1>6, <1>7 DEF TInv, TypeOK
<1>10. Busy' BY <1>1, <1>6, <1>8 DEF TInv, TypeOK, Busy
<1> QED BY <1>9, <1>10 DEF Resolve, TInv, TypeOK

\* A rebuild that ends without touching the stock.
LEMMA RepriceT ==
  ASSUME TInv, NEW r \in Request, Reprice(r)
  PROVE  TInv'
<1>1. req[r].session \in Session BY DEF TInv, Busy, Reprice
<1>2. PICK h \in BOOLEAN : session' = Repriced(r, h)
  <2>1. (session[req[r].session].held /\ hold[req[r].session] = "ACTIVE"
          /\ req[r].session \notin lapsed) \in BOOLEAN
    OBVIOUS
  <2> QED BY <2>1 DEF Reprice
<1>3. session' \in [Session -> SessionRecord] BY <1>1, <1>2, RepricedType DEF TInv
<1>4. Respond(r) BY DEF Reprice
<1> QED BY <1>3, <1>4, RespondT DEF Reprice, TInv, TypeOK

LEMMA ReserveT ==
  ASSUME TInv, NEW r \in Request, NEW late \in BOOLEAN, Reserve(r, late)
  PROVE  TInv'
<1> DEFINE s == req[r].session
           back == Released(r, late)
           replay == hold[s] = "CONFIRMED" /\ ~back
<1>1. s \in Session BY DEF TInv, Busy, Reserve
<1>2. session' \in [Session -> SessionRecord] BY <1>1, RepricedType DEF TInv, Reserve
<1>3. /\ replay \/ back \/ free > 0
      /\ hold' = IF replay THEN hold ELSE [hold EXCEPT ![s] = "ACTIVE"]
      /\ lapsed' = IF replay THEN lapsed ELSE lapsed \ {s}
      /\ free' = IF replay \/ back THEN free ELSE free - 1
  BY DEF Reserve
<1> HIDE DEF back
<1>4. hold' \in [Session -> {"none", "ACTIVE", "CONFIRMED", "RELEASED"}]
  BY <1>3 DEF TInv, TypeOK
<1>5. free' \in Nat BY <1>3 DEF TInv, TypeOK
<1>6. Respond(r) BY DEF Reserve
<1> QED BY <1>2, <1>3, <1>4, <1>5, <1>6, RespondT DEF Reserve, TInv, TypeOK

LEMMA PlaceT ==
  ASSUME TInv, NEW r \in Request, Place(r)
  PROVE  TInv'
<1> DEFINE s == req[r].session
           o == [method |-> session[s].method, address |-> session[s].address,
                 quote |-> session[s].quote, coupon |-> session[s].coupon, ended |-> FALSE]
<1>1. s \in Session BY DEF TInv, Busy, Place
<1>2. session[s] \in SessionRecord BY <1>1 DEF TInv, TypeOK
<1>3. o \in OrderRecord BY <1>2 DEF OrderRecord, SessionRecord
<1>4. order' = [order EXCEPT ![s] = o] BY DEF Place
<1> HIDE DEF o
<1>5. order' \in [Session -> OrderRecord \cup {None}] BY <1>3, <1>4 DEF TInv, TypeOK
<1>6. [session[s] EXCEPT !.status = "COMPLETED"] \in SessionRecord BY <1>2 DEF SessionRecord
<1>7. session' = [session EXCEPT ![s].status = "COMPLETED"] BY DEF Place
<1>8. session' \in [Session -> SessionRecord] BY <1>6, <1>7 DEF TInv, TypeOK
<1>9. Respond(r) BY DEF Place
<1>10. /\ hold' \in [Session -> {"none", "ACTIVE", "CONFIRMED", "RELEASED"}]
       /\ lock' \in [Session -> Request \cup {None}]
       /\ lapsed' \subseteq Session
  BY DEF Place, TInv, TypeOK
<1> QED BY <1>5, <1>8, <1>9, <1>10, RespondT DEF Place, TInv, TypeOK

LEMMA EndOrderT ==
  ASSUME TInv, NEW s \in Session, EndOrder(s)
  PROVE  TInv'
<1>1. order[s] \in OrderRecord BY DEF EndOrder, Ordered, TInv, TypeOK
<1>2. [order[s] EXCEPT !.ended = TRUE] \in OrderRecord BY <1>1 DEF OrderRecord
<1>3. order' \in [Session -> OrderRecord \cup {None}]
  BY <1>2 DEF EndOrder, TInv, TypeOK
<1>4. hold' \in [Session -> {"none", "ACTIVE", "CONFIRMED", "RELEASED"}] /\ free' \in Nat
  BY DEF EndOrder, TInv, TypeOK
<1> QED BY <1>3, <1>4 DEF EndOrder, TInv, TypeOK, Busy

LEMMA TickT ==
  ASSUME TInv, NEW s \in Session, Tick(s)
  PROVE  TInv'
<1>1. CASE SessionExpires(s) BY <1>1 DEF SessionExpires, TInv, TypeOK, Busy
<1>2. CASE HoldLapses(s) BY <1>2 DEF HoldLapses, TInv, TypeOK, Busy
<1>3. CASE Sweep(s) BY <1>3 DEF Sweep, TInv, TypeOK, Busy
<1>4. CASE ExpireSession(s)
  <2>1. [session[s] EXCEPT !.status = "EXPIRED"] \in SessionRecord
    BY DEF TInv, TypeOK, SessionRecord
  <2>2. session' \in [Session -> SessionRecord] BY <1>4, <2>1 DEF ExpireSession, TInv, TypeOK
  <2>3. hold' \in [Session -> {"none", "ACTIVE", "CONFIRMED", "RELEASED"}] /\ free' \in Nat
    BY <1>4 DEF ExpireSession, TInv, TypeOK
  <2> QED BY <1>4, <2>2, <2>3 DEF ExpireSession, TInv, TypeOK, Busy
<1> QED BY <1>1, <1>2, <1>3, <1>4 DEF Tick

LEMMA EndRequestT ==
  ASSUME TInv, NEW r \in Request,
         ResolveRefused(r) \/ RebuildFails(r) \/ PlaceFails(r) \/ Die(r)
  PROVE  TInv'
<1>1. Respond(r) BY DEF ResolveRefused, RebuildFails, PlaceFails, Die
<1>2. lock' \in [Session -> Request \cup {None}] /\ faults' \in Nat
  BY DEF ResolveRefused, RebuildFails, PlaceFails, Die, TInv, TypeOK
<1> QED BY <1>1, <1>2, RespondT
    DEF ResolveRefused, RebuildFails, PlaceFails, Die, TInv, TypeOK

LEMMA NextT == TInv /\ [Next]_vars => TInv'
<1> SUFFICES ASSUME TInv, [Next]_vars PROVE TInv'
  OBVIOUS
<1>1. ASSUME NEW r \in Request, Call(r) PROVE TInv'
  BY <1>1, OpenT, ChangeT, LockT DEF Call
<1>2. ASSUME NEW r \in Request, Continue(r) PROVE TInv'
  BY <1>2, AbandonT, WriteT, ResolveT, RepriceT, ReserveT, PlaceT, EndRequestT DEF Continue
<1>3. CASE UNCHANGED vars BY <1>3 DEF vars, TInv, TypeOK, Busy
<1> QED BY <1>1, <1>2, <1>3, EndRequestT, TickT, EndOrderT DEF Next

LEMMA InitT == Init => TInv
<1> SUFFICES ASSUME Init PROVE TInv
  OBVIOUS
<1>1. Idle.pc = "idle" BY DEF Idle
<1> QED BY <1>1, InitType DEF Init, TInv, Busy

\* Every session, hold, order and request has its type, for any number of each.
THEOREM CheckoutTypeCorrect == Spec => []TypeOK
<1>1. TInv => TypeOK BY DEF TInv
<1> QED BY <1>1, InitT, NextT, PTL DEF Spec

-----------------------------------------------------------------------------
(* Units *)

LiveSet == {s \in Session : Live(s)}

LEMMA LiveSetFinite == IsFiniteSet(LiveSet) /\ Cardinality(LiveSet) \in Nat
  BY CountType DEF LiveSet

\* One hold less and one unit more, one hold more and one unit less, and neither.
LEMMA UnitBack ==
  ASSUME TInv, UnitsConserved, NEW s \in Session, Live(s),
         hold' = [hold EXCEPT ![s] = "RELEASED"], free' = free + 1
  PROVE  UnitsConserved'
<1>1. LiveSet' = LiveSet \ {s} BY DEF LiveSet, Live, TInv, TypeOK
<1>2. s \in LiveSet BY DEF LiveSet
<1>3. Cardinality(LiveSet') = Cardinality(LiveSet) - 1
  BY <1>1, <1>2, LiveSetFinite, FS_RemoveElement
<1> QED BY <1>3, LiveSetFinite DEF UnitsConserved, LiveSet, TInv, TypeOK

LEMMA UnitTaken ==
  ASSUME TInv, UnitsConserved, NEW s \in Session, ~Live(s),
         hold' = [hold EXCEPT ![s] = "ACTIVE"], free' = free - 1
  PROVE  UnitsConserved'
<1>1. LiveSet' = LiveSet \cup {s} BY DEF LiveSet, Live, TInv, TypeOK
<1>2. s \notin LiveSet BY DEF LiveSet
<1>3. Cardinality(LiveSet') = Cardinality(LiveSet) + 1
  BY <1>1, <1>2, LiveSetFinite, FS_AddElement
<1> QED BY <1>3, LiveSetFinite DEF UnitsConserved, LiveSet, TInv, TypeOK

LEMMA UnitKept ==
  ASSUME TInv, UnitsConserved, \A s \in Session : Live(s)' <=> Live(s), free' = free
  PROVE  UnitsConserved'
<1>1. LiveSet' = LiveSet BY DEF LiveSet
<1> QED BY <1>1 DEF UnitsConserved, LiveSet

LEMMA AbandonUnits ==
  ASSUME TInv, UnitsConserved, NEW r \in Request, Abandon(r)
  PROVE  UnitsConserved'
<1>1. req[r].open \in SUBSET Session BY ReqFields DEF TInv
<1>2. PICK late \in SUBSET {t \in req[r].open : hold[t] = "CONFIRMED"} :
        /\ hold' = [t \in Session |->
                      IF t \in AbandonedHolds(r, late) THEN "RELEASED" ELSE hold[t]]
        /\ free' = free + Cardinality(AbandonedHolds(r, late))
  BY DEF Abandon, AbandonedHolds
<1> DEFINE back == AbandonedHolds(r, late)
<1>3. back \subseteq LiveSet BY <1>1, <1>2 DEF AbandonedHolds, LiveSet, Live
<1>4. LiveSet' = LiveSet \ back BY <1>2, <1>3 DEF LiveSet, Live, TInv, TypeOK
<1>5. IsFiniteSet(back) /\ Cardinality(back) \in Nat
  BY <1>3, CountType DEF LiveSet
<1> HIDE DEF back
<1>6. Cardinality(LiveSet \ back) = Cardinality(LiveSet) - Cardinality(LiveSet \cap back)
  BY LiveSetFinite, FS_Difference
<1>7. LiveSet \cap back = back BY <1>3
<1>8. Cardinality(LiveSet') = Cardinality(LiveSet) - Cardinality(back) BY <1>4, <1>6, <1>7
<1>9. free' = free + Cardinality(back) BY <1>2 DEF back
<1> QED BY <1>5, <1>8, <1>9, LiveSetFinite DEF UnitsConserved, LiveSet, TInv, TypeOK

LEMMA ReserveUnits ==
  ASSUME TInv, UnitsConserved, NEW r \in Request, NEW late \in BOOLEAN, Reserve(r, late)
  PROVE  UnitsConserved'
<1> DEFINE s == req[r].session
           back == Released(r, late)
           replay == hold[s] = "CONFIRMED" /\ ~back
<1>1. s \in Session BY DEF TInv, Busy, Reserve
<1>2. /\ hold' = IF replay THEN hold ELSE [hold EXCEPT ![s] = "ACTIVE"]
      /\ free' = IF replay \/ back THEN free ELSE free - 1
  BY DEF Reserve
<1>3. CASE replay BY <1>2, <1>3, UnitKept DEF Live
<1>4. CASE back
  <2>1. Live(s) BY <1>4 DEF Released, Live
  <2>2. hold' = [hold EXCEPT ![s] = "ACTIVE"] /\ free' = free BY <1>2, <1>4
  <2> HIDE DEF back, s
  <2>3. \A t \in Session : Live(t)' <=> Live(t) BY <1>1, <2>1, <2>2 DEF Live, TInv, TypeOK
  <2> QED BY <2>2, <2>3, UnitKept
<1>5. CASE ~replay /\ ~back
  <2>1. hold[s] # "ACTIVE" /\ hold[s] # "CONFIRMED" BY <1>5 DEF Released
  <2>2. ~Live(s) BY <2>1 DEF Live
  <2>3. hold' = [hold EXCEPT ![s] = "ACTIVE"] /\ free' = free - 1 BY <1>2, <1>5
  <2> QED BY <1>1, <2>2, <2>3, UnitTaken
<1> QED BY <1>3, <1>4, <1>5

LEMMA PlaceUnits ==
  ASSUME TInv, UnitsConserved, NEW r \in Request, Place(r)
  PROVE  UnitsConserved'
<1>1. req[r].session \in Session BY DEF TInv, Busy, Place
<1>2. \A t \in Session : Live(t)' <=> Live(t) BY <1>1 DEF Place, Live, TInv, TypeOK
<1> QED BY <1>2, UnitKept DEF Place

LEMMA TickUnits ==
  ASSUME TInv, UnitsConserved, NEW s \in Session, Tick(s) \/ EndOrder(s)
  PROVE  UnitsConserved'
<1>1. CASE SessionExpires(s) \/ HoldLapses(s)
  BY <1>1, UnitKept DEF SessionExpires, HoldLapses, Live
<1>2. CASE Sweep(s) BY <1>2, UnitBack DEF Sweep, Live
<1>3. CASE ExpireSession(s)
  <2>1. CASE hold[s] = "ACTIVE" BY <1>3, <2>1, UnitBack DEF ExpireSession, Live
  <2>2. CASE hold[s] # "ACTIVE" BY <1>3, <2>2, UnitKept DEF ExpireSession, Live
  <2> QED BY <2>1, <2>2
<1>4. CASE EndOrder(s)
  <2>1. CASE hold[s] = "CONFIRMED" BY <1>4, <2>1, UnitBack DEF EndOrder, Live
  <2>2. CASE hold[s] # "CONFIRMED" BY <1>4, <2>2, UnitKept DEF EndOrder, Live
  <2> QED BY <2>1, <2>2
<1> QED BY <1>1, <1>2, <1>3, <1>4 DEF Tick

LEMMA NextUnits == TInv /\ UnitsConserved /\ [Next]_vars => UnitsConserved'
<1> SUFFICES ASSUME TInv, UnitsConserved, [Next]_vars PROVE UnitsConserved'
  OBVIOUS
<1>1. ASSUME hold' = hold, free' = free PROVE UnitsConserved'
  BY <1>1, UnitKept DEF Live
<1>2. ASSUME NEW r \in Request, Call(r) \/ Die(r) PROVE UnitsConserved'
  BY <1>1, <1>2 DEF Call, Open, Change, Lock, Die
<1>3. ASSUME NEW r \in Request, Continue(r) PROVE UnitsConserved'
  <2>1. CASE Write(r) \/ Resolve(r) \/ ResolveRefused(r) BY <1>1, <2>1 DEF Write, Resolve, ResolveRefused
  <2>2. CASE Reprice(r) \/ RebuildFails(r) \/ PlaceFails(r)
    BY <1>1, <2>2 DEF Reprice, RebuildFails, PlaceFails
  <2> QED BY <1>3, <2>1, <2>2, AbandonUnits, ReserveUnits, PlaceUnits DEF Continue
<1>4. CASE UNCHANGED vars BY <1>1, <1>4 DEF vars
<1> QED BY <1>2, <1>3, <1>4, TickUnits DEF Next

LEMMA InitUnits == Init => UnitsConserved
<1> SUFFICES ASSUME Init PROVE UnitsConserved
  OBVIOUS
<1>1. {s \in Session : Live(s)} = {} BY DEF Init, Live
<1>2. Cardinality({s \in Session : Live(s)}) = 0 BY <1>1, FS_EmptySet
<1> QED BY <1>2, CheckoutAssumption DEF Init, UnitsConserved

\* Checkout loses no unit and holds none twice, for any number of sessions, requests and units.
THEOREM CheckoutConservesUnits == Spec => []UnitsConserved
  BY InitT, NextT, InitUnits, NextUnits, PTL DEF Spec

-----------------------------------------------------------------------------
(* Orders *)

\* placeOrder has the row lock of a session without an order, which stays as it was checked.
Placing(r) ==
  req[r].pc = "placing" =>
    /\ lock[req[r].session] = r
    /\ ~Ordered(req[r].session)
    /\ session[req[r].session].status = "OFFERS_APPLIED"
    /\ session[req[r].session].valid

\* Until start inserts its session nobody else knows it.
Opening(r) ==
  req[r].pc = "opening" =>
    /\ session[req[r].session].status = "absent"
    /\ \A q \in Request \ {r} : req[q].session # req[r].session

\* The sessions start is about to abandon exist.
OpenExist(r) == \A t \in req[r].open : session[t].status # "absent"

PInv == TInv /\ \A r \in Request : Placing(r) /\ Opening(r) /\ OpenExist(r)

LEMMA IdleFields == Idle.pc = "idle" /\ Idle.session = None /\ Idle.open = {}
  BY DEF Idle

\* A request that is answered, the sessions and orders left alone.
LEMMA EndRequestP ==
  ASSUME PInv, NEW r \in Request,
         ResolveRefused(r) \/ RebuildFails(r) \/ PlaceFails(r) \/ Die(r)
  PROVE  \A q \in Request : (Placing(q) /\ Opening(q) /\ OpenExist(q))'
<1>1. Respond(r) /\ session' = session /\ order' = order
  BY DEF ResolveRefused, RebuildFails, PlaceFails, Die
<1>2. req' = [req EXCEPT ![r] = Idle] BY <1>1 DEF Respond
<1>3. ASSUME NEW q \in Request \ {r}, req[q].pc = "placing"
      PROVE  lock'[req[q].session] = q
  <2>1. lock[req[q].session] = q /\ req[q].session \in Session
    BY <1>3 DEF PInv, TInv, Busy, Placing
  <2>2. CASE PlaceFails(r)
    <3>1. req[r].pc = "placing" /\ req[r].session \in Session /\ lock[req[r].session] = r
      BY <2>2 DEF PlaceFails, PInv, TInv, Busy, Placing
    <3> QED BY <2>1, <2>2, <3>1 DEF PlaceFails, PInv, TInv, TypeOK
  <2>3. CASE Die(r) BY <2>1, <2>3 DEF Die
  <2>4. CASE ResolveRefused(r) \/ RebuildFails(r)
    BY <2>1, <2>4 DEF ResolveRefused, RebuildFails
  <2> QED BY <2>2, <2>3, <2>4
<1>4. Idle.session \notin Session BY IdleFields, CheckoutAssumption
<1> TAKE q \in Request
<1>5. CASE q = r
  BY <1>2, <1>5, IdleFields DEF Placing, Opening, OpenExist, PInv, TInv, TypeOK
<1>6. CASE q # r
  <2>1. req'[q] = req[q] BY <1>2, <1>6 DEF PInv, TInv, TypeOK
  <2>2. Placing(q)' BY <1>1, <1>3, <1>6, <2>1 DEF Placing, PInv, Ordered
  <2>3. Opening(q)'
    <3>1. req[q].pc = "opening" => req[q].session \in Session BY DEF PInv, TInv, Busy
    <3>2. Opening(q) BY DEF PInv
    <3>3. \A p \in Request : p # r => req'[p] = req[p] BY <1>2 DEF PInv, TInv, TypeOK
    <3>4. req'[r] = Idle BY <1>2 DEF PInv, TInv, TypeOK
    <3> QED BY <1>1, <1>4, <2>1, <3>1, <3>2, <3>3, <3>4 DEF Opening
  <2>4. OpenExist(q)' BY <1>1, <2>1 DEF OpenExist, PInv
  <2> QED BY <2>2, <2>3, <2>4
<1> QED BY <1>5, <1>6

\* Other requests survive a step of request r that keeps its session and open sets, that
\* changes only sessions nobody has locked or is about to insert, and brings none back to
\* nothing.
LEMMA OthersP ==
  ASSUME PInv, NEW r \in Request, NEW q \in Request \ {r},
         req'[q] = req[q],
         req'[r].session = req[r].session \/ req'[r].session = None,
         \A p \in Request \ {r} : req'[p] = req[p],
         order' = order, lock' = lock,
         \A t \in Session : session[t].status # "absent" => session'[t].status # "absent",
         \A t \in Session : lock[t] = q =>
            session'[t].status = session[t].status /\ session'[t].valid = session[t].valid,
         req[q].pc = "opening" =>
            session'[req[q].session].status = session[req[q].session].status
  PROVE  (Placing(q) /\ Opening(q) /\ OpenExist(q))'
<1>1. Placing(q) /\ Opening(q) /\ OpenExist(q) BY DEF PInv
<1>2. req[q].pc # "idle" => req[q].session \in Session BY DEF PInv, TInv, Busy
<1>3. Placing(q)' BY <1>1, <1>2 DEF Placing, Ordered
<1>4. Opening(q)'
  <2> SUFFICES ASSUME req'[q].pc = "opening"
               PROVE  /\ session'[req'[q].session].status = "absent"
                      /\ \A p \in Request \ {q} : req'[p].session # req'[q].session
    BY DEF Opening
  <2>1. req[q].session \in Session BY <1>2
  <2>2. None \notin Session BY CheckoutAssumption
  <2>3. req'[r].session # req'[q].session BY <1>1, <2>1, <2>2 DEF Opening
  <2> QED BY <1>1, <2>3 DEF Opening
<1>5. OpenExist(q)' BY <1>1, ReqFields DEF OpenExist, PInv, TInv
<1> QED BY <1>3, <1>4, <1>5

LEMMA ResolveP ==
  ASSUME PInv, NEW r \in Request, Resolve(r)
  PROVE  \A q \in Request : (Placing(q) /\ Opening(q) /\ OpenExist(q))'
<1>1. /\ session' = session /\ order' = order /\ lock' = lock
      /\ \A q \in Request \ {r} : req'[q] = req[q]
      /\ req'[r].session = req[r].session
      /\ req'[r].pc = "rebuilding" /\ req'[r].open = req[r].open
  BY DEF Resolve, PInv, TInv, TypeOK, RequestRecord
<1>2. (Placing(r) /\ Opening(r) /\ OpenExist(r))'
  BY <1>1 DEF Placing, Opening, OpenExist, PInv
<1> QED BY <1>1, <1>2, OthersP

LEMMA WriteP ==
  ASSUME PInv, NEW r \in Request, Write(r)
  PROVE  \A q \in Request : (Placing(q) /\ Opening(q) /\ OpenExist(q))'
<1> DEFINE s == req[r].session
<1>1. /\ order' = order /\ lock' = lock
      /\ \A q \in Request \ {r} : req'[q] = req[q]
      /\ req'[r].session = req[r].session
      /\ req'[r].pc = "resolving" /\ req'[r].open = req[r].open
  BY DEF Write, PInv, TInv, TypeOK, RequestRecord
<1>2. \A t \in Session : session'[t].status = session[t].status /\ session'[t].valid = session[t].valid
  BY DEF Write, PInv, TInv, TypeOK, SessionRecord
<1>3. (Placing(r) /\ Opening(r) /\ OpenExist(r))'
  BY <1>1, <1>2, ReqFields DEF Placing, Opening, OpenExist, PInv, TInv
<1>4. \A q \in Request \ {r} : req[q].pc = "opening" => req[q].session \in Session
  BY DEF PInv, TInv, Busy
<1> QED BY <1>1, <1>2, <1>3, <1>4, OthersP

\* The end of a rebuild.
LEMMA RepriceP ==
  ASSUME PInv, NEW r \in Request, NEW late \in BOOLEAN,
         Reprice(r) \/ Reserve(r, late)
  PROVE  \A q \in Request : (Placing(q) /\ Opening(q) /\ OpenExist(q))'
<1> DEFINE s == req[r].session
<1>1. /\ order' = order /\ lock' = lock /\ lock[s] = None /\ Respond(r)
      /\ req[r].pc = "rebuilding"
  BY DEF Reprice, Reserve
<1>2. /\ \A q \in Request \ {r} : req'[q] = req[q]
      /\ req'[r] = Idle
  BY <1>1 DEF Respond, PInv, TInv, TypeOK
<1>3. s \in Session BY <1>1 DEF PInv, TInv, Busy
<1>4. /\ \A t \in Session \ {s} : session'[t] = session[t]
      /\ session'[s].status # "absent"
  BY <1>3 DEF Reprice, Reserve, Repriced, PInv, TInv, TypeOK
<1>5. (Placing(r) /\ Opening(r) /\ OpenExist(r))'
  BY <1>2, IdleFields DEF Placing, Opening, OpenExist
<1>6. \A q \in Request \ {r} : req[q].pc = "opening" => req[q].session \in Session \ {s}
  BY <1>3 DEF PInv, TInv, Busy, Opening
<1>7. None \notin Request BY CheckoutAssumption
<1>8. \A q \in Request, t \in Session : lock[t] = q => t # s BY <1>1, <1>7
<1> QED BY <1>8, <1>1, <1>2, <1>3, <1>4, <1>5, <1>6, IdleFields, OthersP

\* The end of placeOrder: no other request has this row, and the order is new.
LEMMA PlaceP ==
  ASSUME PInv, NEW r \in Request, Place(r)
  PROVE  \A q \in Request : (Placing(q) /\ Opening(q) /\ OpenExist(q))'
<1> TAKE q \in Request
<1> DEFINE s == req[r].session
<1>1. s \in Session /\ lock[s] = r BY DEF Place, PInv, TInv, Busy, Placing
<1>2. /\ \A p \in Request \ {r} : req'[p] = req[p]
      /\ req'[r] = Idle
  BY DEF Place, Respond, PInv, TInv, TypeOK
<1>3. \A t \in Session \ {s} : session'[t] = session[t] /\ lock'[t] = lock[t] /\ order'[t] = order[t]
  BY DEF Place, PInv, TInv, TypeOK
<1>4. session'[s].status = "COMPLETED" BY <1>1 DEF Place, PInv, TInv, TypeOK, SessionRecord
<1>5. CASE q = r BY <1>2, <1>5, IdleFields DEF Placing, Opening, OpenExist
<1>6. CASE q # r
  <2>1. Placing(q) /\ Opening(q) /\ OpenExist(q) BY DEF PInv
  <2>2. req'[q] = req[q] BY <1>2, <1>6
  <2>3. req[q].pc # "idle" => req[q].session \in Session BY DEF PInv, TInv, Busy
  <2>4. req[q].pc = "placing" => req[q].session # s BY <1>1, <1>6, <2>1 DEF Placing
  <2>5. req[q].pc = "opening" => req[q].session # s BY <1>6, <2>1 DEF Opening
  <2>6. Placing(q)' BY <1>3, <2>1, <2>2, <2>3, <2>4 DEF Placing, Ordered
  <2>7. Opening(q)'
    <3> SUFFICES ASSUME req[q].pc = "opening"
                 PROVE  /\ session'[req[q].session].status = "absent"
                        /\ \A p \in Request \ {q} : req'[p].session # req[q].session
      BY <2>2 DEF Opening
    <3>1. req[q].session \in Session \ {s} BY <2>3, <2>5
    <3>2. req'[r].session # req[q].session BY <1>2, <3>1, IdleFields, CheckoutAssumption
    <3> QED BY <1>2, <1>3, <2>1, <3>1, <3>2 DEF Opening
  <2>8. OpenExist(q)' BY <1>3, <1>4, <2>1, <2>2, ReqFields DEF OpenExist, PInv, TInv
  <2> QED BY <2>6, <2>7, <2>8
<1> QED BY <1>5, <1>6

LEMMA AbandonP ==
  ASSUME PInv, NEW r \in Request, Abandon(r)
  PROVE  \A q \in Request : (Placing(q) /\ Opening(q) /\ OpenExist(q))'
<1> DEFINE s == req[r].session
<1>1. s \in Session /\ req[r].pc = "opening" /\ session[s].status = "absent"
  BY DEF Abandon, PInv, TInv, Busy, Opening
<1>2. /\ order' = order /\ lock' = lock
      /\ \A q \in Request \ {r} : req'[q] = req[q]
      /\ req'[r].session = req[r].session
      /\ req'[r].pc = "resolving" /\ req'[r].open = req[r].open
  BY DEF Abandon, PInv, TInv, TypeOK, RequestRecord
<1>3. \A t \in req[r].open : lock[t] = None BY DEF Abandon
<1>4. \A t \in Session : session'[t].status =
        IF t = s THEN "INITIATED" ELSE IF t \in req[r].open THEN "ABANDONED" ELSE session[t].status
  BY DEF Abandon, NoSession, PInv, TInv, TypeOK, SessionRecord
<1>5. \A t \in Session : t # s /\ t \notin req[r].open => session'[t] = session[t]
  BY DEF Abandon
<1>6. \A t \in Session : session[t].status # "absent" => session'[t].status # "absent" BY <1>4
<1>7. (Placing(r) /\ Opening(r) /\ OpenExist(r))'
  BY <1>2, <1>6, ReqFields DEF Placing, Opening, OpenExist, PInv, TInv
<1>8. ASSUME NEW q \in Request \ {r} PROVE (Placing(q) /\ Opening(q) /\ OpenExist(q))'
  <2>1. Placing(q) /\ Opening(q) /\ OpenExist(q) BY DEF PInv
  <2>2. req[q].pc # "idle" => req[q].session \in Session BY DEF PInv, TInv, Busy
  <2>3. None \notin Request /\ None \notin Session BY CheckoutAssumption
  <2>4. req[q].pc = "placing" => req[q].session # s /\ req[q].session \notin req[r].open
    BY <1>1, <1>3, <2>1, <2>3 DEF Placing
  <2>5. Placing(q)' BY <1>2, <1>5, <2>1, <2>2, <2>4 DEF Placing, Ordered
  <2>6. Opening(q)'
    <3> SUFFICES ASSUME req[q].pc = "opening"
                 PROVE  /\ session'[req[q].session].status = "absent"
                        /\ \A p \in Request \ {q} : req'[p].session # req[q].session
      BY <1>2 DEF Opening
    <3>1. req[q].session \in Session /\ req[q].session # s BY <2>1, <2>2 DEF Opening
    <3>2. req[q].session \notin req[r].open BY <2>1 DEF Opening, OpenExist, PInv
    <3>3. session'[req[q].session].status = "absent" BY <1>4, <2>1, <3>1, <3>2 DEF Opening
    <3> QED BY <1>2, <2>1, <3>3 DEF Opening
  <2>7. OpenExist(q)' BY <1>2, <1>6, <2>1, ReqFields DEF OpenExist, PInv, TInv
  <2> QED BY <2>5, <2>6, <2>7
<1> QED BY <1>7, <1>8

\* A request begins: sessions and orders are as they were.
LEMMA CallP ==
  ASSUME PInv, NEW r \in Request, Call(r)
  PROVE  \A q \in Request : (Placing(q) /\ Opening(q) /\ OpenExist(q))'
<1>1. PICK s \in Session :
        \/ \E a \in Address, c \in CouponInput : Open(r, s, a, c)
        \/ \E a \in Address \cup {None}, m \in Method \cup {None}, c \in CouponInput :
             Change(r, s, a, m, c)
        \/ Lock(r, s)
  BY DEF Call
<1>2. /\ session' = session /\ order' = order
      /\ \A q \in Request \ {r} : req'[q] = req[q]
  BY <1>1 DEF Open, Change, Lock, PInv, TInv, TypeOK
<1>3. \A q \in Request \ {r} : req[q].pc = "opening" => req[q].session # s
  BY <1>1 DEF Open, Change, Lock, PInv, Opening
<1>4. req'[r].session = s
  <2>1. ASSUME NEW a \in Address, NEW c \in CouponInput, Open(r, s, a, c)
        PROVE  req'[r].session = s
    BY <2>1 DEF Open, PInv, TInv, TypeOK, Idle
  <2>2. ASSUME NEW a \in Address \cup {None}, NEW m \in Method \cup {None},
               NEW c \in CouponInput, Change(r, s, a, m, c)
        PROVE  req'[r].session = s
    BY <2>2 DEF Change, PInv, TInv, TypeOK, Idle
  <2>3. CASE Lock(r, s)
    BY <2>3 DEF Lock, PInv, TInv, TypeOK, Idle
  <2> QED BY <1>1, <2>1, <2>2, <2>3
<1>5. \A t \in Session : lock[t] # None => lock'[t] = lock[t]
  BY <1>1 DEF Open, Change, Lock, PInv, TInv, TypeOK
<1>6. (Placing(r) /\ Opening(r) /\ OpenExist(r))'
  <2>1. ASSUME NEW a \in Address, NEW c \in CouponInput, Open(r, s, a, c)
        PROVE  (Placing(r) /\ Opening(r) /\ OpenExist(r))'
    <3>1. /\ req'[r].pc = "opening" /\ req'[r].session = s
          /\ req'[r].open \subseteq {t \in Session : session[t].status \in Editable}
      BY <2>1 DEF Open, PInv, TInv, TypeOK, Idle
    <3>2. session[s].status = "absent" /\ \A q \in Request : req[q].session # s
      BY <2>1 DEF Open
    <3> QED BY <1>2, <3>1, <3>2 DEF Placing, Opening, OpenExist
  <2>2. ASSUME NEW a \in Address \cup {None}, NEW m \in Method \cup {None},
               NEW c \in CouponInput, Change(r, s, a, m, c)
        PROVE  (Placing(r) /\ Opening(r) /\ OpenExist(r))'
    <3>1. req'[r].pc = "changing" /\ req'[r].open = {}
      BY <2>2 DEF Change, PInv, TInv, TypeOK, Idle
    <3> QED BY <3>1 DEF Placing, Opening, OpenExist
  <2>3. CASE Lock(r, s)
    <3>1. req'[r].pc = "placing" /\ req'[r].open = {} /\ req'[r].session = s /\ lock'[s] = r
      BY <2>3 DEF Lock, PInv, TInv, TypeOK, Idle
    <3>2. ~Ordered(s) /\ session[s].status = "OFFERS_APPLIED" /\ session[s].valid
      BY <2>3 DEF Lock
    <3> QED BY <1>2, <3>1, <3>2 DEF Placing, Opening, OpenExist, Ordered
  <2> QED BY <1>1, <2>1, <2>2, <2>3
<1>7. ASSUME NEW q \in Request \ {r} PROVE (Placing(q) /\ Opening(q) /\ OpenExist(q))'
  <2>1. Placing(q) /\ Opening(q) /\ OpenExist(q) BY DEF PInv
  <2>2. req[q].pc # "idle" => req[q].session \in Session BY DEF PInv, TInv, Busy
  <2>3. Placing(q)' BY <1>2, <1>5, <2>1, <2>2, CheckoutAssumption DEF Placing, Ordered
  <2>4. Opening(q)' BY <1>2, <1>3, <1>4, <2>1 DEF Opening
  <2>5. OpenExist(q)' BY <1>2, <2>1 DEF OpenExist
  <2> QED BY <2>3, <2>4, <2>5
<1> QED BY <1>6, <1>7

LEMMA TickP ==
  ASSUME PInv, NEW s \in Session, Tick(s) \/ EndOrder(s)
  PROVE  \A q \in Request : (Placing(q) /\ Opening(q) /\ OpenExist(q))'
<1>1. req' = req /\ lock' = lock
  BY DEF Tick, SessionExpires, HoldLapses, Sweep, ExpireSession, EndOrder
<1>2. /\ \A t \in Session : lock[t] # None => session'[t] = session[t]
      /\ \A t \in Session : session'[t].status = "absent" <=> session[t].status = "absent"
  BY DEF Tick, SessionExpires, HoldLapses, Sweep, ExpireSession, EndOrder, PInv, TInv, TypeOK,
         SessionRecord
<1>3. \A t \in Session : ~Ordered(t) => ~Ordered(t)'
  BY DEF Ordered, Tick, SessionExpires, HoldLapses, Sweep, ExpireSession, EndOrder, PInv, TInv,
      TypeOK
<1> TAKE q \in Request
<1>4. Placing(q) /\ Opening(q) /\ OpenExist(q) BY DEF PInv
<1>5. req[q].pc # "idle" => req[q].session \in Session BY DEF PInv, TInv, Busy
<1>6. Placing(q)' BY <1>1, <1>2, <1>3, <1>4, <1>5, CheckoutAssumption DEF Placing
<1>7. Opening(q)' BY <1>1, <1>2, <1>4, <1>5 DEF Opening
<1>8. OpenExist(q)' BY <1>1, <1>2, <1>4, ReqFields DEF OpenExist, PInv, TInv
<1> QED BY <1>6, <1>7, <1>8

LEMMA NextP == PInv /\ [Next]_vars => PInv'
<1> SUFFICES ASSUME PInv, [Next]_vars PROVE PInv'
  OBVIOUS
<1>1. TInv' BY NextT DEF PInv
<1>2. \A q \in Request : (Placing(q) /\ Opening(q) /\ OpenExist(q))'
  <2>1. ASSUME NEW r \in Request, Continue(r)
        PROVE  \A q \in Request : (Placing(q) /\ Opening(q) /\ OpenExist(q))'
    BY <2>1, AbandonP, WriteP, ResolveP, RepriceP, PlaceP, EndRequestP DEF Continue
  <2>2. CASE UNCHANGED vars BY <2>2 DEF vars, PInv, Placing, Opening, OpenExist, Ordered
  <2> QED BY <2>1, <2>2, CallP, EndRequestP, TickP DEF Next
<1> QED BY <1>1, <1>2 DEF PInv

LEMMA InitP == Init => PInv
<1> SUFFICES ASSUME Init PROVE PInv
  OBVIOUS
<1>1. \A r \in Request : req[r] = Idle BY DEF Init
<1> QED BY <1>1, InitT, IdleFields DEF PInv, Placing, Opening, OpenExist

-----------------------------------------------------------------------------
(* Orders *)

\* Only two steps write an order: its placement, on a session without one, and its end.
LEMMA OrderSteps ==
  ASSUME PInv, [Next]_vars, NEW s \in Session
  PROVE  \/ order'[s] = order[s]
         \/ Ordered(s) /\ order'[s] = [order[s] EXCEPT !.ended = TRUE]
         \/ /\ ~Ordered(s)
            /\ \E r \in Request : Place(r) /\ req[r].session = s
<1>1. ASSUME NEW r \in Request, Place(r)
      PROVE  \/ order'[s] = order[s]
             \/ ~Ordered(s) /\ req[r].session = s
  <2>1. req[r].pc = "placing" /\ req[r].session \in Session BY <1>1 DEF Place, PInv, TInv, Busy
  <2>2. ~Ordered(req[r].session) BY <2>1 DEF PInv, Placing
  <2>3. s # req[r].session => order'[s] = order[s] BY <1>1 DEF Place, PInv, TInv, TypeOK
  <2> QED BY <2>2, <2>3
<1>2. ASSUME NEW t \in Session, EndOrder(t)
      PROVE  \/ order'[s] = order[s]
             \/ Ordered(s) /\ order'[s] = [order[s] EXCEPT !.ended = TRUE]
  BY <1>2 DEF EndOrder, PInv, TInv, TypeOK
<1>3. ASSUME NEW t \in Session, Tick(t) PROVE order' = order
  BY <1>3 DEF Tick, SessionExpires, HoldLapses, Sweep, ExpireSession
<1>4. ASSUME NEW r \in Request, Call(r) PROVE order' = order
  BY <1>4 DEF Call, Open, Change, Lock
<1>5. ASSUME NEW r \in Request, Die(r) PROVE order' = order
  BY <1>5 DEF Die
<1>6. ASSUME NEW r \in Request, Continue(r), ~Place(r) PROVE order' = order
  BY <1>6 DEF Continue, Abandon, Write, Resolve, ResolveRefused, Reprice,
              RebuildFails, Reserve, PlaceFails
<1>7. UNCHANGED vars => order' = order BY DEF vars
<1> QED BY <1>1, <1>2, <1>3, <1>4, <1>5, <1>6, <1>7 DEF Next

\* An order, once there, stays as it was placed (placeOrder under the session's row lock).
THEOREM CheckoutOrderIsFinal == Spec => OrderIsFinal
<1>1. ASSUME PInv, [Next]_vars, NEW s \in Session, Ordered(s)
      PROVE  Ordered(s)' /\ order'[s] = [order[s] EXCEPT !.ended = order'[s].ended]
  <2>1. order[s] \in OrderRecord BY <1>1 DEF PInv, TInv, TypeOK, Ordered
  <2>2. \/ order'[s] = order[s]
        \/ order'[s] = [order[s] EXCEPT !.ended = TRUE]
    BY <1>1, OrderSteps
  <2>3. order'[s] \in OrderRecord /\ order'[s] = [order[s] EXCEPT !.ended = order'[s].ended]
    BY <2>1, <2>2 DEF OrderRecord
  <2>4. order'[s] # None
    BY <2>3, NoOrderAssumption
  <2> QED BY <2>3, <2>4 DEF Ordered
<1>2. PInv /\ [Next]_vars =>
        [\A s \in Session :
           Ordered(s) => /\ Ordered(s)'
                         /\ order'[s] = [order[s] EXCEPT !.ended = order'[s].ended]]_vars
  BY <1>1
<1> QED BY <1>2, InitP, NextP, PTL DEF Spec, OrderIsFinal

\* An order comes into being with the confirmation of its hold (placeOrder's transaction).
THEOREM CheckoutOrderTakesItsHold == Spec => OrderTakesItsHold
<1>1. ASSUME PInv, [Next]_vars, NEW s \in Session, ~Ordered(s), Ordered(s)'
      PROVE  /\ hold[s] = "ACTIVE" /\ hold'[s] = "CONFIRMED"
             /\ session[s].status = "OFFERS_APPLIED" /\ session'[s].status = "COMPLETED"
             /\ session[s].valid
  <2>1. PICK r \in Request : Place(r) /\ req[r].session = s
    BY <1>1, OrderSteps DEF Ordered
  <2>2. req[r].pc = "placing" BY <2>1 DEF Place
  <2>3. Placing(r) BY <1>1 DEF PInv
  <2>4. session[s].status = "OFFERS_APPLIED" /\ session[s].valid
    BY <2>1, <2>2, <2>3 DEF Placing
  <2>5. hold[s] = "ACTIVE" BY <2>1 DEF Place
  <2>6. hold'[s] = "CONFIRMED" BY <1>1, <2>1 DEF Place, PInv, TInv, TypeOK
  <2>7. session'[s].status = "COMPLETED"
    <3>1. session' = [session EXCEPT ![s].status = "COMPLETED"] BY <2>1 DEF Place
    <3>2. session \in [Session -> SessionRecord] BY <1>1 DEF PInv, TInv, TypeOK
    <3> QED BY <3>1, <3>2 DEF SessionRecord
  <2> QED BY <2>4, <2>5, <2>6, <2>7
<1>2. PInv /\ [Next]_vars =>
        [\A s \in Session :
           ~Ordered(s) /\ Ordered(s)' =>
             /\ hold[s] = "ACTIVE" /\ hold'[s] = "CONFIRMED"
             /\ session[s].status = "OFFERS_APPLIED" /\ session'[s].status = "COMPLETED"
             /\ session[s].valid]_vars
  BY <1>1
<1> QED BY <1>2, InitP, NextP, PTL DEF Spec, OrderTakesItsHold

-----------------------------------------------------------------------------
(* An order nobody was in the way of *)

\* No request is in the middle of starting, changing or pricing s, or about to abandon it.
Untouched(s) ==
  \A r \in Request : req[r].session # s /\ (req[r].pc = "opening" => s \notin req[r].open)

\* What placeOrder leaves: a closed session whose order, until it ends, has its stock.
Settled(s) ==
  /\ Ordered(s) /\ session[s].status = "COMPLETED"
  /\ order[s].ended \/ hold[s] = "CONFIRMED"
  /\ Untouched(s)

\* A step keeps it that keeps the session, the hold unless the order ended, and the requests off.
LEMMA SettledOn ==
  ASSUME PInv, [Next]_vars, NEW s \in Session, Settled(s),
         session'[s] = session[s], hold'[s] = hold[s] \/ order'[s].ended, Untouched(s)'
  PROVE  Settled(s)' /\ session'[s] = session[s]
<1>1. Ordered(s)' /\ (order[s].ended => order'[s].ended)
  <2>1. order[s] \in OrderRecord /\ Ordered(s) BY DEF Settled, PInv, TInv, TypeOK, Ordered
  <2>2. order'[s] = order[s] \/ order'[s] = [order[s] EXCEPT !.ended = TRUE]
    BY <2>1, OrderSteps
  <2>3. order'[s] \in OrderRecord /\ (order[s].ended => order'[s].ended)
    BY <2>1, <2>2 DEF OrderRecord
  <2> QED BY <2>3, NoOrderAssumption DEF Ordered
<1> QED BY <1>1 DEF Settled

\* A request that is answered is off, and keeps no other on.
LEMMA RespondOff ==
  ASSUME PInv, NEW r \in Request, NEW s \in Session, Untouched(s), Respond(r)
  PROVE  Untouched(s)'
<1>1. /\ \A q \in Request : req'[q] = IF q = r THEN Idle ELSE req[q]
  BY DEF Respond, PInv, TInv, TypeOK
<1>2. Idle.session # s BY IdleFields, CheckoutAssumption
<1> QED BY <1>1, <1>2, IdleFields DEF Untouched

LEMMA SettledCall ==
  ASSUME PInv, [Next]_vars, NEW s \in Session, Settled(s), NEW r \in Request, Call(r)
  PROVE  Settled(s)' /\ session'[s] = session[s]
<1>1. PICK t \in Session :
        \/ \E a \in Address, c \in CouponInput : Open(r, t, a, c)
        \/ \E a \in Address \cup {None}, m \in Method \cup {None}, c \in CouponInput :
             Change(r, t, a, m, c)
        \/ Lock(r, t)
  BY DEF Call
<1>2. Ordered(s) /\ session[s].status = "COMPLETED" BY DEF Settled
<1>3. UNCHANGED <<session, hold, order>> BY <1>1 DEF Open, Change, Lock
<1>4. ASSUME NEW a \in Address, NEW c \in CouponInput, Open(r, t, a, c)
      PROVE  t # s /\ \E x : /\ req' = [req EXCEPT ![r] = x] /\ x.session = t
                             /\ s \notin x.open
  <2> DEFINE o == {u \in Session : /\ Owner[u] = Owner[t] /\ session[u].status \in Editable
                                   /\ ~Ordered(u)}
             x == [Idle EXCEPT !.pc = "opening", !.session = t, !.reserve = TRUE, !.address = a,
                               !.coupon = c, !.open = o]
  <2>1. x.session = t /\ x.open = o BY DEF Idle
  <2>2. s \notin o BY <1>2
  <2>3. req' = [req EXCEPT ![r] = x] /\ session[t].status = "absent" BY <1>4 DEF Open
  <2> QED BY <1>2, <2>1, <2>2, <2>3
<1>5. ASSUME NEW a \in Address \cup {None}, NEW m \in Method \cup {None},
             NEW c \in CouponInput, Change(r, t, a, m, c)
      PROVE  t # s /\ \E x : req' = [req EXCEPT ![r] = x] /\ x.session = t /\ x.pc = "changing"
  <2> DEFINE x == [Idle EXCEPT !.pc = "changing", !.session = t, !.reserve = (a # None),
                     !.address = a, !.method = m, !.pay = Coalesce(m, session[t].method),
                     !.coupon = c]
  <2>1. x.session = t /\ x.pc = "changing" BY DEF Idle
  <2>2. req' = [req EXCEPT ![r] = x] /\ session[t].status \in Editable BY <1>5 DEF Change
  <2> QED BY <1>2, <2>1, <2>2
<1>6. CASE Lock(r, t)
  <2>1. t # s BY <1>2, <1>6 DEF Lock
  <2>2. req' = [req EXCEPT ![r] = [Idle EXCEPT !.pc = "placing", !.session = t]]
    BY <1>6 DEF Lock
  <2>3. /\ [Idle EXCEPT !.pc = "placing", !.session = t].session = t
        /\ [Idle EXCEPT !.pc = "placing", !.session = t].pc = "placing"
    BY DEF Idle
  <2>4. \A q \in Request \ {r} : req'[q] = req[q] BY <2>2 DEF PInv, TInv, TypeOK
  <2>5. req'[r].session = t /\ req'[r].pc = "placing" BY <2>2, <2>3 DEF PInv, TInv, TypeOK
  <2>6. Untouched(s)' BY <2>1, <2>4, <2>5 DEF Untouched, Settled
  <2> QED BY <1>3, <2>6, SettledOn
<1>7. ASSUME NEW x, req' = [req EXCEPT ![r] = x], x.session = t, t # s,
             x.pc # "opening" \/ s \notin x.open
      PROVE  Settled(s)' /\ session'[s] = session[s]
  <2>1. \A q \in Request : req'[q] = IF q = r THEN x ELSE req[q] BY <1>7 DEF PInv, TInv, TypeOK
  <2>2. Untouched(s)' BY <1>7, <2>1 DEF Untouched, Settled
  <2> QED BY <1>3, <2>2, SettledOn
<1> QED BY <1>1, <1>4, <1>5, <1>6, <1>7

LEMMA SettledContinue ==
  ASSUME PInv, [Next]_vars, NEW s \in Session, Settled(s), NEW r \in Request, Continue(r)
  PROVE  Settled(s)' /\ session'[s] = session[s]
<1>1. Untouched(s) /\ req[r].session # s BY DEF Settled, Untouched
<1>2. \A t \in Session : session[t] \in SessionRecord BY DEF PInv, TInv, TypeOK
<1>3. CASE Abandon(r)
  <2>1. s \notin req[r].open BY <1>1, <1>3 DEF Abandon, Untouched
  <2>2. session'[s] = session[s] /\ hold'[s] = hold[s] BY <1>1, <1>3, <2>1 DEF Abandon
  <2>3. \A q \in Request : /\ req'[q].session = req[q].session /\ req'[q].open = req[q].open
                           /\ req'[q].pc = "opening" => req[q].pc = "opening"
    BY <1>3 DEF Abandon, PInv, TInv, TypeOK, RequestRecord
  <2>4. Untouched(s)' BY <1>1, <2>3 DEF Untouched
  <2> QED BY <2>2, <2>4, SettledOn
<1>4. CASE Write(r) \/ Resolve(r)
  <2>1. session'[s] = session[s] /\ hold' = hold
    BY <1>1, <1>4 DEF Write, Resolve, PInv, TInv, TypeOK
  <2>2. \A q \in Request : /\ req'[q].session = req[q].session /\ req'[q].open = req[q].open
                           /\ req'[q].pc = "opening" => req[q].pc = "opening"
    BY <1>4 DEF Write, Resolve, PInv, TInv, TypeOK, RequestRecord
  <2>3. Untouched(s)' BY <1>1, <2>2 DEF Untouched
  <2> QED BY <2>1, <2>3, SettledOn
<1>5. ASSUME Respond(r), session'[s] = session[s], hold'[s] = hold[s]
      PROVE  Settled(s)' /\ session'[s] = session[s]
  BY <1>1, <1>5, RespondOff, SettledOn
<1>6. CASE ResolveRefused(r) \/ RebuildFails(r) \/ PlaceFails(r)
  BY <1>5, <1>6 DEF ResolveRefused, RebuildFails, PlaceFails
<1>7. CASE Reprice(r) \/ \E late \in BOOLEAN : Reserve(r, late)
  <2>1. Respond(r) BY <1>7 DEF Reprice, Reserve
  <2>2. hold'[s] = hold[s] BY <1>1, <1>7 DEF Reprice, Reserve, PInv, TInv, TypeOK
  <2>3. session'[s] = session[s] BY <1>1, <1>7 DEF Reprice, Reserve, Repriced, PInv, TInv, TypeOK
  <2> QED BY <1>5, <2>1, <2>2, <2>3
<1>8. CASE Place(r)
  <2>1. Respond(r) BY <1>8 DEF Place
  <2>2. session'[s] = session[s] /\ hold'[s] = hold[s]
    BY <1>1, <1>8 DEF Place, PInv, TInv, TypeOK
  <2> QED BY <1>5, <2>1, <2>2
<1> QED BY <1>3, <1>4, <1>6, <1>7, <1>8 DEF Continue

LEMMA SettledTick ==
  ASSUME PInv, [Next]_vars, NEW s \in Session, Settled(s),
         NEW t \in Session, Tick(t) \/ EndOrder(t)
  PROVE  Settled(s)' /\ session'[s] = session[s]
<1>1. req' = req
  BY DEF Tick, SessionExpires, HoldLapses, Sweep, ExpireSession, EndOrder
<1>2. Untouched(s)' BY <1>1 DEF Settled, Untouched
<1>3. /\ session[s].status = "COMPLETED" /\ Ordered(s)
      /\ order[s].ended \/ hold[s] = "CONFIRMED"
  BY DEF Settled
<1>4. order[s] \in OrderRecord BY <1>3 DEF PInv, TInv, TypeOK, Ordered
<1>5. session'[s] = session[s]
  BY <1>3 DEF Tick, SessionExpires, HoldLapses, Sweep, ExpireSession, EndOrder, PInv, TInv, TypeOK
<1>6. CASE EndOrder(t)
  <2>1. t = s => order'[s].ended BY <1>4, <1>6 DEF EndOrder, PInv, TInv, TypeOK, OrderRecord
  <2>2. t # s => hold'[s] = hold[s] BY <1>6 DEF EndOrder, PInv, TInv, TypeOK
  <2> QED BY <1>2, <1>5, <2>1, <2>2, SettledOn
<1>7. CASE Tick(t)
  <2>1. order' = order BY <1>7 DEF Tick, SessionExpires, HoldLapses, Sweep, ExpireSession
  <2>2. hold'[s] = hold[s] \/ hold[s] = "ACTIVE"
    BY <1>7 DEF Tick, SessionExpires, HoldLapses, Sweep, ExpireSession, PInv, TInv, TypeOK
  <2> QED BY <1>2, <1>3, <1>5, <2>1, <2>2, SettledOn
<1> QED BY <1>6, <1>7

LEMMA NextSettled ==
  ASSUME PInv, [Next]_vars, NEW s \in Session, Settled(s)
  PROVE  Settled(s)' /\ session'[s] = session[s]
<1>1. ASSUME NEW r \in Request, Die(r) PROVE Settled(s)' /\ session'[s] = session[s]
  BY <1>1, RespondOff, SettledOn DEF Die, Settled
<1>2. CASE UNCHANGED vars
  BY <1>2 DEF vars, Settled, Untouched, Ordered
<1> QED BY <1>1, <1>2, SettledCall, SettledContinue, SettledTick DEF Next

\* An order has "unconfirmed stock" (checkout.service.ts:325) only by a request that was already
\* about its session, or about to abandon it, when it was placed (checkout.service.ts:1820): else
\* the order keeps its hold until it ends, and its session stays as it was ordered, whatever
\* requests, sweeps and jobs come later.
THEOREM CheckoutSettledStands ==
  ASSUME NEW s \in Session
  PROVE  Spec => /\ [](Settled(s) => [](order[s].ended \/ hold[s] = "CONFIRMED"))
                 /\ [][Settled(s) => session'[s] = session[s]]_vars
<1>1. PInv /\ Settled(s) /\ [Next]_vars => Settled(s)' /\ session'[s] = session[s]
  BY NextSettled
<1>2. Settled(s) => order[s].ended \/ hold[s] = "CONFIRMED"
  BY DEF Settled
<1>3. PInv /\ [Next]_vars => [Settled(s) => session'[s] = session[s]]_vars
  BY <1>1
<1> QED BY <1>1, <1>2, <1>3, InitP, NextP, PTL DEF Spec

\* And a placement (placeOrder) settles its session, unless another request is about it then.
THEOREM CheckoutPlacementSettles ==
  Spec => [][\A s \in Session : ~Ordered(s) /\ Ordered(s)' /\ Untouched(s)' => Settled(s)']_vars
<1>1. /\ [\A s \in Session :
           ~Ordered(s) /\ Ordered(s)' =>
             /\ hold[s] = "ACTIVE" /\ hold'[s] = "CONFIRMED"
             /\ session[s].status = "OFFERS_APPLIED" /\ session'[s].status = "COMPLETED"
             /\ session[s].valid]_vars
      => [\A s \in Session : ~Ordered(s) /\ Ordered(s)' /\ Untouched(s)' => Settled(s)']_vars
  BY DEF Settled
<1> QED BY <1>1, CheckoutOrderTakesItsHold, PTL DEF OrderTakesItsHold

-----------------------------------------------------------------------------
(* Sums.  A set of subsets of a finite set that is not empty has a least      *)
(* member; what fails for some subset fails for a least one.                  *)

LEMMA LeastMember ==
  ASSUME NEW S, IsFiniteSet(S), NEW T \in SUBSET (SUBSET S), T # {}
  PROVE  \E x \in T : \A y \in T : ~ (y \subseteq x /\ y # x)
<1>1. IsWellFoundedOn(StrictSubsetOrdering(S), FiniteSubsetsOf(S))
  BY FS_StrictSubsetOrderingWellFounded
<1>2. T \subseteq FiniteSubsetsOf(S)
  BY FS_Subset DEF FiniteSubsetsOf
<1>3. \E x \in T : \A y \in T : ~ (<<y, x>> \in StrictSubsetOrdering(S))
  BY <1>1, <1>2, WFMin
<1> QED BY <1>3 DEF StrictSubsetOrdering

First(s) == CHOOSE x \in s : TRUE

\* The fold of Total is a CHOOSE of a recursive function; g is one such function.
Recursion(g, f, S) ==
  g = [s \in SUBSET S |-> IF s = {} THEN 0 ELSE f[First(s)] + g[s \ {First(s)}]]

LEMMA TotalUnfolds ==
  ASSUME NEW f, NEW S
  PROVE  Total(f, S) = (CHOOSE g : Recursion(g, f, S))[S]
BY DEF Total, FoldFunctionOnSet, MapThenFoldSet, Recursion, First

LEMMA FirstIn == \A s : s # {} => First(s) \in s
BY DEF First

LEMMA RecursionUnique ==
  ASSUME NEW f, NEW S, IsFiniteSet(S), NEW g, NEW h, Recursion(g, f, S), Recursion(h, f, S)
  PROVE  g = h
<1> DEFINE Bad == {s \in SUBSET S : g[s] # h[s]}
<1>1. Bad = {}
  <2> SUFFICES ASSUME Bad # {} PROVE FALSE
    OBVIOUS
  <2>1. PICK s \in Bad : \A t \in Bad : ~ (t \subseteq s /\ t # s)
    <3>1. Bad \in SUBSET (SUBSET S)
      OBVIOUS
    <3> HIDE DEF Bad
    <3> QED BY <3>1, LeastMember
  <2>2. CASE s = {}
    BY <2>1, <2>2 DEF Recursion
  <2>3. CASE s # {}
    <3>1. First(s) \in s
      BY <2>3, FirstIn
    <3>2. s \ {First(s)} \notin Bad
      BY <2>1, <3>1
    <3>3. g[s] = f[First(s)] + g[s \ {First(s)}] /\ h[s] = f[First(s)] + h[s \ {First(s)}]
      BY <2>1, <2>3 DEF Recursion
    <3> QED BY <2>1, <3>2, <3>3
  <2> QED BY <2>2, <2>3
<1>2. g = [s \in SUBSET S |-> g[s]] /\ h = [s \in SUBSET S |-> h[s]]
  BY DEF Recursion
<1> QED BY <1>1, <1>2

Step(f, s) == IF s = {} THEN 0 ELSE f[First(s)] + Total(f, s \ {First(s)})

LEMMA TotalStep ==
  ASSUME NEW f, NEW S, IsFiniteSet(S)
  PROVE  Total(f, S) = Step(f, S)
<1> DEFINE Bad == {s \in SUBSET S : Total(f, s) # Step(f, s)}
<1>1. Bad = {}
  <2> SUFFICES ASSUME Bad # {} PROVE FALSE
    OBVIOUS
  <2>1. PICK s \in Bad : \A t \in Bad : ~ (t \subseteq s /\ t # s)
    <3>1. Bad \in SUBSET (SUBSET S)
      OBVIOUS
    <3> HIDE DEF Bad
    <3> QED BY <3>1, LeastMember
  <2>2. IsFiniteSet(s)
    BY FS_Subset
  <2> DEFINE G == [t \in SUBSET s |-> IF t = s THEN Step(f, s) ELSE Total(f, t)]
  <2>3. Recursion(G, f, s)
    <3> SUFFICES ASSUME NEW t \in SUBSET s
                 PROVE  G[t] = IF t = {} THEN 0 ELSE f[First(t)] + G[t \ {First(t)}]
      BY DEF Recursion
    <3>1. t # {} => First(t) \in t /\ t \ {First(t)} \in SUBSET s /\ t \ {First(t)} # s
      BY FirstIn
    <3>2. t # {} => G[t \ {First(t)}] = Total(f, t \ {First(t)})
      BY <3>1
    <3>3. G[t] = Step(f, t)
      BY <2>1
    <3> QED BY <3>2, <3>3 DEF Step
  <2>4. G = CHOOSE g : Recursion(g, f, s)
    <3> HIDE DEF G
    <3>1. Recursion(CHOOSE g : Recursion(g, f, s), f, s)
      BY <2>3
    <3> QED BY <2>2, <2>3, <3>1, RecursionUnique
  <2>5. Total(f, s) = G[s]
    BY <2>4, TotalUnfolds
  <2> QED BY <2>1, <2>5
<1> QED BY <1>1

-----------------------------------------------------------------------------
LEMMA TotalEmpty == \A f : Total(f, {}) = 0
BY TotalStep, FS_EmptySet DEF Step

\* What holds of the totals over the empty set, and over a set when it holds over the set
\* without its first member, is shown for all subsets by looking at a least exception.
LEMMA TotalInt ==
  ASSUME NEW S, IsFiniteSet(S), NEW f, \A i \in S : f[i] \in Int
  PROVE  Total(f, S) \in Int
<1> DEFINE Bad == {s \in SUBSET S : Total(f, s) \notin Int}
<1>1. Bad = {}
  <2> SUFFICES ASSUME Bad # {} PROVE FALSE
    OBVIOUS
  <2>1. PICK s \in Bad : \A t \in Bad : ~ (t \subseteq s /\ t # s)
    <3>1. Bad \in SUBSET (SUBSET S)
      OBVIOUS
    <3> HIDE DEF Bad
    <3> QED BY <3>1, LeastMember
  <2>2. IsFiniteSet(s) /\ Total(f, s) = Step(f, s)
    BY FS_Subset, TotalStep
  <2>3. s # {} => First(s) \in s /\ Total(f, s \ {First(s)}) \in Int
    BY <2>1, FirstIn
  <2> QED BY <2>1, <2>2, <2>3 DEF Step
<1> QED BY <1>1

LEMMA TotalNat ==
  ASSUME NEW S, IsFiniteSet(S), NEW f, \A i \in S : f[i] \in Nat
  PROVE  Total(f, S) \in Nat
<1> DEFINE Bad == {s \in SUBSET S : Total(f, s) \notin Nat}
<1>1. Bad = {}
  <2> SUFFICES ASSUME Bad # {} PROVE FALSE
    OBVIOUS
  <2>1. PICK s \in Bad : \A t \in Bad : ~ (t \subseteq s /\ t # s)
    <3>1. Bad \in SUBSET (SUBSET S)
      OBVIOUS
    <3> HIDE DEF Bad
    <3> QED BY <3>1, LeastMember
  <2>2. IsFiniteSet(s) /\ Total(f, s) = Step(f, s)
    BY FS_Subset, TotalStep
  <2>3. s # {} => First(s) \in s /\ Total(f, s \ {First(s)}) \in Nat
    BY <2>1, FirstIn
  <2> QED BY <2>1, <2>2, <2>3 DEF Step
<1> QED BY <1>1

\* The members may be added up in any order.
LEMMA TotalRemove ==
  ASSUME NEW S, IsFiniteSet(S), NEW f, \A i \in S : f[i] \in Int
  PROVE  \A x \in S : Total(f, S) = f[x] + Total(f, S \ {x})
<1> DEFINE Bad == {s \in SUBSET S : \E x \in s : Total(f, s) # f[x] + Total(f, s \ {x})}
<1>1. Bad = {}
  <2> SUFFICES ASSUME Bad # {} PROVE FALSE
    OBVIOUS
  <2>1. PICK s \in Bad : \A t \in Bad : ~ (t \subseteq s /\ t # s)
    <3>1. Bad \in SUBSET (SUBSET S)
      OBVIOUS
    <3> HIDE DEF Bad
    <3> QED BY <3>1, LeastMember
  <2>2. PICK x \in s : Total(f, s) # f[x] + Total(f, s \ {x})
    OBVIOUS
  <2> DEFINE y == First(s)
  <2>3. s \in SUBSET S /\ x \in s /\ y \in s
    BY FirstIn
  <2>4. Total(f, s) = f[y] + Total(f, s \ {y})
    <3>1. Total(f, s) = Step(f, s)
      BY <2>3, FS_Subset, TotalStep
    <3> QED BY <3>1, <2>3 DEF Step
  <2>5. x # y
    BY <2>2, <2>4
  <2>6. s \ {x} \notin Bad /\ s \ {y} \notin Bad
    BY <2>1, <2>3
  <2> DEFINE w == (s \ {x}) \ {y}
  <2>7. Total(f, s \ {y}) = f[x] + Total(f, w)
    <3>1. (s \ {y}) \ {x} = w /\ x \in s \ {y}
      BY <2>3, <2>5
    <3> QED BY <2>3, <2>6, <3>1
  <2>8. Total(f, s \ {x}) = f[y] + Total(f, w)
    BY <2>3, <2>5, <2>6
  <2>9. f[x] \in Int /\ f[y] \in Int /\ Total(f, w) \in Int
    <3>1. IsFiniteSet(w) /\ w \subseteq S
      BY <2>3, FS_Subset
    <3> QED BY <2>3, <3>1, TotalInt
  <2> HIDE DEF y, w, Bad
  <2> QED BY <2>2, <2>4, <2>7, <2>8, <2>9
<1> QED BY <1>1

\* Whatever is nothing over the empty set and grows by f[x] with every member x is the total.
Adds(g, f, S) ==
  g[{}] = 0 /\ \A s \in SUBSET S : \A x \in s : g[s] = f[x] + g[s \ {x}]

LEMMA TotalUnique ==
  ASSUME NEW S, IsFiniteSet(S), NEW f, NEW g, Adds(g, f, S)
  PROVE  Total(f, S) = g[S]
<1> DEFINE Bad == {s \in SUBSET S : Total(f, s) # g[s]}
<1>1. Bad = {}
  <2> SUFFICES ASSUME Bad # {} PROVE FALSE
    OBVIOUS
  <2>1. PICK s \in Bad : \A t \in Bad : ~ (t \subseteq s /\ t # s)
    <3>1. Bad \in SUBSET (SUBSET S)
      OBVIOUS
    <3> HIDE DEF Bad
    <3> QED BY <3>1, LeastMember
  <2>2. Total(f, s) = Step(f, s)
    BY FS_Subset, TotalStep
  <2>3. s # {} => First(s) \in s /\ Total(f, s \ {First(s)}) = g[s \ {First(s)}]
    BY <2>1, FirstIn DEF Adds
  <2> QED BY <2>1, <2>2, <2>3 DEF Step, Adds
<1> QED BY <1>1

LEMMA TotalEq ==
  ASSUME NEW S, IsFiniteSet(S), NEW f, NEW h, \A i \in S : f[i] = h[i] /\ h[i] \in Int
  PROVE  Total(f, S) = Total(h, S)
<1> DEFINE g == [s \in SUBSET S |-> Total(h, s)]
<1>1. g[{}] = 0
  BY TotalEmpty
<1>2. ASSUME NEW s \in SUBSET S, NEW x \in s PROVE g[s] = f[x] + g[s \ {x}]
  <2>1. IsFiniteSet(s)
    BY FS_Subset
  <2>2. Total(h, s) = h[x] + Total(h, s \ {x})
    BY <2>1, TotalRemove
  <2> QED BY <2>2
<1>3. g[S] = Total(h, S)
  OBVIOUS
<1> HIDE DEF g
<1>4. Adds(g, f, S)
  BY <1>1, <1>2 DEF Adds
<1> QED BY <1>3, <1>4, TotalUnique

LEMMA TotalAdd ==
  ASSUME NEW S, IsFiniteSet(S), NEW f, NEW h, NEW k,
         \A i \in S : h[i] \in Int /\ k[i] \in Int /\ f[i] = h[i] + k[i]
  PROVE  Total(f, S) = Total(h, S) + Total(k, S)
<1> DEFINE g == [s \in SUBSET S |-> Total(h, s) + Total(k, s)]
<1>1. g[{}] = 0
  BY TotalEmpty
<1>2. ASSUME NEW s \in SUBSET S, NEW x \in s PROVE g[s] = f[x] + g[s \ {x}]
  <2>1. IsFiniteSet(s) /\ IsFiniteSet(s \ {x})
    BY FS_Subset
  <2>2. Total(h, s) = h[x] + Total(h, s \ {x}) /\ Total(k, s) = k[x] + Total(k, s \ {x})
    BY <2>1, TotalRemove
  <2>3. Total(h, s \ {x}) \in Int /\ Total(k, s \ {x}) \in Int
    BY <2>1, TotalInt
  <2>4. h[x] \in Int /\ k[x] \in Int /\ f[x] = h[x] + k[x]
    OBVIOUS
  <2> QED BY <2>2, <2>3, <2>4
<1>3. g[S] = Total(h, S) + Total(k, S)
  OBVIOUS
<1> HIDE DEF g
<1>4. Adds(g, f, S)
  BY <1>1, <1>2 DEF Adds
<1> QED BY <1>3, <1>4, TotalUnique

LEMMA TotalMinus ==
  ASSUME NEW S, IsFiniteSet(S), NEW f, NEW h, NEW k,
         \A i \in S : h[i] \in Int /\ k[i] \in Int /\ f[i] = h[i] - k[i]
  PROVE  Total(f, S) = Total(h, S) - Total(k, S)
<1>1. \A i \in S : f[i] \in Int /\ k[i] \in Int /\ h[i] = f[i] + k[i]
  OBVIOUS
<1>2. Total(h, S) = Total(f, S) + Total(k, S)
  BY <1>1, TotalAdd
<1>3. Total(f, S) \in Int /\ Total(k, S) \in Int /\ Total(h, S) \in Int
  BY <1>1, TotalInt
<1> QED BY <1>2, <1>3

LEMMA TotalScale ==
  ASSUME NEW S, IsFiniteSet(S), NEW f, NEW h, NEW c \in Int,
         \A i \in S : h[i] \in Int /\ f[i] = c * h[i]
  PROVE  Total(f, S) = c * Total(h, S)
<1> DEFINE g == [s \in SUBSET S |-> c * Total(h, s)]
<1>1. g[{}] = 0
  BY TotalEmpty
<1>2. ASSUME NEW s \in SUBSET S, NEW x \in s PROVE g[s] = f[x] + g[s \ {x}]
  <2>1. IsFiniteSet(s) /\ IsFiniteSet(s \ {x})
    BY FS_Subset
  <2>2. Total(h, s) = h[x] + Total(h, s \ {x})
    BY <2>1, TotalRemove
  <2>3. Total(h, s \ {x}) \in Int
    BY <2>1, TotalInt
  <2>4. h[x] \in Int /\ f[x] = c * h[x]
    OBVIOUS
  <2>5. \A a, b \in Int : c * (a + b) = c * a + c * b
    OBVIOUS
  <2> QED BY <2>2, <2>3, <2>4, <2>5
<1>3. g[S] = c * Total(h, S)
  OBVIOUS
<1> HIDE DEF g
<1>4. Adds(g, f, S)
  BY <1>1, <1>2 DEF Adds
<1> QED BY <1>3, <1>4, TotalUnique

LEMMA TotalZero ==
  ASSUME NEW S, IsFiniteSet(S), NEW f, \A i \in S : f[i] = 0
  PROVE  Total(f, S) = 0
<1> DEFINE g == [s \in SUBSET S |-> 0]
<1>1. g[{}] = 0
  OBVIOUS
<1>2. \A s \in SUBSET S : \A x \in s : g[s] = f[x] + g[s \ {x}]
  OBVIOUS
<1>3. g[S] = 0
  OBVIOUS
<1> HIDE DEF g
<1>4. Adds(g, f, S)
  BY <1>1, <1>2 DEF Adds
<1> QED BY <1>3, <1>4, TotalUnique

\* Members outside a part add nothing when f is nothing there.
LEMMA TotalWithin ==
  ASSUME NEW S, IsFiniteSet(S), NEW E \in SUBSET S, NEW f, NEW h,
         \A i \in E : h[i] \in Int /\ f[i] = h[i], \A i \in S \ E : f[i] = 0
  PROVE  Total(f, S) = Total(h, E)
<1> DEFINE g == [s \in SUBSET S |-> Total(h, s \cap E)]
<1>1. g[{}] = 0
  BY TotalEmpty
<1>2. ASSUME NEW s \in SUBSET S, NEW x \in s PROVE g[s] = f[x] + g[s \ {x}]
  <2>1. IsFiniteSet(s \cap E)
    BY FS_Subset
  <2>0. g[s \ {x}] = Total(h, (s \ {x}) \cap E)
    OBVIOUS
  <2>2. CASE x \in E
    <3>1. (s \ {x}) \cap E = (s \cap E) \ {x}
      OBVIOUS
    <3>2. Total(h, s \cap E) = h[x] + Total(h, (s \cap E) \ {x})
      BY <2>1, <2>2, TotalRemove
    <3> QED BY <2>0, <2>2, <3>1, <3>2
  <2>3. CASE x \notin E
    <3>1. (s \ {x}) \cap E = s \cap E
      BY <2>3
    <3>2. Total(h, s \cap E) \in Int /\ f[x] = 0
      BY <2>1, <2>3, TotalInt
    <3>3. g[s] = Total(h, s \cap E) /\ g[s \ {x}] = Total(h, s \cap E)
      BY <2>0, <3>1
    <3> HIDE DEF g
    <3> QED BY <3>2, <3>3
  <2> QED BY <2>0, <2>2, <2>3
<1>3. g[S] = Total(h, E)
  BY S \cap E = E
<1> HIDE DEF g
<1>4. Adds(g, f, S)
  BY <1>1, <1>2 DEF Adds
<1> QED BY <1>3, <1>4, TotalUnique

LEMMA TotalCount ==
  ASSUME NEW S, IsFiniteSet(S), NEW E \in SUBSET S, NEW f,
         \A i \in S : f[i] = IF i \in E THEN 1 ELSE 0
  PROVE  Total(f, S) = Cardinality(E)
<1> DEFINE g == [s \in SUBSET S |-> Cardinality(s \cap E)]
<1>1. g[{}] = 0
  BY FS_EmptySet
<1>2. ASSUME NEW s \in SUBSET S, NEW x \in s PROVE g[s] = f[x] + g[s \ {x}]
  <2>1. IsFiniteSet(s \cap E) /\ Cardinality(s \cap E) \in Nat
    BY FS_Subset, FS_CardinalityType
  <2>0. g[s \ {x}] = Cardinality((s \ {x}) \cap E)
    OBVIOUS
  <2>2. CASE x \in E
    <3>1. (s \ {x}) \cap E = (s \cap E) \ {x} /\ x \in s \cap E
      BY <2>2
    <3>2. Cardinality((s \cap E) \ {x}) = Cardinality(s \cap E) - 1
      BY <2>1, <3>1, FS_RemoveElement
    <3>3. g[s] = Cardinality(s \cap E) /\ g[s \ {x}] = Cardinality(s \cap E) - 1 /\ f[x] = 1
      BY <2>0, <2>2, <3>1, <3>2
    <3> HIDE DEF g
    <3> QED BY <2>1, <3>3
  <2>3. CASE x \notin E
    <3>1. (s \ {x}) \cap E = s \cap E
      BY <2>3
    <3>2. g[s] = Cardinality(s \cap E) /\ g[s \ {x}] = Cardinality(s \cap E) /\ f[x] = 0
      BY <2>0, <2>3, <3>1
    <3> HIDE DEF g
    <3> QED BY <2>1, <3>2
  <2> QED BY <2>2, <2>3
<1>3. g[S] = Cardinality(E)
  BY S \cap E = E
<1> HIDE DEF g
<1>4. Adds(g, f, S)
  BY <1>1, <1>2 DEF Adds
<1> QED BY <1>3, <1>4, TotalUnique

LEMMA TotalMono ==
  ASSUME NEW S, IsFiniteSet(S), NEW f, NEW h, \A i \in S : f[i] \in Int /\ h[i] \in Int /\ f[i] <= h[i]
  PROVE  Total(f, S) <= Total(h, S)
<1> DEFINE k == [i \in S |-> h[i] - f[i]]
<1>1. \A i \in S : k[i] \in Nat
  OBVIOUS
<1>2. Total(k, S) \in Nat
  BY <1>1, TotalNat
<1>3. Total(k, S) = Total(h, S) - Total(f, S)
  BY TotalMinus
<1>4. Total(h, S) \in Int /\ Total(f, S) \in Int
  BY TotalInt
<1> QED BY <1>2, <1>3, <1>4

-----------------------------------------------------------------------------
LEMMA Division ==
  \A a \in Int, b \in Nat \ {0} :
    /\ a \div b \in Int
    /\ b * (a \div b) <= a
    /\ a < b * (a \div b) + b
BY Z3

LEMMA Times ==
  ASSUME NEW a \in Int, NEW b \in Int
  PROVE  /\ a * b \in Int /\ a * b = b * a
         /\ a >= 0 /\ b >= 0 => a * b >= 0
OBVIOUS

LEMMA TimesMono ==
  ASSUME NEW a \in Int, NEW b \in Int, NEW c \in Int, a >= 0, b <= c
  PROVE  a * b <= a * c
<1>1. a * (c - b) >= 0
  BY Times
<1>2. a * (c - b) = a * c - a * b
  OBVIOUS
<1> QED BY <1>1, <1>2

\* A product is compared as its factors are.
LEMMA TimesLess ==
  ASSUME NEW a \in Int, NEW b \in Int, NEW c \in Int, a > 0, a * b < a * c
  PROVE  b < c
<1> SUFFICES ASSUME c <= b PROVE FALSE
  OBVIOUS
<1>1. a * c <= a * b
  BY TimesMono
<1> QED BY <1>1

LEMMA FloorDivInt ==
  ASSUME NEW a \in Int, NEW b \in Int, b # 0
  PROVE  FloorDiv(a, b) \in Int
<1>1. CASE b > 0
  BY <1>1, Division DEF FloorDiv
<1>2. CASE b < 0
  <2>1. -a \in Int /\ -b \in Nat \ {0}
    BY <1>2
  <2>2. (-a) \div (-b) \in Int
    BY <2>1, Division
  <2> QED BY <1>2, <2>2 DEF FloorDiv
<1> QED BY <1>1, <1>2

\* The first of a set of line numbers.
LEMMA FirstLine ==
  ASSUME NEW S \in SUBSET Nat, S # {}
  PROVE  \E i \in S : \A j \in S : i <= j
<1> DEFINE R == OpToRel(<, Nat)
<1>1. \A i, j \in Nat : j < i => <<j, i>> \in R
  BY DEF OpToRel
<1>2. IsWellFoundedOn(R, Nat)
  BY NatLessThanWellFounded
<1> HIDE DEF R
<1>3. PICK i \in S : \A j \in S : ~ (<<j, i>> \in R)
  BY <1>2, WFMin
<1>4. ASSUME NEW j \in S PROVE i <= j
  <2>1. i \in Nat /\ j \in Nat
    OBVIOUS
  <2>2. ~ (j < i)
    BY <1>1, <1>3, <2>1, Zenon
  <2> QED BY <2>1, <2>2
<1> QED BY <1>4

-----------------------------------------------------------------------------
(* Shares *)

Floors(t, w, S) == [i \in S |-> FloorDiv(t * w[i], Total(w, S))]
Rests(t, w, S) ==
  [i \in S |-> (t * w[i] - Floors(t, w, S)[i] * Total(w, S))
                 * (IF Total(w, S) > 0 THEN 1 ELSE -1)]
Left(t, w, S) == t - Total(Floors(t, w, S), S)
Topped(f, E, S) == [i \in S |-> IF i \in E THEN f[i] + 1 ELSE f[i]]

LEMMA SharesByWeight ==
  ASSUME NEW t, NEW w, NEW S, NEW share \in Shares(t, w, S), Total(w, S) # 0
  PROVE  \E E \in SUBSET S :
           /\ Cardinality(E) = Left(t, w, S)
           /\ \A i \in E, j \in S \ E : \/ Rests(t, w, S)[i] > Rests(t, w, S)[j]
                                      \/ Rests(t, w, S)[i] = Rests(t, w, S)[j]
           /\ share = Topped(Floors(t, w, S), E, S)
BY DEF Shares, Floors, Rests, Left, Topped

LEMMA SharesByNumber ==
  ASSUME NEW t, NEW w, NEW S, NEW share \in Shares(t, w, S), Total(w, S) = 0
  PROVE  share = [i \in S |-> IF \A j \in S : i <= j THEN t ELSE 0]
BY DEF Shares

\* Without weights the first line has it all.
LEMMA FirstHasAll ==
  ASSUME NEW S \in SUBSET Nat, IsFiniteSet(S), NEW t \in Int, t # 0 => S # {},
         NEW share, share = [i \in S |-> IF \A j \in S : i <= j THEN t ELSE 0]
  PROVE  /\ share \in [S -> Int]
         /\ Total(share, S) = t
         /\ t >= 0 => \A i \in S : 0 <= share[i] /\ share[i] <= t
<1>1. share \in [S -> Int]
  OBVIOUS
<1>2. t >= 0 => \A i \in S : 0 <= share[i] /\ share[i] <= t
  OBVIOUS
<1>3. CASE S = {}
  BY <1>1, <1>2, <1>3, TotalEmpty
<1>4. CASE S # {}
  <2>1. PICK f \in S : \A j \in S : f <= j
    BY <1>4, FirstLine
  <2>2. share[f] = t
    BY <2>1
  <2>3. ASSUME NEW i \in S \ {f} PROVE share[i] = 0
    <3>1. f <= i /\ f # i /\ f \in Nat /\ i \in Nat
      BY <2>1
    <3>2. ~ (i <= f)
      BY <3>1
    <3> QED BY <3>2
  <2>4. Total(share, S) = share[f] + Total(share, S \ {f})
    <3>1. \A i \in S : share[i] \in Int
      BY <1>1
    <3>2. \A x \in S : Total(share, S) = share[x] + Total(share, S \ {x})
      BY <3>1, TotalRemove
    <3> QED BY <3>2
  <2>5. Total(share, S \ {f}) = 0
    <3>1. IsFiniteSet(S \ {f})
      BY FS_Subset
    <3> QED BY <2>3, <3>1, TotalZero
  <2> QED BY <1>1, <1>2, <2>2, <2>4, <2>5
<1> QED BY <1>3, <1>4

\* Rounded down and topped up, the parts add up.
LEMMA ToppedAddsUp ==
  ASSUME NEW S, IsFiniteSet(S), NEW f, \A i \in S : f[i] \in Int, NEW E \in SUBSET S
  PROVE  /\ Topped(f, E, S) \in [S -> Int]
         /\ Total(Topped(f, E, S), S) = Total(f, S) + Cardinality(E)
<1> DEFINE one == [i \in S |-> IF i \in E THEN 1 ELSE 0]
<1>1. Topped(f, E, S) \in [S -> Int]
  BY DEF Topped
<1>2. \A i \in S : one[i] \in Int /\ Topped(f, E, S)[i] = f[i] + one[i]
  BY DEF Topped
<1>3. Total(one, S) = Cardinality(E)
  BY TotalCount
<1> HIDE DEF one
<1>4. Total(Topped(f, E, S), S) = Total(f, S) + Total(one, S)
  BY <1>2, TotalAdd
<1> QED BY <1>1, <1>3, <1>4

\* Whatever is shared out, over whatever lines and weights (of either sign), the shares add up
\* to it (allocateProportionally, which pricing.ts uses for every discount and charge).
THEOREM SharesAddUpTo ==
  ASSUME NEW S \in SUBSET Nat, IsFiniteSet(S), NEW t \in Int, t # 0 => S # {},
         NEW w, \A i \in S : w[i] \in Int, NEW share \in Shares(t, w, S)
  PROVE  share \in [S -> Int] /\ Total(share, S) = t
<1>1. CASE Total(w, S) = 0
  BY <1>1, SharesByNumber, FirstHasAll
<1>2. CASE Total(w, S) # 0
  <2> DEFINE f == Floors(t, w, S)
  <2>1. \A i \in S : f[i] \in Int
    <3> SUFFICES ASSUME NEW i \in S PROVE f[i] \in Int
      OBVIOUS
    <3>1. t * w[i] \in Int /\ Total(w, S) \in Int
      BY Times, TotalInt
    <3> QED BY <1>2, <3>1, FloorDivInt DEF Floors
  <2>2. PICK E \in SUBSET S : Cardinality(E) = Left(t, w, S) /\ share = Topped(f, E, S)
    BY <1>2, SharesByWeight
  <2>3. Total(f, S) \in Int
    BY <2>1, TotalInt
  <2>4. Cardinality(E) = t - Total(f, S)
    BY <2>2 DEF Left
  <2> HIDE DEF f
  <2>5. share \in [S -> Int] /\ Total(share, S) = Total(f, S) + Cardinality(E)
    BY <2>1, <2>2, ToppedAddsUp
  <2> QED BY <2>3, <2>4, <2>5
<1> QED BY <1>1, <1>2

LEMMA Quotient ==
  ASSUME NEW a \in Nat, NEW b \in Nat \ {0}
  PROVE  /\ FloorDiv(a, b) \in Nat
         /\ a - FloorDiv(a, b) * b \in Nat
         /\ a - FloorDiv(a, b) * b <= b - 1
<1> DEFINE q == a \div b
<1>1. q \in Int /\ b * q <= a /\ a < b * q + b
  BY Division
<1>2. FloorDiv(a, b) = q
  BY DEF FloorDiv
<1> HIDE DEF q
<1>3. b * q \in Int /\ q * b = b * q
  BY <1>1, Times
<1>4. q >= 0
  <2> SUFFICES ASSUME q <= -1 PROVE FALSE
    BY <1>1
  <2>1. b * q <= b * (-1)
    BY <1>1, TimesMono
  <2> QED BY <1>1, <1>3, <2>1
<1> QED BY <1>1, <1>2, <1>3, <1>4

\* What is left over once every line has its part rounded down is the sum of the remainders.
LEMMA RestsAddUp ==
  ASSUME NEW S, IsFiniteSet(S), NEW w, \A i \in S : w[i] \in Int, NEW t \in Int,
         NEW f, \A i \in S : f[i] \in Int,
         NEW r, \A i \in S : r[i] = t * w[i] - f[i] * Total(w, S)
  PROVE  Total(r, S) = Total(w, S) * (t - Total(f, S))
<1>0. Total(w, S) \in Int /\ Total(f, S) \in Int
  BY TotalInt
<1>1. PICK sum \in Int : sum = Total(w, S)
  BY <1>0
<1> DEFINE x == [i \in S |-> t * w[i]]
<1> DEFINE y == [i \in S |-> sum * f[i]]
<1>2. \A i \in S : /\ x[i] \in Int /\ y[i] \in Int /\ r[i] = x[i] - y[i]
  BY <1>1, Times
<1>3. Total(x, S) = t * Total(w, S)
  <2>1. \A i \in S : w[i] \in Int /\ x[i] = t * w[i]
    OBVIOUS
  <2> HIDE DEF x, y
  <2> QED BY ONLY IsFiniteSet(S), t \in Int, <2>1, TotalScale
<1>4. Total(y, S) = sum * Total(f, S)
  <2>1. \A i \in S : f[i] \in Int /\ y[i] = sum * f[i]
    OBVIOUS
  <2> HIDE DEF x, y
  <2> QED BY ONLY IsFiniteSet(S), sum \in Int, <2>1, TotalScale
<1> HIDE DEF x, y
<1>5. Total(r, S) = Total(x, S) - Total(y, S)
  BY <1>2, TotalMinus
<1>6. \A z \in Int : t * sum - sum * z = sum * (t - z)
  OBVIOUS
<1> QED BY <1>0, <1>1, <1>3, <1>4, <1>5, <1>6

\* No remainder, nothing on top: a line that gets a paisa more leaves a remainder, so its part
\* rounded down was less than the whole would be.
LEMMA ToppedLeftSome ==
  ASSUME NEW S, IsFiniteSet(S), NEW sum \in Nat \ {0}, NEW left, NEW r,
         \A i \in S : r[i] \in Nat /\ r[i] <= sum - 1, Total(r, S) = sum * left,
         NEW E \in SUBSET S, Cardinality(E) = left, NEW i \in E,
         \A j \in S \ E : r[i] >= r[j]
  PROVE  r[i] > 0
<1> SUFFICES ASSUME r[i] = 0 PROVE FALSE
  OBVIOUS
<1> DEFINE one == [j \in S |-> IF j \in E \ {i} THEN 1 ELSE 0]
<1> DEFINE most == [j \in S |-> IF j \in E \ {i} THEN sum - 1 ELSE 0]
<1>1. \A j \in S : r[j] \in Int /\ most[j] \in Int /\ r[j] <= most[j]
  OBVIOUS
<1>2. \A j \in S : one[j] \in Int /\ most[j] = (sum - 1) * one[j]
  OBVIOUS
<1>3. IsFiniteSet(E) /\ left \in Nat /\ left >= 1 /\ Cardinality(E \ {i}) = left - 1
  <2>1. IsFiniteSet(E)
    BY FS_Subset
  <2>2. Cardinality(E) \in Nat /\ Cardinality(E) # 0
    BY <2>1, FS_CardinalityType, FS_EmptySet
  <2>3. Cardinality(E \ {i}) = Cardinality(E) - 1
    BY <2>1, FS_RemoveElement
  <2> QED BY <2>1, <2>2, <2>3
<1>4. Total(one, S) = left - 1
  <2>1. Total(one, S) = Cardinality(E \ {i})
    BY TotalCount
  <2> QED BY <1>3, <2>1
<1> HIDE DEF one, most
<1>5. Total(most, S) = (sum - 1) * (left - 1)
  BY <1>2, <1>4, TotalScale
<1>6. Total(r, S) <= Total(most, S)
  BY <1>1, TotalMono
<1>7. sum * left <= (sum - 1) * (left - 1)
  BY <1>5, <1>6
<1>8. (sum - 1) * (left - 1) = sum * left - sum - left + 1
  BY <1>3
<1>9. sum * left \in Int
  BY <1>3, Times
<1> QED BY <1>3, <1>7, <1>8, <1>9

\* Nothing negative is given to a line when nothing given is, and of an amount that the lines
\* can bear together none gets more than it can bear itself, whatever the remainders: the paise
\* left over never go to a line without weight or to one that is full.
THEOREM SharesFit ==
  ASSUME NEW S \in SUBSET Nat, IsFiniteSet(S), NEW t \in Nat, t # 0 => S # {},
         NEW w, \A i \in S : w[i] \in Nat, NEW share \in Shares(t, w, S)
  PROVE  \A i \in S : share[i] \in Nat /\ (t <= Total(w, S) => share[i] <= w[i])
<1> DEFINE sum == Total(w, S)
<1>0. sum \in Nat
  BY TotalNat
<1>1. CASE sum = 0
  <2>1. share \in [S -> Int] /\ \A i \in S : 0 <= share[i] /\ share[i] <= t
    BY <1>1, SharesByNumber, FirstHasAll
  <2> QED BY <1>1, <2>1
<1>2. CASE sum # 0
  <2> DEFINE f == Floors(t, w, S)
  <2> DEFINE r == Rests(t, w, S)
  <2>1. PICK E \in SUBSET S :
           /\ Cardinality(E) = Left(t, w, S)
           /\ \A i \in E, j \in S \ E : r[i] > r[j] \/ r[i] = r[j]
           /\ share = Topped(f, E, S)
    BY <1>2, SharesByWeight
  <2>2. ASSUME NEW i \in S
        PROVE  /\ f[i] \in Nat /\ r[i] = t * w[i] - f[i] * sum
               /\ r[i] \in Nat /\ r[i] <= sum - 1
    <3>1. t * w[i] \in Nat
      BY Times
    <3>2. f[i] = FloorDiv(t * w[i], sum)
      BY DEF Floors
    <3>3. f[i] \in Nat /\ t * w[i] - f[i] * sum \in Nat /\ t * w[i] - f[i] * sum <= sum - 1
      BY <1>0, <1>2, <3>1, <3>2, Quotient
    <3>4. r[i] = t * w[i] - f[i] * sum
      <4>1. r[i] = (t * w[i] - f[i] * sum) * 1
        BY <1>0, <1>2 DEF Rests
      <4> QED BY <3>3, <4>1
    <3> QED BY <3>3, <3>4
  <2>3. Total(r, S) = sum * Left(t, w, S)
    <3>1. \A i \in S : f[i] \in Int /\ r[i] = t * w[i] - f[i] * sum
      BY <2>2
    <3>3. \A i \in S : w[i] \in Int
      OBVIOUS
    <3> HIDE DEF f, r
    <3>2. Total(r, S) = sum * (t - Total(f, S))
      <4>1. t \in Int
        OBVIOUS
      <4> QED BY ONLY IsFiniteSet(S), <4>1, <3>1, <3>3, RestsAddUp
    <3> QED BY <3>2 DEF Left, f
  <2>4. \A i \in S : share[i] = IF i \in E THEN f[i] + 1 ELSE f[i]
    BY <2>1 DEF Topped
  <2>5. \A i \in E : r[i] > 0
    <3> SUFFICES ASSUME NEW i \in E PROVE r[i] > 0
      OBVIOUS
    <3>1. \A j \in S : r[j] \in Nat /\ r[j] <= sum - 1
      BY <2>2
    <3>2. \A j \in S \ E : r[i] >= r[j]
      BY <2>1, <3>1
    <3>3. sum \in Nat \ {0} /\ Cardinality(E) = Left(t, w, S)
      BY <1>0, <1>2, <2>1
    <3> HIDE DEF f, r, sum
    <3> QED BY <2>3, <3>1, <3>2, <3>3, ToppedLeftSome
  <2> HIDE DEF f, r
  <2> SUFFICES ASSUME NEW i \in S
               PROVE  share[i] \in Nat /\ (t <= sum => share[i] <= w[i])
    OBVIOUS
  <2> HIDE DEF sum
  <2>6. share[i] \in Nat
    BY <2>2, <2>4
  <2>7. ASSUME t <= sum PROVE share[i] <= w[i]
    <3>1. /\ w[i] \in Nat /\ f[i] \in Nat /\ r[i] \in Nat
          /\ r[i] = t * w[i] - f[i] * sum /\ (i \in E => r[i] > 0)
      BY <2>2, <2>5
    <3>2. w[i] * t <= w[i] * sum
      BY <1>0, <2>7, TimesMono
    <3>3. /\ sum * f[i] \in Int /\ f[i] * sum = sum * f[i] /\ sum * w[i] \in Int
          /\ w[i] * sum = sum * w[i] /\ w[i] * t = t * w[i] /\ t * w[i] \in Int
      BY <1>0, <3>1, Times
    <3>4. sum * f[i] <= sum * w[i] /\ (i \in E => sum * f[i] < sum * w[i])
      BY <3>1, <3>2, <3>3
    <3>5. i \in E => f[i] < w[i]
      BY <1>0, <1>2, <3>1, <3>4, TimesLess
    <3>6. f[i] <= w[i]
      <4> SUFFICES ASSUME w[i] < f[i] PROVE FALSE
        BY <3>1
      <4>1. sum * (w[i] + 1) <= sum * f[i]
        BY <1>0, <3>1, TimesMono
      <4>2. sum * (w[i] + 1) = sum * w[i] + sum
        BY <1>0, <3>1
      <4> QED BY <1>0, <1>2, <3>3, <3>4, <4>1, <4>2
    <3> QED BY <2>4, <3>1, <3>5, <3>6
  <2> QED BY <2>6, <2>7
<1> QED BY <1>1, <1>2

-----------------------------------------------------------------------------
(* Rounding *)

LEMMA RoundNat ==
  ASSUME NEW a \in Nat, NEW b \in Nat \ {0}
  PROVE  /\ RoundPaise(a, b) \in Nat
         /\ 2 * b * RoundPaise(a, b) <= 2 * a + b
<1> DEFINE q == (2 * a + b) \div (2 * b)
<1>1. 2 * a + b \in Nat /\ 2 * b \in Nat \ {0}
  OBVIOUS
<1>2. q \in Int /\ (2 * b) * q <= 2 * a + b /\ 2 * a + b < (2 * b) * q + 2 * b
  <2>1. \A c \in Int, d \in Nat \ {0} : c = 2 * a + b /\ d = 2 * b =>
          c \div d \in Int /\ d * (c \div d) <= c /\ c < d * (c \div d) + d
    BY Division
  <2> QED BY <1>1, <2>1
<1>3. RoundPaise(a, b) = q
  BY DEF RoundPaise
<1> HIDE DEF q
<1>4. q >= 0
  <2> SUFFICES ASSUME q <= -1 PROVE FALSE
    BY <1>2
  <2>1. (2 * b) * q <= (2 * b) * (-1)
    BY <1>1, <1>2, TimesMono
  <2> QED BY <1>2, <2>1
<1> QED BY <1>2, <1>3, <1>4

LEMMA LeastFacts ==
  ASSUME NEW x \in Nat, NEW y, y \in Nat \/ y = Nil
  PROVE  /\ Least(x, y) \in Nat /\ Least(x, y) <= x
         /\ y # Nil => Least(x, y) <= y
BY DEF Least

LEMMA DiscountFacts ==
  ASSUME NEW x, Amounts(x), NEW base \in Nat
  PROVE  Discount(x, base) \in Nat
<1>1. base * x.value \in Nat
  BY Times DEF Amounts
<1>2. ApplyPercentage(base, x.value) \in Nat
  BY <1>1, RoundNat DEF ApplyPercentage
<1> DEFINE d == IF x.type = "PERCENTAGE" THEN ApplyPercentage(base, x.value) ELSE x.value
<1>3. d \in Nat
  BY <1>2 DEF Amounts
<1>4. Discount(x, base) = Least(d, x.max)
  BY DEF Discount
<1> HIDE DEF d
<1> QED BY <1>3, <1>4, LeastFacts DEF Amounts

LEMMA DiscountInt ==
  ASSUME NEW x, Amounts(x), NEW base \in Int
  PROVE  Discount(x, base) \in Int
<1>1. ASSUME NEW a \in Int PROVE RoundPaise(a, 100) \in Int
  <2>1. \A c \in Int : c \div 200 \in Int
    BY Division
  <2> QED BY <2>1 DEF RoundPaise
<1>2. ApplyPercentage(base, x.value) \in Int
  BY <1>1, Times DEF ApplyPercentage, Amounts
<1> QED BY <1>2 DEF Discount, Least, Amounts

-----------------------------------------------------------------------------
(* The invariant of a quote: by its stage, what has been shared out adds up   *)
(* and what has not been is nothing.  Stacked promotions are apart, since     *)
(* their argument does not depend on the lines being covered.                 *)

Stage == {"promotions", "shipping", "offer", "tax", "priced"}
Sum(n) == Total(part[n], Line)
Shipping(s) == charges.shipping[s]
AllShipping == [s \in Sellers |-> charges.shipping[s]]
Nothing == [i \in Line |-> 0]

QuoteTyped ==
  /\ cart \in Carts
  /\ IsFiniteSet(running) /\ (\A p \in running : Amounts(p)) /\ todo \subseteq running
  /\ coupon \in Coupons /\ offer \in Offers /\ charges \in Charges
  /\ stage \in Stage /\ claimed \subseteq Line /\ toShip \subseteq Sellers
  /\ part \in [Names -> [Line -> Int]]

\* What is yet to come is nothing.
NotYet ==
  /\ stage = "promotions" => part["coupon"] = Nothing /\ part["shipping"] = Nothing
  /\ stage \in {"promotions", "shipping"} => part["cash"] = Nothing
  /\ stage \in {"promotions", "shipping", "offer"} => part["offer"] = Nothing
  /\ stage = "promotions" => toShip = {s \in Sellers : charges.shipping[s] > 0}
  /\ stage # "promotions" => todo = {}

PromotionParts ==
  \A i \in Line : part["promotion"][i] >= 0 /\ part["platform"][i] >= 0

CouponShared ==
  Covered =>
    /\ \A i \in Line : part["coupon"][i] >= 0 /\ AfterCoupon[i] >= 0
    /\ stage # "promotions" => Sum("coupon") = CouponDiscount

ShippingShared ==
  Covered =>
    /\ \A i \in Line : part["shipping"][i] >= 0
    /\ stage # "promotions" =>
         Sum("shipping") = IF FreeShipping THEN 0
                           ELSE Total(AllShipping, Sellers) - Total(AllShipping, toShip)
    /\ stage \in {"offer", "tax", "priced"} => FreeShipping \/ toShip = {}

CashShared ==
  Covered =>
    /\ \A i \in Line : part["cash"][i] >= 0
    /\ stage \in {"offer", "tax", "priced"} => Sum("cash") = IF charges.cash THEN charges.fee ELSE 0

OfferShared ==
  Covered =>
    /\ \A i \in Line : part["offer"][i] >= 0 /\ part["offer"][i] <= AfterCoupon[i]
    /\ stage \in {"tax", "priced"} => Sum("offer") = OfferDiscount

Quoted ==
  stage = "priced" =>
    LET lines == [i \in Line |-> Priced(i)]
        sum == Total([i \in Line |-> lines[i].payable], Line)
    IN quote = [lines |-> lines, rounding |-> Rounding(sum), payable |-> sum + Rounding(sum)]

Alone(p) ==
  LET base == Total(Gross, {i \in Line : p.lines = {} \/ i \in p.lines})
  IN IF p.type = "FREE_SHIPPING" THEN 0 ELSE Least(Discount(p, base), base)
Together(ps) == Total([p \in ps |-> Alone(p)], ps)

Stacked ==
  (\A p \in running : ~p.exclusive) =>
    /\ claimed = {}
    /\ Sum("promotion") = Together(running \ todo)
    /\ Sum("platform") = Together({p \in running \ todo : p.platform})

QInv == /\ QuoteTyped /\ NotYet /\ PromotionParts /\ CouponShared /\ ShippingShared
        /\ CashShared /\ OfferShared /\ Quoted /\ Stacked

LEMMA LineFacts ==
  ASSUME QuoteTyped
  PROVE  /\ Line # {} /\ Line \subseteq Nat /\ IsFiniteSet(Line)
         /\ \A i \in Line : Gross[i] \in Nat
         /\ IsFiniteSet(Sellers) /\ \A s \in Sellers : charges.shipping[s] \in Nat
         /\ charges.fee \in Nat
<1>1. /\ Line # {} /\ Line \subseteq Nat /\ IsFiniteSet(Line)
      /\ \A i \in Line : {cart[i].price, cart[i].quantity} \subseteq Nat
  BY PricingAssumption DEF QuoteTyped, Line
<1>2. ASSUME NEW i \in Line PROVE Gross[i] \in Nat
  BY <1>1, Times DEF Gross
<1>3. IsFiniteSet(Sellers)
  <2> DEFINE g == [i \in Line |-> cart[i].seller]
  <2>1. g \in Surjection(Line, Sellers)
    BY DEF Surjection, Sellers
  <2> HIDE DEF g
  <2> QED BY <1>1, <2>1, FS_Surjection
<1>4. \A s \in Sellers : charges.shipping[s] \in Nat
  BY PricingAssumption DEF QuoteTyped, Sellers, Line
<1>5. charges.fee \in Nat
  BY PricingAssumption DEF QuoteTyped
<1> QED BY <1>1, <1>2, <1>3, <1>4, <1>5

LEMMA PartFacts ==
  ASSUME QuoteTyped
  PROVE  /\ \A n \in Names : part[n] \in [Line -> Int]
         /\ AfterPromotions \in [Line -> Int]
         /\ AfterCoupon \in [Line -> Int]
         /\ Covered => \A i \in Line : AfterPromotions[i] \in Nat
<1>1. \A n \in Names : part[n] \in [Line -> Int]
  BY DEF QuoteTyped
<1>2. \A i \in Line : part["promotion"][i] \in Int /\ part["coupon"][i] \in Int
  BY <1>1 DEF Names
<1>3. AfterPromotions \in [Line -> Int]
  BY <1>2, LineFacts DEF AfterPromotions
<1>4. AfterCoupon \in [Line -> Int]
  BY <1>2, <1>3 DEF AfterCoupon
<1> QED BY <1>1, <1>3, <1>4 DEF Covered

\* What is shared out over some lines is added to what they have.
Ints(f, S) == f \in [S -> Int]

Added(f, L, g, S) ==
  /\ Ints(Add(f, g), L)
  /\ Total(Add(f, g), L) = Total(f, L) + Total(g, S)
  /\ \A i \in L : Add(f, g)[i] = IF i \in S THEN f[i] + g[i] ELSE f[i]

LEMMA AddFacts ==
  ASSUME NEW L, IsFiniteSet(L), NEW f, Ints(f, L), NEW S \in SUBSET L, NEW g, Ints(g, S)
  PROVE  Added(f, L, g, S)
<1>0. f \in [L -> Int] /\ g \in [S -> Int]
  BY DEF Ints
<1>1. \A i \in L : Add(f, g)[i] = IF i \in S THEN f[i] + g[i] ELSE f[i]
  BY <1>0 DEF Add
<1>2. Add(f, g) \in [L -> Int]
  BY <1>0, <1>1 DEF Add
<1> DEFINE h == [i \in L |-> IF i \in S THEN g[i] ELSE 0]
<1>3. /\ \A i \in L : h[i] \in Int /\ Add(f, g)[i] = f[i] + h[i]
      /\ \A i \in S : g[i] \in Int /\ h[i] = g[i]
      /\ \A i \in L \ S : h[i] = 0
      /\ \A i \in L : f[i] \in Int
  BY <1>0, <1>1
<1> HIDE DEF h
<1>4. Total(Add(f, g), L) = Total(f, L) + Total(h, L)
  BY <1>3, TotalAdd
<1>5. Total(h, L) = Total(g, S)
  BY <1>3, TotalWithin
<1> QED BY <1>1, <1>2, <1>4, <1>5 DEF Added, Ints

-----------------------------------------------------------------------------
(* What a step keeps *)

LEMMA GivenKept ==
  ASSUME UNCHANGED given
  PROVE  /\ Line' = Line /\ Sellers' = Sellers /\ Gross' = Gross
         /\ AllShipping' = AllShipping /\ Nothing' = Nothing
<1>1. cart' = cart /\ charges' = charges
  BY DEF given
<1> QED BY <1>1 DEF Line, Sellers, Gross, AllShipping, Nothing

LEMMA DiscountsKept ==
  ASSUME UNCHANGED given, part'["promotion"] = part["promotion"]
  PROVE  /\ AfterPromotions' = AfterPromotions /\ Covered' = Covered
         /\ CouponDiscount' = CouponDiscount
<1>1. Line' = Line /\ Gross' = Gross /\ cart' = cart /\ coupon' = coupon
  BY GivenKept DEF given
<1>2. AfterPromotions' = AfterPromotions
  BY <1>1 DEF AfterPromotions
<1>3. Covered' = Covered
  BY <1>1, <1>2 DEF Covered
<1>4. CouponLines(coupon)' = CouponLines(coupon)
  BY <1>1 DEF CouponLines
<1>5. CouponApplies' = CouponApplies
  BY <1>1, <1>2, <1>4 DEF CouponApplies
<1> QED BY <1>1, <1>2, <1>3, <1>4, <1>5 DEF CouponDiscount

LEMMA GoodsKept ==
  ASSUME UNCHANGED given, part'["promotion"] = part["promotion"],
         part'["coupon"] = part["coupon"], waived' = waived
  PROVE  AfterCoupon' = AfterCoupon /\ FreeShipping' = FreeShipping
<1>1. Line' = Line /\ AfterPromotions' = AfterPromotions /\ charges' = charges
  BY GivenKept, DiscountsKept DEF given
<1>2. AfterCoupon' = AfterCoupon
  BY <1>1 DEF AfterCoupon
<1> QED BY <1>1, <1>2 DEF FreeShipping

LEMMA OfferKept ==
  ASSUME UNCHANGED given, \A n \in Names \ {"offer"} : part'[n] = part[n], waived' = waived
  PROVE  OfferDiscount' = OfferDiscount
<1>1. Line' = Line /\ AfterCoupon' = AfterCoupon /\ offer' = offer
  BY GivenKept, GoodsKept DEF given, Names
<1>2. part'["shipping"] = part["shipping"] /\ part'["cash"] = part["cash"]
  BY DEF Names
<1> QED BY <1>1, <1>2 DEF OfferDiscount

\* The promotions stacked so far do not change once the promotions are over.
LEMMA StackedKept ==
  ASSUME Stacked, UNCHANGED <<given, todo, claimed>>,
         part'["promotion"] = part["promotion"], part'["platform"] = part["platform"]
  PROVE  Stacked'
<1>1. /\ Line' = Line /\ Gross' = Gross /\ running' = running
      /\ todo' = todo /\ claimed' = claimed
  BY GivenKept DEF given
<1>2. \A ps : Together(ps)' = Together(ps)
  BY <1>1 DEF Together, Alone
<1> QED BY <1>1, <1>2 DEF Stacked, Sum

-----------------------------------------------------------------------------
(* Promotions *)

\* All of it but the stacked promotions.
Priceless == /\ QuoteTyped /\ NotYet /\ PromotionParts /\ CouponShared /\ ShippingShared
             /\ CashShared /\ OfferShared /\ Quoted

LEMMA PromotionsStage ==
  ASSUME Priceless, stage = "promotions", UNCHANGED <<given, stage, toShip>>,
         todo' \subseteq todo, claimed' \subseteq Line, part' \in [Names -> [Line -> Int]],
         \A n \in Names \ {"promotion", "platform"} : part'[n] = part[n],
         PromotionParts'
  PROVE  Priceless'
<1>1. /\ Line' = Line /\ Sellers' = Sellers /\ Nothing' = Nothing /\ stage' = stage
      /\ toShip' = toShip /\ cart' = cart /\ running' = running /\ coupon' = coupon
      /\ offer' = offer /\ charges' = charges
  BY GivenKept DEF given
<1>2. QuoteTyped /\ NotYet
  BY DEF Priceless
<1>3. QuoteTyped'
  BY <1>1, <1>2 DEF QuoteTyped
<1>4. \A n \in {"coupon", "shipping", "cash", "offer"} : part[n] = Nothing /\ part'[n] = Nothing
  BY <1>2 DEF NotYet, Names
<1>5. NotYet'
  BY <1>1, <1>2, <1>4 DEF NotYet
<1>6. \A n \in {"coupon", "shipping", "cash", "offer"} : \A i \in Line' : part'[n][i] = 0
  BY <1>1, <1>4 DEF Nothing
<1>7. Covered' => \A i \in Line' : AfterCoupon'[i] >= 0
  <2> SUFFICES ASSUME Covered', NEW i \in Line' PROVE AfterCoupon'[i] >= 0
    OBVIOUS
  <2>1. AfterPromotions'[i] \in Int /\ AfterPromotions'[i] >= 0
    <3>1. (QuoteTyped => AfterPromotions \in [Line -> Int])'
      BY PartFacts, PTL
    <3> QED BY <1>3, <3>1 DEF Covered
  <2>2. AfterCoupon'[i] = AfterPromotions'[i] - 0
    BY <1>6 DEF AfterCoupon
  <2> QED BY <2>1, <2>2
<1>8. CouponShared' /\ ShippingShared' /\ CashShared' /\ OfferShared'
  BY <1>1, <1>6, <1>7 DEF CouponShared, ShippingShared, CashShared, OfferShared
<1>9. Quoted'
  BY <1>1 DEF Quoted
<1> QED BY <1>3, <1>5, <1>8, <1>9 DEF Priceless

LEMMA TogetherAdd ==
  ASSUME NEW ps, IsFiniteSet(ps), NEW p, p \notin ps, \A q \in ps \cup {p} : Alone(q) \in Int
  PROVE  Together(ps \cup {p}) = Alone(p) + Together(ps)
<1> DEFINE f == [q \in ps \cup {p} |-> Alone(q)]
<1> DEFINE g == [q \in ps |-> Alone(q)]
<1>1. \A q \in ps \cup {p} : f[q] \in Int
  OBVIOUS
<1>2. \A q \in ps : f[q] = g[q] /\ g[q] \in Int
  OBVIOUS
<1>3. f[p] = Alone(p)
  OBVIOUS
<1>4. IsFiniteSet(ps \cup {p}) /\ (ps \cup {p}) \ {p} = ps /\ p \in ps \cup {p}
  BY FS_AddElement
<1> HIDE DEF f, g
<1>5. Total(f, ps \cup {p}) = f[p] + Total(f, (ps \cup {p}) \ {p})
  BY <1>1, <1>4, TotalRemove
<1>6. Total(f, ps) = Total(g, ps)
  BY <1>2, TotalEq
<1>7. Total(f, ps \cup {p}) = Alone(p) + Total(g, ps)
  BY <1>3, <1>4, <1>5, <1>6
<1> QED BY <1>7 DEF Together, f, g

LEMMA AloneNat ==
  ASSUME QuoteTyped, NEW p \in running
  PROVE  Alone(p) \in Nat
<1> DEFINE L == {i \in Line : p.lines = {} \/ i \in p.lines}
<1>1. IsFiniteSet(L) /\ \A i \in L : Gross[i] \in Nat
  BY LineFacts, FS_Subset
<1>2. Total(Gross, L) \in Nat
  BY <1>1, TotalNat
<1>3. Amounts(p)
  BY DEF QuoteTyped
<1>4. Discount(p, Total(Gross, L)) \in Nat
  BY <1>2, <1>3, DiscountFacts
<1>5. Least(Discount(p, Total(Gross, L)), Total(Gross, L)) \in Nat
  BY <1>2, <1>4, LeastFacts
<1> QED BY <1>5 DEF Alone

\* What a promotion takes is at most what its lines cost, and with nothing claimed it is what
\* it takes alone.
LEMMA TakeFacts ==
  ASSUME QuoteTyped, NEW p \in running
  PROVE  /\ Target(p) \subseteq Line /\ IsFiniteSet(Target(p))
         /\ PromotionDiscount(p) \in Nat
         /\ PromotionDiscount(p) # 0 => Target(p) # {}
         /\ claimed = {} /\ p.type # "FREE_SHIPPING" => PromotionDiscount(p) = Alone(p)
<1>1. Target(p) \subseteq Line /\ IsFiniteSet(Target(p)) /\ \A i \in Target(p) : Gross[i] \in Nat
  BY LineFacts, FS_Subset DEF Target
<1>2. PICK base \in Nat : base = Total(Gross, Target(p))
  BY <1>1, TotalNat
<1>3. Discount(p, base) \in Nat
  BY <1>2, DiscountFacts DEF QuoteTyped
<1>4. PromotionDiscount(p) = Least(Discount(p, base), base)
  BY <1>2 DEF PromotionDiscount
<1>5. base # Nil
  BY PricingAssumption
<1>6. PromotionDiscount(p) \in Nat /\ PromotionDiscount(p) <= base
  BY <1>3, <1>4, <1>5, LeastFacts
<1>7. Target(p) = {} => base = 0
  BY <1>2, TotalEmpty
<1>8. claimed = {} => Target(p) = {i \in Line : p.lines = {} \/ i \in p.lines}
  BY DEF Target
<1>9. claimed = {} /\ p.type # "FREE_SHIPPING" => PromotionDiscount(p) = Alone(p)
  BY <1>8 DEF PromotionDiscount, Alone
<1> QED BY <1>1, <1>6, <1>7, <1>9

LEMMA StackedGrows ==
  ASSUME QuoteTyped, Stacked, NEW p \in todo, todo' = todo \ {p}, UNCHANGED given,
         (\A q \in running : ~q.exclusive) =>
           /\ claimed' = {}
           /\ Sum("promotion")' = Sum("promotion") + Alone(p)
           /\ Sum("platform")' = IF p.platform THEN Sum("platform") + Alone(p) ELSE Sum("platform")
  PROVE  Stacked'
<1>1. running' = running /\ Gross' = Gross /\ Line' = Line
  BY GivenKept DEF given
<1> SUFFICES ASSUME \A q \in running : ~q.exclusive
             PROVE  /\ claimed' = {}
                    /\ Sum("promotion")' = Together(running \ todo)'
                    /\ Sum("platform")' = Together({q \in running \ todo : q.platform})'
  BY <1>1 DEF Stacked
<1>2. \A q : Alone(q)' = Alone(q)
  BY <1>1 DEF Alone
<1>3. /\ \A q \in running : Alone(q) \in Nat
      /\ IsFiniteSet(running) /\ todo \subseteq running
  BY AloneNat DEF QuoteTyped
<1> DEFINE done == running \ todo
<1> DEFINE own == {q \in done : q.platform}
<1>4. IsFiniteSet(done) /\ IsFiniteSet(own) /\ p \notin done /\ p \notin own
  BY <1>3, FS_Subset
<1>5. Sum("promotion") = Together(done) /\ Sum("platform") = Together(own)
  BY <1>1 DEF Stacked
<1>6. Together(done \cup {p}) = Alone(p) + Together(done)
  <2>1. \A q \in done \cup {p} : Alone(q) \in Int
    BY <1>3
  <2> QED BY <1>4, <2>1, TogetherAdd
<1>7. Together(own \cup {p}) = Alone(p) + Together(own)
  <2>1. \A q \in own \cup {p} : Alone(q) \in Int
    BY <1>3
  <2> QED BY <1>4, <2>1, TogetherAdd
<1>8. Together(done) \in Int /\ Together(own) \in Int /\ Alone(p) \in Int
  <2>1. \A q \in done : [x \in done |-> Alone(x)][q] \in Int
    BY <1>3
  <2>2. \A q \in own : [x \in own |-> Alone(x)][q] \in Int
    BY <1>3
  <2> QED BY <1>3, <1>4, <2>1, <2>2, TotalInt DEF Together
<1>9. /\ running' \ todo' = done \cup {p}
      /\ {q \in running' \ todo' : q.platform} = IF p.platform THEN own \cup {p} ELSE own
  BY <1>1, <1>3
<1>10. /\ Together(running \ todo)' = Together(running' \ todo')
       /\ Together({q \in running \ todo : q.platform})'
            = Together({q \in running' \ todo' : q.platform})
  BY <1>2 DEF Together
<1> HIDE DEF done, own
<1>13. Together(running' \ todo') = Together(done \cup {p})
  BY <1>9, Zenon
<1>14. Together({q \in running' \ todo' : q.platform})
         = Together(IF p.platform THEN own \cup {p} ELSE own)
  BY <1>9, Zenon
<1>11. Sum("promotion")' = Together(running \ todo)'
  BY <1>5, <1>6, <1>8, <1>10, <1>13
<1>12. Sum("platform")' = Together({q \in running \ todo : q.platform})'
  <2>1. CASE p.platform
    BY <1>5, <1>7, <1>8, <1>10, <1>14, <2>1
  <2>2. CASE ~p.platform
    BY <1>5, <1>10, <1>14, <2>2
  <2> QED BY <2>1, <2>2
<1> QED BY <1>1, <1>11, <1>12

LEMMA PromotionDiscountsStep ==
  ASSUME Priceless, Stacked, NEW p \in todo, PromotionDiscounts(p)
  PROVE  Priceless' /\ Stacked'
<1> DEFINE d == PromotionDiscount(p)
<1> DEFINE T == Target(p)
<1>1. /\ QuoteTyped /\ p \in running /\ stage = "promotions"
      /\ part \in [Names -> [Line -> Int]] /\ IsFiniteSet(Line) /\ Line \subseteq Nat
  BY LineFacts DEF PromotionDiscounts, Due, Priceless, QuoteTyped
<1>2. /\ T \subseteq Line /\ IsFiniteSet(T) /\ d \in Nat /\ (d # 0 => T # {})
      /\ (claimed = {} => d = Alone(p))
  BY <1>1, TakeFacts DEF PromotionDiscounts
<1>3. PICK share \in Shares(d, Gross, T) :
        part' = [part EXCEPT !["promotion"] = Add(@, share),
                             !["platform"] = IF p.platform THEN Add(@, share) ELSE @]
  BY DEF PromotionDiscounts
<1>4. /\ todo' = todo \ {p} /\ UNCHANGED <<given, stage, toShip>>
      /\ claimed' \subseteq Line /\ (~p.exclusive => claimed' = claimed)
  BY <1>1, <1>2 DEF PromotionDiscounts, QuoteTyped
<1>5. T \in SUBSET Nat /\ \A i \in T : Gross[i] \in Nat /\ Gross[i] \in Int
  BY <1>1, <1>2, LineFacts
<1> HIDE DEF d, T
<1>6. share \in [T -> Int] /\ Total(share, T) = d
  BY <1>2, <1>3, <1>5, SharesAddUpTo
<1>7. \A i \in T : share[i] \in Nat
  BY <1>2, <1>3, <1>5, SharesFit
<1>8. \A n \in {"promotion", "platform"} :
        /\ part[n] \in [Line -> Int]
        /\ Add(part[n], share) \in [Line -> Int]
        /\ Total(Add(part[n], share), Line) = Total(part[n], Line) + d
        /\ \A i \in Line : Add(part[n], share)[i] = IF i \in T THEN part[n][i] + share[i]
                                                              ELSE part[n][i]
  <2>1. \A n \in {"promotion", "platform"} : part[n] \in [Line -> Int]
    BY <1>1 DEF Names
  <2> SUFFICES ASSUME NEW n \in {"promotion", "platform"}
               PROVE  /\ Add(part[n], share) \in [Line -> Int]
                      /\ Total(Add(part[n], share), Line) = Total(part[n], Line) + d
                      /\ \A i \in Line : Add(part[n], share)[i] = IF i \in T THEN part[n][i] + share[i]
                                                                          ELSE part[n][i]
    BY <2>1
  <2>2. part[n] \in [Line -> Int] /\ T \in SUBSET Line
    BY <1>2, <2>1
  <2>3. Ints(part[n], Line) /\ Ints(share, T)
    BY <1>6, <2>2 DEF Ints
  <2>4. Added(part[n], Line, share, T)
    BY <1>1, <2>2, <2>3, AddFacts
  <2> QED BY <1>6, <2>4 DEF Added, Ints
<1>9. /\ part'["promotion"] = Add(part["promotion"], share)
      /\ part'["platform"] = IF p.platform THEN Add(part["platform"], share) ELSE part["platform"]
      /\ \A n \in Names \ {"promotion", "platform"} : part'[n] = part[n]
  BY <1>1, <1>3 DEF Names
<1>10. part' \in [Names -> [Line -> Int]]
  <2>1. \A n \in Names : part'[n] \in [Line -> Int]
    BY <1>1, <1>8, <1>9
  <2>2. part' = [n \in Names |-> part'[n]]
    BY <1>1, <1>3
  <2> QED BY <2>1, <2>2
<1>11. PromotionParts'
  <2>1. \A i \in Line : part["promotion"][i] >= 0 /\ part["platform"][i] >= 0
    BY DEF Priceless, PromotionParts
  <2>2. \A n \in {"promotion", "platform"} : \A i \in Line : Add(part[n], share)[i] >= 0
    BY <1>7, <1>8, <2>1
  <2>3. \A i \in Line : part'["promotion"][i] >= 0 /\ part'["platform"][i] >= 0
    BY <1>9, <2>1, <2>2
  <2>4. Line' = Line
    BY <1>4, GivenKept
  <2> QED BY <2>3, <2>4 DEF PromotionParts
<1>12. Priceless'
  BY <1>1, <1>4, <1>9, <1>10, <1>11, PromotionsStage
<1>13. ASSUME \A q \in running : ~q.exclusive
       PROVE  /\ claimed' = {}
              /\ Sum("promotion")' = Sum("promotion") + Alone(p)
              /\ Sum("platform")' = IF p.platform THEN Sum("platform") + Alone(p) ELSE Sum("platform")
  <2>1. claimed = {} /\ claimed' = {} /\ d = Alone(p) /\ Line' = Line
    BY <1>1, <1>2, <1>4, <1>13, GivenKept DEF Stacked
  <2> QED BY <1>8, <1>9, <2>1 DEF Sum
<1>14. Stacked'
  BY <1>1, <1>4, <1>13, StackedGrows
<1> QED BY <1>12, <1>14

\* A promotion that takes nothing leaves the parts alone.
LEMMA PromotionIdleStep ==
  ASSUME Priceless, Stacked, NEW p \in todo, PromotionFreesShipping(p) \/ PromotionHasNoLines(p)
  PROVE  Priceless' /\ Stacked'
<1>1. /\ QuoteTyped /\ p \in running /\ stage = "promotions" /\ part \in [Names -> [Line -> Int]]
      /\ PromotionParts
  BY DEF PromotionFreesShipping, PromotionHasNoLines, Due, Priceless, QuoteTyped
<1>2. todo' = todo \ {p} /\ UNCHANGED <<given, stage, toShip, part, claimed>>
  BY DEF PromotionFreesShipping, PromotionHasNoLines
<1>3. Line' = Line
  BY <1>2, GivenKept
<1>4. PromotionParts' /\ claimed' \subseteq Line
  BY <1>1, <1>2, <1>3 DEF PromotionParts, QuoteTyped
<1>5. Priceless'
  BY <1>1, <1>2, <1>4, PromotionsStage
<1>6. ASSUME claimed = {} PROVE Alone(p) = 0
  <2>1. CASE p.type = "FREE_SHIPPING"
    BY <2>1 DEF Alone
  <2>2. CASE p.type # "FREE_SHIPPING"
    <3>1. Target(p) = {} \/ PromotionDiscount(p) <= 0
      BY <2>2 DEF PromotionFreesShipping, PromotionHasNoLines
    <3> QED BY <1>1, <1>6, <2>2, <3>1, TakeFacts
  <2> QED BY <2>1, <2>2
<1>7. ASSUME \A q \in running : ~q.exclusive
      PROVE  /\ claimed' = {}
             /\ Sum("promotion")' = Sum("promotion") + Alone(p)
             /\ Sum("platform")' = IF p.platform THEN Sum("platform") + Alone(p) ELSE Sum("platform")
  <2>1. claimed = {} /\ Alone(p) = 0
    BY <1>6, <1>7 DEF Stacked
  <2>2. \A n \in {"promotion", "platform"} : Sum(n)' = Sum(n) /\ Sum(n) \in Int
    <3>1. IsFiniteSet(Line) /\ \A n \in {"promotion", "platform"} : \A i \in Line : part[n][i] \in Int
      BY <1>1, LineFacts DEF Names
    <3> QED BY <1>2, <1>3, <3>1, TotalInt DEF Sum
  <2> QED BY <1>2, <2>1, <2>2
<1>8. Stacked'
  BY <1>1, <1>2, <1>7, StackedGrows
<1> QED BY <1>5, <1>8

-----------------------------------------------------------------------------
(* Coupon *)

LEMMA CouponFacts ==
  ASSUME QuoteTyped
  PROVE  /\ CouponLines(coupon) \subseteq Line
         /\ CouponDiscount \in Int
         /\ CouponDiscount # 0 => CouponLines(coupon) # {}
         /\ Covered => /\ CouponDiscount \in Nat
                       /\ CouponDiscount <= Total(AfterPromotions, CouponLines(coupon))
<1> DEFINE S == CouponLines(coupon)
<1>1. /\ S \in SUBSET Line /\ IsFiniteSet(S) /\ \A i \in S : AfterPromotions[i] \in Int
      /\ Covered => \A i \in S : AfterPromotions[i] \in Nat
  BY LineFacts, PartFacts, FS_Subset DEF CouponLines
<1>2. PICK base \in Int : base = Total(AfterPromotions, S)
  BY <1>1, TotalInt
<1>3. Covered => base \in Nat
  BY <1>1, <1>2, TotalNat
<1>4. CouponDiscount = IF ~CouponApplies \/ coupon.type = "FREE_SHIPPING" THEN 0
                       ELSE Least(Discount(coupon, base), base)
  BY <1>2 DEF CouponDiscount
<1>5. CouponApplies => coupon # Nil /\ S # {}
  BY DEF CouponApplies
<1>6. CouponApplies => Amounts(coupon)
  BY <1>5, PricingAssumption DEF QuoteTyped
<1>7. CouponApplies => Discount(coupon, base) \in Int /\ (Covered => Discount(coupon, base) \in Nat)
  BY <1>3, <1>6, DiscountInt, DiscountFacts
<1>8. Least(Discount(coupon, base), base) \in {Discount(coupon, base), base}
  BY DEF Least
<1>9. CouponDiscount \in Int /\ (CouponDiscount # 0 => S # {})
  BY <1>4, <1>5, <1>7, <1>8
<1>10. base \in Nat => base # Nil
  BY PricingAssumption
<1>11. Covered => CouponDiscount \in Nat /\ CouponDiscount <= base
  <2> SUFFICES ASSUME Covered PROVE CouponDiscount \in Nat /\ CouponDiscount <= base
    OBVIOUS
  <2>1. CASE ~CouponApplies \/ coupon.type = "FREE_SHIPPING"
    BY <1>3, <1>4, <2>1
  <2>2. CASE CouponApplies /\ coupon.type # "FREE_SHIPPING"
    BY <1>3, <1>4, <1>7, <1>10, <2>2, LeastFacts
  <2> QED BY <2>1, <2>2
<1> QED BY <1>1, <1>2, <1>9, <1>11

LEMMA NothingFacts ==
  ASSUME QuoteTyped
  PROVE  Total(Nothing, Line) = 0 /\ Ints(Nothing, Line) /\ \A i \in Line : Nothing[i] = 0
<1>1. \A i \in Line : Nothing[i] = 0
  BY DEF Nothing
<1>2. IsFiniteSet(Line)
  BY LineFacts
<1> QED BY <1>1, <1>2, TotalZero DEF Ints, Nothing

LEMMA CouponShares ==
  ASSUME QuoteTyped, part["coupon"] = Nothing, UseCoupon
  PROVE  /\ part' \in [Names -> [Line -> Int]]
         /\ \A n \in Names \ {"coupon"} : part'[n] = part[n]
         /\ Covered =>
              /\ Total(part'["coupon"], Line) = CouponDiscount
              /\ \A i \in Line : 0 <= part'["coupon"][i] /\ part'["coupon"][i] <= AfterPromotions[i]
<1> DEFINE d == CouponDiscount
<1> DEFINE S == CouponLines(coupon)
<1>1. /\ part \in [Names -> [Line -> Int]] /\ IsFiniteSet(Line) /\ Line \subseteq Nat
      /\ \A i \in Line : AfterPromotions[i] \in Int /\ (Covered => AfterPromotions[i] \in Nat)
      /\ Total(Nothing, Line) = 0 /\ Ints(Nothing, Line) /\ \A i \in Line : Nothing[i] = 0
  BY LineFacts, PartFacts, NothingFacts DEF QuoteTyped
<1>2. /\ S \subseteq Line /\ d \in Int /\ (d # 0 => S # {})
      /\ Covered => d \in Nat /\ d <= Total(AfterPromotions, S)
  BY CouponFacts
<1>3. CASE d > 0
  <2>1. PICK share \in Shares(d, AfterPromotions, S) :
          part' = [part EXCEPT !["coupon"] = Add(@, share)]
    BY <1>3 DEF UseCoupon
  <2>2. /\ S \in SUBSET Nat /\ IsFiniteSet(S)
        /\ \A i \in S : AfterPromotions[i] \in Int /\ (Covered => AfterPromotions[i] \in Nat)
    BY <1>1, <1>2, FS_Subset
  <2> HIDE DEF d, S
  <2>3. share \in [S -> Int] /\ Total(share, S) = d
    BY <1>2, <2>1, <2>2, SharesAddUpTo
  <2>4. Covered => \A i \in S : share[i] \in Nat /\ share[i] <= AfterPromotions[i]
    <3> SUFFICES ASSUME Covered PROVE \A i \in S : share[i] \in Nat /\ share[i] <= AfterPromotions[i]
      OBVIOUS
    <3>1. d \in Nat /\ d <= Total(AfterPromotions, S) /\ \A i \in S : AfterPromotions[i] \in Nat
      BY <1>2, <2>2
    <3> QED BY <1>2, <2>1, <2>2, <3>1, SharesFit
  <2>5. Added(Nothing, Line, share, S)
    <3>1. S \in SUBSET Line /\ Ints(share, S)
      BY <1>2, <2>3 DEF Ints
    <3> QED BY <1>1, <3>1, AddFacts
  <2>6. part'["coupon"] = Add(Nothing, share) /\ \A n \in Names \ {"coupon"} : part'[n] = part[n]
    BY <1>1, <2>1 DEF Names
  <2>7. part' \in [Names -> [Line -> Int]]
    <3>1. \A n \in Names : part'[n] \in [Line -> Int]
      BY <1>1, <2>5, <2>6 DEF Added, Ints
    <3>2. part' = [n \in Names |-> part'[n]]
      BY <1>1, <2>1
    <3> QED BY <3>1, <3>2
  <2>8. Total(part'["coupon"], Line) = d
    BY <1>1, <1>2, <2>3, <2>5, <2>6 DEF Added
  <2>9. ASSUME Covered, NEW i \in Line
        PROVE  0 <= part'["coupon"][i] /\ part'["coupon"][i] <= AfterPromotions[i]
    <3>1. part'["coupon"][i] = IF i \in S THEN 0 + share[i] ELSE 0
      BY <1>1, <2>5, <2>6 DEF Added
    <3>2. AfterPromotions[i] \in Nat
      BY <1>1, <2>9
    <3> QED BY <2>4, <2>9, <3>1, <3>2
  <2> QED BY <2>6, <2>7, <2>8, <2>9 DEF d
<1>4. CASE ~ (d > 0)
  <2>1. part' = part
    BY <1>4 DEF UseCoupon
  <2>2. Covered => d = 0
    BY <1>2, <1>4
  <2> QED BY <1>1, <2>1, <2>2
<1> QED BY <1>3, <1>4

LEMMA UseCouponStep ==
  ASSUME Priceless, Stacked, UseCoupon
  PROVE  Priceless' /\ Stacked'
<1>1. /\ QuoteTyped /\ NotYet /\ PromotionParts /\ stage = "promotions" /\ todo = {}
      /\ stage' = "shipping" /\ UNCHANGED <<given, todo, claimed, toShip>>
      /\ part["coupon"] = Nothing /\ part["shipping"] = Nothing
  BY DEF Priceless, UseCoupon, NotYet
<1>2. /\ part' \in [Names -> [Line -> Int]]
      /\ \A n \in Names \ {"coupon"} : part'[n] = part[n]
      /\ Covered =>
              /\ Total(part'["coupon"], Line) = CouponDiscount
              /\ \A i \in Line : 0 <= part'["coupon"][i] /\ part'["coupon"][i] <= AfterPromotions[i]
  BY <1>1, CouponShares
<1>3. /\ part'["promotion"] = part["promotion"] /\ part'["platform"] = part["platform"]
      /\ part'["shipping"] = Nothing /\ part'["cash"] = Nothing /\ part'["offer"] = Nothing
  BY <1>1, <1>2 DEF Names, NotYet
<1>4. /\ Line' = Line /\ Sellers' = Sellers /\ Nothing' = Nothing /\ AllShipping' = AllShipping
      /\ AfterPromotions' = AfterPromotions /\ Covered' = Covered
      /\ CouponDiscount' = CouponDiscount
      /\ cart' = cart /\ running' = running /\ coupon' = coupon
      /\ offer' = offer /\ charges' = charges
  BY <1>1, <1>3, GivenKept, DiscountsKept DEF given
<1>5. QuoteTyped'
  BY <1>1, <1>2, <1>4 DEF QuoteTyped, Stage
<1>6. NotYet'
  BY <1>1, <1>3, <1>4 DEF NotYet
<1>7. PromotionParts'
  BY <1>1, <1>3, <1>4 DEF PromotionParts
<1>8. /\ Total(Nothing, Line) = 0 /\ \A i \in Line : Nothing[i] = 0
      /\ IsFiniteSet(Sellers) /\ \A s \in Sellers : charges.shipping[s] \in Nat
      /\ \A i \in Line : AfterPromotions[i] \in Int
  BY <1>1, NothingFacts, LineFacts, PartFacts
<1>9. ASSUME Covered, NEW i \in Line PROVE AfterCoupon'[i] \in Nat
  <2>1. AfterCoupon'[i] = AfterPromotions[i] - part'["coupon"][i]
    BY <1>4 DEF AfterCoupon
  <2>2. part'["coupon"][i] \in Int
    BY <1>2 DEF Names
  <2> QED BY <1>2, <1>8, <1>9, <2>1, <2>2
<1>10. CouponShared'
  BY <1>1, <1>2, <1>4, <1>9 DEF CouponShared, Sum
<1>11. ShippingShared'
  <2>1. Total(AllShipping, Sellers) = Total(AllShipping, toShip) /\ Total(AllShipping, toShip) \in Int
    <3>1. toShip = {s \in Sellers : charges.shipping[s] > 0}
      BY <1>1 DEF NotYet
    <3>2. /\ toShip \in SUBSET Sellers /\ IsFiniteSet(toShip)
          /\ \A s \in toShip : AllShipping[s] \in Int /\ AllShipping[s] = AllShipping[s]
          /\ \A s \in Sellers \ toShip : AllShipping[s] = 0
      BY <1>8, <3>1, FS_Subset DEF AllShipping
    <3> QED BY <1>8, <3>2, TotalWithin, TotalInt
  <2> QED BY <1>1, <1>3, <1>4, <1>8, <2>1 DEF ShippingShared, Sum
<1>12. CashShared'
  BY <1>1, <1>3, <1>4, <1>8 DEF CashShared
<1>13. OfferShared'
  BY <1>1, <1>3, <1>4, <1>8, <1>9 DEF OfferShared
<1>14. Quoted'
  BY <1>1 DEF Quoted
<1>15. Stacked'
  BY <1>1, <1>3, StackedKept
<1> QED BY <1>5, <1>6, <1>7, <1>10, <1>11, <1>12, <1>13, <1>14, <1>15 DEF Priceless

-----------------------------------------------------------------------------
(* Shipping, cash fee and offer *)

\* Once the coupon is used, what depends on discounts only stays.
LEMMA DiscountsOver ==
  ASSUME Priceless, Stacked, stage # "promotions", stage' \in Stage \ {"promotions"},
         UNCHANGED <<given, todo, claimed, waived>>, toShip' \subseteq toShip,
         part' \in [Names -> [Line -> Int]],
         \A n \in {"promotion", "platform", "coupon"} : part'[n] = part[n]
  PROVE  /\ QuoteTyped' /\ PromotionParts' /\ CouponShared' /\ Stacked'
         /\ Line' = Line /\ Sellers' = Sellers /\ Nothing' = Nothing /\ AllShipping' = AllShipping
         /\ Covered' = Covered /\ AfterCoupon' = AfterCoupon /\ FreeShipping' = FreeShipping
         /\ charges' = charges
<1>1. part'["promotion"] = part["promotion"] /\ part'["platform"] = part["platform"]
      /\ part'["coupon"] = part["coupon"]
  OBVIOUS
<1>2. /\ Line' = Line /\ Sellers' = Sellers /\ Nothing' = Nothing /\ AllShipping' = AllShipping
      /\ Covered' = Covered /\ AfterCoupon' = AfterCoupon /\ FreeShipping' = FreeShipping
      /\ CouponDiscount' = CouponDiscount
      /\ cart' = cart /\ running' = running /\ coupon' = coupon
      /\ offer' = offer /\ charges' = charges
  BY <1>1, GivenKept, DiscountsKept, GoodsKept DEF given
<1>3. QuoteTyped /\ PromotionParts /\ CouponShared
  BY DEF Priceless
<1>4. QuoteTyped'
  BY <1>2, <1>3 DEF QuoteTyped
<1>5. PromotionParts' /\ CouponShared'
  BY <1>1, <1>2, <1>3 DEF PromotionParts, CouponShared, Sum
<1>6. Stacked'
  BY <1>1, StackedKept
<1> QED BY <1>2, <1>4, <1>5, <1>6

LEMMA ShipStep ==
  ASSUME Priceless, Stacked, NEW s \in toShip, Ship(s)
  PROVE  Priceless' /\ Stacked'
<1> DEFINE S == {i \in Line : cart[i].seller = s}
<1> DEFINE t == charges.shipping[s]
<1>1. /\ stage = "shipping" /\ ~FreeShipping /\ toShip' = toShip \ {s} /\ s \in Sellers
      /\ stage' = stage /\ UNCHANGED <<given, todo, claimed, waived, quote>>
      /\ QuoteTyped /\ NotYet /\ CouponShared /\ ShippingShared /\ toShip \subseteq Sellers
      /\ part \in [Names -> [Line -> Int]] /\ OfferShared /\ CashShared
  BY DEF Ship, Priceless, QuoteTyped
<1>2. /\ IsFiniteSet(Line) /\ Line \subseteq Nat /\ t \in Nat
      /\ IsFiniteSet(Sellers) /\ \A r \in Sellers : charges.shipping[r] \in Nat
      /\ \A i \in Line : AfterCoupon[i] \in Int
  BY <1>1, LineFacts, PartFacts
<1>3. S \in SUBSET Line /\ S \in SUBSET Nat /\ IsFiniteSet(S) /\ S # {}
  BY <1>1, <1>2, FS_Subset DEF Sellers
<1>4. PICK share \in Shares(t, AfterCoupon, S) :
         part' = [part EXCEPT !["shipping"] = Add(@, share)]
  BY DEF Ship
<1> HIDE DEF S
<1>5. share \in [S -> Int] /\ Total(share, S) = t
  <2>1. t \in Int /\ \A i \in S : AfterCoupon[i] \in Int
    BY <1>2, <1>3
  <2> HIDE DEF t
  <2> QED BY <1>3, <1>4, <2>1, SharesAddUpTo
<1>6. Covered => \A i \in S : share[i] \in Nat
  <2> SUFFICES ASSUME Covered PROVE \A i \in S : share[i] \in Nat
    OBVIOUS
  <2>1. t \in Nat /\ \A i \in S : AfterCoupon[i] \in Nat
    BY <1>1, <1>2, <1>3 DEF CouponShared
  <2> HIDE DEF t
  <2> QED BY <1>3, <1>4, <2>1, SharesFit
<1>7. part["shipping"] \in [Line -> Int] /\ Sum("shipping") \in Int
  <2>1. part["shipping"] \in [Line -> Int]
    BY <1>1 DEF Names
  <2>2. \A i \in Line : part["shipping"][i] \in Int
    BY <2>1
  <2> QED BY <1>2, <2>1, <2>2, TotalInt DEF Sum
<1>8. Added(part["shipping"], Line, share, S)
  <2>1. Ints(part["shipping"], Line) /\ Ints(share, S)
    BY <1>5, <1>7 DEF Ints
  <2> QED BY <1>2, <1>3, <2>1, AddFacts
<1>9. /\ part'["shipping"] = Add(part["shipping"], share)
      /\ \A n \in Names \ {"shipping"} : part'[n] = part[n]
  BY <1>1, <1>4 DEF Names
<1>10. part' \in [Names -> [Line -> Int]]
  <2>1. \A n \in Names : part'[n] \in [Line -> Int]
    BY <1>1, <1>8, <1>9 DEF Added, Ints
  <2>2. part' = [n \in Names |-> part'[n]]
    BY <1>1, <1>4
  <2> QED BY <2>1, <2>2
<1>11. \A n \in {"promotion", "platform", "coupon", "cash", "offer"} : part'[n] = part[n]
  BY <1>9 DEF Names
<1>12. /\ QuoteTyped' /\ PromotionParts' /\ CouponShared' /\ Stacked'
       /\ Line' = Line /\ Sellers' = Sellers /\ Nothing' = Nothing /\ AllShipping' = AllShipping
       /\ Covered' = Covered /\ AfterCoupon' = AfterCoupon /\ FreeShipping' = FreeShipping
       /\ charges' = charges
  <2>1. stage # "promotions" /\ stage' \in Stage \ {"promotions"} /\ toShip' \subseteq toShip
    BY <1>1 DEF Stage
  <2> QED BY <1>1, <1>10, <1>11, <2>1, DiscountsOver
<1>13. NotYet'
  BY <1>1, <1>11, <1>12 DEF NotYet
<1>14. ShippingShared'
  <2>1. IsFiniteSet(toShip) /\ IsFiniteSet(toShip') /\ \A r \in toShip : AllShipping[r] \in Int
    BY <1>1, <1>2, FS_Subset DEF AllShipping
  <2>2. Total(AllShipping, toShip) = AllShipping[s] + Total(AllShipping, toShip \ {s})
    BY <2>1, TotalRemove
  <2>3. AllShipping[s] = t
    BY <1>1 DEF AllShipping
  <2>4. Sum("shipping")' = Sum("shipping") + t
    BY <1>5, <1>8, <1>9, <1>12 DEF Sum, Added
  <2>5. /\ Total(AllShipping, toShip \ {s}) \in Int
        /\ Total(AllShipping, toShip) \in Int /\ Total(AllShipping, Sellers) \in Int
    <3>1. IsFiniteSet(toShip \ {s}) /\ \A r \in toShip \ {s} : AllShipping[r] \in Int
      BY <2>1, <1>1
    <3>2. \A r \in Sellers : AllShipping[r] \in Int
      BY <1>2 DEF AllShipping
    <3> QED BY <1>2, <2>1, <3>1, <3>2, TotalInt
  <2>6. Covered => Sum("shipping") = Total(AllShipping, Sellers) - Total(AllShipping, toShip)
    BY <1>1 DEF ShippingShared
  <2>7. Covered => Sum("shipping")' = Total(AllShipping, Sellers) - Total(AllShipping, toShip \ {s})
    <3> HIDE DEF t
    <3> QED BY <1>2, <1>7, <2>2, <2>3, <2>4, <2>5, <2>6
  <2>8. Covered => \A i \in Line : part'["shipping"][i] >= 0
    <3> SUFFICES ASSUME Covered, NEW i \in Line PROVE part'["shipping"][i] >= 0
      OBVIOUS
    <3>1. part'["shipping"][i] = IF i \in S THEN part["shipping"][i] + share[i]
                                 ELSE part["shipping"][i]
      BY <1>8, <1>9 DEF Added
    <3>2. part["shipping"][i] \in Int /\ part["shipping"][i] >= 0
      BY <1>1, <1>7 DEF ShippingShared
    <3> QED BY <1>6, <3>1, <3>2
  <2> QED BY <1>1, <1>12, <2>7, <2>8 DEF ShippingShared
<1>15. CashShared' /\ OfferShared' /\ Quoted'
  BY <1>1, <1>11, <1>12 DEF CashShared, OfferShared, Quoted
<1> QED BY <1>12, <1>13, <1>14, <1>15 DEF Priceless

LEMMA ChargeCashStep ==
  ASSUME Priceless, Stacked, ChargeCash
  PROVE  Priceless' /\ Stacked'
<1> DEFINE t == IF charges.cash THEN charges.fee ELSE 0
<1>1. /\ stage = "shipping" /\ (FreeShipping \/ toShip = {}) /\ stage' = "offer"
      /\ UNCHANGED <<given, todo, claimed, waived, toShip, quote>>
      /\ QuoteTyped /\ NotYet /\ CouponShared /\ ShippingShared
      /\ part \in [Names -> [Line -> Int]] /\ OfferShared
  BY DEF ChargeCash, Priceless, QuoteTyped
<1>2. /\ IsFiniteSet(Line) /\ Line \in SUBSET Nat /\ Line # {} /\ t \in Nat
      /\ \A i \in Line : AfterCoupon[i] \in Int
  BY <1>1, LineFacts, PartFacts
<1>3. PICK share \in Shares(t, AfterCoupon, Line) : part' = [part EXCEPT !["cash"] = share]
  BY DEF ChargeCash
<1>4. share \in [Line -> Int] /\ Total(share, Line) = t
  <2>1. t \in Int
    BY <1>2
  <2> HIDE DEF t, Line
  <2> QED BY <1>2, <1>3, <2>1, SharesAddUpTo
<1>5. Covered => \A i \in Line : share[i] \in Nat
  <2> SUFFICES ASSUME Covered PROVE \A i \in Line : share[i] \in Nat
    OBVIOUS
  <2>1. \A i \in Line : AfterCoupon[i] \in Nat
    BY <1>1, <1>2 DEF CouponShared
  <2> HIDE DEF t
  <2> QED BY <1>2, <1>3, <2>1, SharesFit
<1>6. part'["cash"] = share /\ \A n \in Names \ {"cash"} : part'[n] = part[n]
  BY <1>1, <1>3 DEF Names
<1>7. part' \in [Names -> [Line -> Int]]
  BY <1>1, <1>3, <1>4
<1>8. \A n \in {"promotion", "platform", "coupon", "shipping", "offer"} : part'[n] = part[n]
  BY <1>6 DEF Names
<1>9. /\ QuoteTyped' /\ PromotionParts' /\ CouponShared' /\ Stacked'
      /\ Line' = Line /\ Sellers' = Sellers /\ Nothing' = Nothing /\ AllShipping' = AllShipping
      /\ Covered' = Covered /\ AfterCoupon' = AfterCoupon /\ FreeShipping' = FreeShipping
      /\ charges' = charges
  <2>1. stage # "promotions" /\ stage' \in Stage \ {"promotions"} /\ toShip' \subseteq toShip
    BY <1>1 DEF Stage
  <2> QED BY <1>1, <1>7, <1>8, <2>1, DiscountsOver
<1>10. NotYet'
  BY <1>1, <1>8, <1>9 DEF NotYet
<1>11. ShippingShared'
  BY <1>1, <1>8, <1>9 DEF ShippingShared, Sum
<1>12. CashShared'
  BY <1>1, <1>4, <1>5, <1>6, <1>9 DEF CashShared, Sum
<1>13. OfferShared' /\ Quoted'
  BY <1>1, <1>8, <1>9 DEF OfferShared, Quoted
<1> QED BY <1>9, <1>10, <1>11, <1>12, <1>13 DEF Priceless

LEMMA OfferFacts ==
  ASSUME Priceless
  PROVE  /\ OfferDiscount \in Int
         /\ Covered => OfferDiscount \in Nat /\ OfferDiscount <= Total(AfterCoupon, Line)
<1>1. /\ IsFiniteSet(Line)
      /\ \A i \in Line : /\ AfterCoupon[i] \in Int
                         /\ part["shipping"][i] \in Int /\ part["cash"][i] \in Int
  <2>1. QuoteTyped
    BY DEF Priceless
  <2> QED BY <2>1, LineFacts, PartFacts DEF Names
<1>2. PICK goods \in Int : goods = Total(AfterCoupon, Line)
  BY <1>1, TotalInt
<1>3. PICK shipping \in Int : shipping = Total(part["shipping"], Line)
  BY <1>1, TotalInt
<1>4. PICK cash \in Int : cash = Total(part["cash"], Line)
  BY <1>1, TotalInt
<1>5. Covered => goods \in Nat /\ shipping \in Nat /\ cash \in Nat
  <2> SUFFICES ASSUME Covered PROVE goods \in Nat /\ shipping \in Nat /\ cash \in Nat
    OBVIOUS
  <2>1. \A i \in Line : AfterCoupon[i] \in Nat /\ part["shipping"][i] \in Nat /\ part["cash"][i] \in Nat
    BY <1>1 DEF Priceless, CouponShared, ShippingShared, CashShared
  <2> QED BY <1>1, <1>2, <1>3, <1>4, <2>1, TotalNat
<1> DEFINE transaction == goods + shipping + cash
<1> DEFINE none == offer = Nil \/ transaction < offer.minimum \/ offer.type = "CASHBACK"
<1>6. OfferDiscount = IF none THEN 0 ELSE Least(Discount(offer, transaction), goods)
  BY <1>2, <1>3, <1>4 DEF OfferDiscount
<1>7. transaction \in Int /\ (Covered => transaction \in Nat)
  BY <1>5
<1>8. ~none => Amounts(offer)
  BY PricingAssumption DEF Priceless, QuoteTyped
<1> HIDE DEF transaction, none
<1>9. ~none => Discount(offer, transaction) \in Int /\ (Covered => Discount(offer, transaction) \in Nat)
  BY <1>7, <1>8, DiscountInt, DiscountFacts
<1>10. Least(Discount(offer, transaction), goods) \in {Discount(offer, transaction), goods}
  BY DEF Least
<1>11. goods \in Nat => goods # Nil
  BY PricingAssumption
<1>12. Covered => OfferDiscount \in Nat /\ OfferDiscount <= goods
  <2> SUFFICES ASSUME Covered PROVE OfferDiscount \in Nat /\ OfferDiscount <= goods
    OBVIOUS
  <2>1. CASE none
    BY <1>5, <1>6, <2>1
  <2>2. CASE ~none
    BY <1>5, <1>6, <1>9, <1>11, <2>2, LeastFacts
  <2> QED BY <2>1, <2>2
<1> QED BY <1>2, <1>6, <1>9, <1>10, <1>12

LEMMA UseOfferStep ==
  ASSUME Priceless, Stacked, UseOffer
  PROVE  Priceless' /\ Stacked'
<1> DEFINE d == OfferDiscount
<1>1. /\ stage = "offer" /\ stage' = "tax"
      /\ UNCHANGED <<given, todo, claimed, waived, toShip, quote>>
      /\ QuoteTyped /\ NotYet /\ CouponShared /\ ShippingShared /\ CashShared
      /\ part \in [Names -> [Line -> Int]] /\ part["offer"] = Nothing
  BY DEF UseOffer, Priceless, QuoteTyped, NotYet
<1>2. /\ IsFiniteSet(Line) /\ Line \in SUBSET Nat /\ Line # {}
      /\ \A i \in Line : AfterCoupon[i] \in Int /\ (Covered => AfterCoupon[i] \in Nat)
      /\ d \in Int /\ (Covered => d \in Nat /\ d <= Total(AfterCoupon, Line))
      /\ Total(Nothing, Line) = 0 /\ \A i \in Line : Nothing[i] = 0
  BY <1>1, LineFacts, PartFacts, OfferFacts, NothingFacts DEF CouponShared
<1>3. /\ part' \in [Names -> [Line -> Int]]
      /\ \A n \in Names \ {"offer"} : part'[n] = part[n]
      /\ Covered => /\ Total(part'["offer"], Line) = d
                    /\ \A i \in Line : 0 <= part'["offer"][i] /\ part'["offer"][i] <= AfterCoupon[i]
  <2>1. CASE d > 0
    <3>1. PICK share \in Shares(d, AfterCoupon, Line) : part' = [part EXCEPT !["offer"] = share]
      BY <2>1 DEF UseOffer
    <3> HIDE DEF d
    <3>2. share \in [Line -> Int] /\ Total(share, Line) = d
      BY <1>2, <3>1, SharesAddUpTo
    <3>3. Covered => \A i \in Line : share[i] \in Nat /\ share[i] <= AfterCoupon[i]
      <4> SUFFICES ASSUME Covered PROVE \A i \in Line : share[i] \in Nat /\ share[i] <= AfterCoupon[i]
        OBVIOUS
      <4>1. d \in Nat /\ d <= Total(AfterCoupon, Line) /\ \A i \in Line : AfterCoupon[i] \in Nat
        BY <1>2
      <4> QED BY <1>2, <3>1, <4>1, SharesFit
    <3>4. part'["offer"] = share /\ \A n \in Names \ {"offer"} : part'[n] = part[n]
      BY <1>1, <3>1 DEF Names
    <3>5. part' \in [Names -> [Line -> Int]]
      BY <1>1, <3>1, <3>2
    <3>6. Covered => \A i \in Line : 0 <= share[i] /\ share[i] <= AfterCoupon[i]
      BY <3>3
    <3> QED BY <3>2, <3>4, <3>5, <3>6
  <2>2. CASE ~ (d > 0)
    <3>1. part' = part
      BY <2>2 DEF UseOffer
    <3>2. Covered => d = 0 /\ \A i \in Line : 0 <= AfterCoupon[i]
      BY <1>2, <2>2
    <3> HIDE DEF d
    <3> QED BY <1>1, <1>2, <3>1, <3>2
  <2> QED BY <2>1, <2>2
<1>4. \A n \in {"promotion", "platform", "coupon", "shipping", "cash"} : part'[n] = part[n]
  BY <1>3 DEF Names
<1>5. /\ QuoteTyped' /\ PromotionParts' /\ CouponShared' /\ Stacked'
      /\ Line' = Line /\ Sellers' = Sellers /\ Nothing' = Nothing /\ AllShipping' = AllShipping
      /\ Covered' = Covered /\ AfterCoupon' = AfterCoupon /\ FreeShipping' = FreeShipping
      /\ charges' = charges
  <2>1. stage # "promotions" /\ stage' \in Stage \ {"promotions"} /\ toShip' \subseteq toShip
    BY <1>1 DEF Stage
  <2> QED BY <1>1, <1>3, <1>4, <2>1, DiscountsOver
<1>6. OfferDiscount' = OfferDiscount
  BY <1>1, <1>3, OfferKept
<1>7. NotYet'
  BY <1>1, <1>5 DEF NotYet
<1>8. ShippingShared' /\ CashShared' /\ Quoted'
  BY <1>1, <1>4, <1>5 DEF ShippingShared, CashShared, Quoted, Sum
<1>9. OfferShared'
  BY <1>1, <1>3, <1>5, <1>6 DEF OfferShared, Sum
<1> QED BY <1>5, <1>7, <1>8, <1>9 DEF Priceless

LEMMA PriceStep ==
  ASSUME Priceless, Stacked, Price
  PROVE  Priceless' /\ Stacked'
<1>1. /\ stage = "tax" /\ stage' = "priced"
      /\ UNCHANGED <<given, todo, claimed, waived, part, toShip>>
      /\ QuoteTyped /\ NotYet /\ ShippingShared /\ CashShared /\ OfferShared
      /\ part \in [Names -> [Line -> Int]]
  BY DEF Price, Priceless, QuoteTyped
<1>2. /\ QuoteTyped' /\ PromotionParts' /\ CouponShared' /\ Stacked'
      /\ Line' = Line /\ Sellers' = Sellers /\ Nothing' = Nothing /\ AllShipping' = AllShipping
      /\ Covered' = Covered /\ AfterCoupon' = AfterCoupon /\ FreeShipping' = FreeShipping
      /\ charges' = charges
  <2>1. /\ stage # "promotions" /\ stage' \in Stage \ {"promotions"} /\ toShip' \subseteq toShip
        /\ part' \in [Names -> [Line -> Int]]
        /\ \A n \in {"promotion", "platform", "coupon"} : part'[n] = part[n]
    BY <1>1 DEF Stage
  <2> QED BY <1>1, <2>1, DiscountsOver
<1>3. OfferDiscount' = OfferDiscount
  BY <1>1, OfferKept
<1>4. NotYet'
  BY <1>1, <1>2 DEF NotYet
<1>5. ShippingShared' /\ CashShared' /\ OfferShared'
  BY <1>1, <1>2, <1>3 DEF ShippingShared, CashShared, OfferShared, Sum
<1>6. Quoted'
  <2>1. Gross' = Gross /\ cart' = cart /\ charges' = charges /\ part' = part
    BY <1>1, GivenKept DEF given
  <2>2. \A i : Priced(i)' = Priced(i)
    BY <2>1 DEF Priced
  <2>3. \A x : Rounding(x)' = Rounding(x)
    BY <2>1 DEF Rounding
  <2> QED BY <1>1, <1>2, <2>2, <2>3 DEF Quoted, Price
<1> QED BY <1>2, <1>4, <1>5, <1>6 DEF Priceless

-----------------------------------------------------------------------------
LEMMA QuoteInit == PricingInit => Priceless /\ Stacked
<1> SUFFICES ASSUME PricingInit PROVE Priceless /\ Stacked
  OBVIOUS
<1>1. PICK promotions \in Promotions : running = Loaded(promotions, cart)
  BY DEF PricingInit
<1>2. IsFiniteSet(running) /\ \A p \in running : Amounts(p)
  BY <1>1, PricingAssumption, FS_Subset DEF Loaded
<1>3. part = [n \in Names |-> Nothing]
  BY DEF PricingInit, Nothing
<1>4. part \in [Names -> [Line -> Int]] /\ \A n \in Names : part[n] = Nothing
  BY <1>3 DEF Nothing
<1>5. QuoteTyped
  BY <1>2, <1>4 DEF PricingInit, QuoteTyped, Stage
<1>6. NotYet
  BY <1>4 DEF PricingInit, NotYet, Names
<1>7. \A n \in Names : \A i \in Line : part[n][i] = 0
  BY <1>4 DEF Nothing
<1>8. Covered => \A i \in Line : AfterCoupon[i] >= 0
  <2> SUFFICES ASSUME Covered, NEW i \in Line PROVE AfterCoupon[i] >= 0
    OBVIOUS
  <2>1. AfterPromotions[i] \in Nat /\ AfterCoupon[i] = AfterPromotions[i] - 0
    BY <1>5, <1>7, PartFacts DEF AfterCoupon, Names
  <2> QED BY <2>1
<1>9. PromotionParts /\ CouponShared /\ ShippingShared /\ CashShared /\ OfferShared /\ Quoted
  BY <1>7, <1>8 DEF PricingInit, PromotionParts, CouponShared, ShippingShared, CashShared,
                    OfferShared, Quoted, Names
<1>10. Stacked
  <2>1. claimed = {} /\ running \ todo = {} /\ {p \in running \ todo : p.platform} = {}
    BY DEF PricingInit
  <2>2. Together({}) = 0
    BY TotalEmpty DEF Together
  <2>3. Sum("promotion") = 0 /\ Sum("platform") = 0
    BY <1>4, <1>5, NothingFacts DEF Sum, Names
  <2> QED BY <2>1, <2>2, <2>3, Zenon DEF Stacked
<1> QED BY <1>5, <1>6, <1>9, <1>10 DEF Priceless

\* The inductive invariant of PricingSpec.
QuoteInv == Priceless /\ Stacked

LEMMA QuoteInvariant == PricingSpec => []QuoteInv
<1>1. PricingInit => QuoteInv
  BY QuoteInit DEF QuoteInv
<1>2. QuoteInv /\ [PricingNext]_pricingVars => QuoteInv'
  <2> SUFFICES ASSUME QuoteInv, [PricingNext]_pricingVars PROVE QuoteInv'
    OBVIOUS
  <2>1. ASSUME NEW p \in todo, PromotionDiscounts(p) PROVE QuoteInv'
    BY <2>1, PromotionDiscountsStep DEF QuoteInv
  <2>2. ASSUME NEW p \in todo, PromotionFreesShipping(p) \/ PromotionHasNoLines(p) PROVE QuoteInv'
    BY <2>2, PromotionIdleStep DEF QuoteInv
  <2>3. CASE UseCoupon
    BY <2>3, UseCouponStep DEF QuoteInv
  <2>4. ASSUME NEW s \in toShip, Ship(s) PROVE QuoteInv'
    BY <2>4, ShipStep DEF QuoteInv
  <2>5. CASE ChargeCash
    BY <2>5, ChargeCashStep DEF QuoteInv
  <2>6. CASE UseOffer
    BY <2>6, UseOfferStep DEF QuoteInv
  <2>7. CASE Price
    BY <2>7, PriceStep DEF QuoteInv
  <2>8. CASE UNCHANGED pricingVars
    <3>1. /\ UNCHANGED <<given, todo, stage, claimed, waived, part, toShip, quote>>
      BY <2>8 DEF pricingVars
    <3>2. /\ cart' = cart /\ running' = running /\ coupon' = coupon /\ offer' = offer
          /\ charges' = charges
      BY <3>1 DEF given
    <3>3. /\ Line' = Line /\ Sellers' = Sellers /\ Nothing' = Nothing /\ AllShipping' = AllShipping
          /\ Gross' = Gross /\ Covered' = Covered /\ CouponDiscount' = CouponDiscount
          /\ AfterCoupon' = AfterCoupon /\ FreeShipping' = FreeShipping
          /\ OfferDiscount' = OfferDiscount
      BY <3>1, GivenKept, DiscountsKept, GoodsKept, OfferKept
    <3>4. QuoteTyped' /\ NotYet' /\ PromotionParts'
      BY <3>1, <3>2, <3>3 DEF QuoteInv, Priceless, QuoteTyped, NotYet, PromotionParts
    <3>5. CouponShared' /\ ShippingShared' /\ CashShared' /\ OfferShared'
      BY <3>1, <3>2, <3>3
      DEF QuoteInv, Priceless, CouponShared, ShippingShared, CashShared, OfferShared, Sum
    <3>6. \A i : Priced(i)' = Priced(i)
      BY <3>1, <3>2, <3>3 DEF Priced
    <3>7. \A x : Rounding(x)' = Rounding(x)
      BY <3>2 DEF Rounding
    <3>8. Quoted'
      BY <3>1, <3>3, <3>6, <3>7 DEF QuoteInv, Priceless, Quoted
    <3>9. Stacked'
      BY <3>1, StackedKept DEF QuoteInv
    <3> QED BY <3>4, <3>5, <3>8, <3>9 DEF QuoteInv, Priceless
  <2> QED BY <2>1, <2>2, <2>3, <2>4, <2>5, <2>6, <2>7, <2>8 DEF PricingNext
<1> QED BY <1>1, <1>2, PTL DEF PricingSpec

-----------------------------------------------------------------------------
(* What the invariant means for the properties *)

LEMMA InvariantShares == QuoteInv => SharesAddUp
<1> SUFFICES ASSUME QuoteInv, Covered
             PROVE  /\ \A i \in Line : AfterCoupon[i] >= 0 /\ AfterCoupon[i] >= part["offer"][i]
                    /\ stage \in {"shipping", "offer", "tax", "priced"} =>
                         Total(part["coupon"], Line) = CouponDiscount
                    /\ stage \in {"tax", "priced"} =>
                         /\ Total(part["offer"], Line) = OfferDiscount
                         /\ Total(part["shipping"], Line) =
                              IF FreeShipping THEN 0 ELSE Total(AllShipping, Sellers)
                         /\ Total(part["cash"], Line) = IF charges.cash THEN charges.fee ELSE 0
  BY DEF SharesAddUp, AllShipping
<1>1. CouponShared /\ ShippingShared /\ CashShared /\ OfferShared /\ QuoteTyped
  BY DEF QuoteInv, Priceless
<1>2. \A i \in Line : AfterCoupon[i] \in Int /\ part["offer"][i] \in Int
  BY <1>1, PartFacts DEF Names
<1>3. \A i \in Line : AfterCoupon[i] >= 0 /\ AfterCoupon[i] >= part["offer"][i]
  BY <1>1, <1>2 DEF CouponShared, OfferShared
<1>4. ASSUME stage \in {"tax", "priced"}, ~FreeShipping
      PROVE  Total(part["shipping"], Line) = Total(AllShipping, Sellers)
  <2>1. toShip = {}
    BY <1>1, <1>4 DEF ShippingShared
  <2>2. Total(AllShipping, toShip) = 0
    BY <2>1, TotalEmpty
  <2>3. Total(AllShipping, Sellers) \in Int
    <3>1. \A s \in Sellers : AllShipping[s] \in Int
      BY <1>1, LineFacts DEF AllShipping
    <3> QED BY <1>1, <3>1, LineFacts, TotalInt
  <2> QED BY <1>1, <1>4, <2>2, <2>3 DEF ShippingShared, Sum
<1> QED BY <1>1, <1>3, <1>4 DEF CouponShared, ShippingShared, CashShared, OfferShared, Sum

LEMMA InvariantPromotions == QuoteInv => PromotionsAddUp
<1> SUFFICES ASSUME QuoteInv, todo = {}, \A p \in running : ~p.exclusive
             PROVE  /\ Total(part["promotion"], Line) = Together(running)
                    /\ Total(part["platform"], Line) = Together({p \in running : p.platform})
  BY DEF PromotionsAddUp, Together, Alone
<1>1. running \ todo = running /\ {p \in running \ todo : p.platform} = {p \in running : p.platform}
  OBVIOUS
<1> QED BY <1>1, Zenon DEF QuoteInv, Stacked, Sum

\* Whatever the cart, promotions, coupon, offer and charges: computePricing shares out coupon,
\* offer, shipping and cash fee to the paisa, and takes from no line more than it has.
THEOREM SharesAddUpTheorem == PricingSpec => []SharesAddUp
BY QuoteInvariant, InvariantShares, PTL

\* However many promotions run: when none is exclusive they take together what each takes
\* alone, and the platform pays for its own, in whatever order those of one priority come.
THEOREM PromotionsAddUpTheorem == PricingSpec => []PromotionsAddUp
BY QuoteInvariant, InvariantPromotions, PTL

-----------------------------------------------------------------------------
(* When promotions do not stack *)

\* A promotion takes something from a line, and p is looked at before q (as Due chooses).
Takes(p, i) == p.type # "FREE_SHIPPING" /\ (p.lines = {} \/ i \in p.lines)
Before(p, q) == ~(q.priority <= p.priority)
Suppresses(p, q) == p.exclusive /\ (q.exclusive \/ Before(p, q))

\* Of two promotions that want the same line one suppresses the other.
Apart ==
  \A p, q \in running, i \in Line :
    p # q /\ Takes(p, i) /\ Takes(q, i) => Suppresses(p, q) \/ Suppresses(q, p)

\* The exclusive promotions are looked at before all others.
ExclusiveFirst == \A p, q \in running : p.exclusive /\ ~q.exclusive => Before(p, q)

\* Who may still take from a line finds it whole; nothing has taken more than there is.
Singly ==
  Apart => \A i \in Line :
    /\ part["promotion"][i] <= Gross[i]
    /\ i \notin claimed /\ (\E q \in todo : Takes(q, i)) => part["promotion"][i] = 0

\* While an exclusive promotion is to come, only exclusive ones have taken.
OnlyExclusive ==
  ExclusiveFirst => \A i \in Line :
    i \notin claimed /\ (\E q \in todo : q.exclusive) => part["promotion"][i] = 0

LEMMA TakenByOne ==
  ASSUME QuoteTyped, NEW p \in todo, PromotionDiscounts(p)
  PROVE  /\ \A i \in Line \ Target(p) : part'["promotion"][i] = part["promotion"][i]
         /\ \A i \in Target(p) : /\ part'["promotion"][i] \in Int
                                 /\ part'["promotion"][i] <= part["promotion"][i] + Gross[i]
<1> DEFINE d == PromotionDiscount(p)
<1> DEFINE T == Target(p)
<1>1. /\ p \in running /\ part \in [Names -> [Line -> Int]] /\ IsFiniteSet(Line) /\ Line \subseteq Nat
  BY LineFacts DEF QuoteTyped
<1>2. T \subseteq Line /\ IsFiniteSet(T) /\ d \in Nat /\ (d # 0 => T # {}) /\ d <= Total(Gross, T)
  <2>1. T \subseteq Line /\ IsFiniteSet(T) /\ d \in Nat /\ (d # 0 => T # {})
    BY <1>1, TakeFacts
  <2>2. \A i \in T : Gross[i] \in Nat
    BY <2>1, LineFacts
  <2>3. Total(Gross, T) \in Nat
    BY <2>1, <2>2, TotalNat
  <2>4. Discount(p, Total(Gross, T)) \in Nat
    BY <1>1, <2>3, DiscountFacts DEF QuoteTyped
  <2>5. Total(Gross, T) # Nil
    BY <2>3, PricingAssumption
  <2> QED BY <2>1, <2>3, <2>4, <2>5, LeastFacts DEF PromotionDiscount
<1>3. PICK share \in Shares(d, Gross, T) :
        part' = [part EXCEPT !["promotion"] = Add(@, share),
                             !["platform"] = IF p.platform THEN Add(@, share) ELSE @]
  BY DEF PromotionDiscounts
<1> HIDE DEF d, T
<1>4. T \in SUBSET Nat /\ \A i \in T : Gross[i] \in Nat /\ Gross[i] \in Int
  <2>1. \A i \in Line : Gross[i] \in Nat
    BY LineFacts
  <2> QED BY <1>1, <1>2, <2>1
<1>5. share \in [T -> Int]
  BY <1>2, <1>3, <1>4, SharesAddUpTo
<1>6. \A i \in T : share[i] \in Nat /\ share[i] <= Gross[i]
  BY <1>2, <1>3, <1>4, SharesFit
<1>7. part["promotion"] \in [Line -> Int] /\ part'["promotion"] = Add(part["promotion"], share)
  BY <1>1, <1>3 DEF Names
<1>8. Added(part["promotion"], Line, share, T)
  <2>1. Ints(part["promotion"], Line) /\ Ints(share, T)
    BY <1>5, <1>7 DEF Ints
  <2> QED BY <1>1, <1>2, <2>1, AddFacts
<1>9. \A i \in Line : part'["promotion"][i] = IF i \in T THEN part["promotion"][i] + share[i]
                                                       ELSE part["promotion"][i]
  BY <1>7, <1>8 DEF Added
<1>10. \A i \in T : part["promotion"][i] \in Int
  BY <1>2, <1>7
<1>11. \A i \in T : /\ part'["promotion"][i] \in Int
                    /\ part'["promotion"][i] <= part["promotion"][i] + Gross[i]
  BY <1>2, <1>4, <1>6, <1>9, <1>10
<1>12. \A i \in Line \ T : part'["promotion"][i] = part["promotion"][i]
  BY <1>9
<1> QED BY <1>11, <1>12 DEF T

LEMMA NothingTaken ==
  ASSUME QuoteTyped, [PricingNext]_pricingVars, ~ \E p \in todo : PromotionDiscounts(p)
  PROVE  /\ part'["promotion"] = part["promotion"] /\ claimed' = claimed
         /\ todo' \subseteq todo /\ UNCHANGED given
<1>1. part \in [Names -> [Line -> Int]]
  BY DEF QuoteTyped
<1>2. ASSUME NEW p \in todo, PromotionFreesShipping(p) \/ PromotionHasNoLines(p)
      PROVE  /\ part'["promotion"] = part["promotion"] /\ claimed' = claimed
             /\ todo' \subseteq todo /\ UNCHANGED given
  BY <1>2 DEF PromotionFreesShipping, PromotionHasNoLines
<1>3. CASE UseCoupon
  BY <1>1, <1>3 DEF UseCoupon, Names
<1>4. ASSUME NEW s \in toShip, Ship(s)
      PROVE  /\ part'["promotion"] = part["promotion"] /\ claimed' = claimed
             /\ todo' \subseteq todo /\ UNCHANGED given
  BY <1>1, <1>4 DEF Ship, Names
<1>5. CASE ChargeCash
  BY <1>1, <1>5 DEF ChargeCash, Names
<1>6. CASE UseOffer
  BY <1>1, <1>6 DEF UseOffer, Names
<1>7. CASE Price
  BY <1>7 DEF Price
<1>8. CASE UNCHANGED pricingVars
  BY <1>8 DEF pricingVars
<1> QED BY <1>2, <1>3, <1>4, <1>5, <1>6, <1>7, <1>8 DEF PricingNext

LEMMA InitApart == PricingInit => Singly /\ OnlyExclusive
<1> SUFFICES ASSUME PricingInit PROVE Singly /\ OnlyExclusive
  OBVIOUS
<1>1. \A i \in Line : part["promotion"][i] = 0
  BY DEF PricingInit, Names
<1>2. \A i \in Line : Gross[i] \in Nat
  BY QuoteInit, LineFacts DEF Priceless
<1> QED BY <1>1, <1>2 DEF Singly, OnlyExclusive

LEMMA NextSingly == QuoteTyped /\ Singly /\ [PricingNext]_pricingVars => Singly'
<1> SUFFICES ASSUME QuoteTyped, Singly, [PricingNext]_pricingVars, Apart', NEW i \in Line'
             PROVE  /\ part'["promotion"][i] <= Gross'[i]
                    /\ i \notin claimed' /\ (\E q \in todo' : Takes(q, i)) => part'["promotion"][i] = 0
  BY DEF Singly
<1>1. \A j \in Line : Gross[j] \in Nat /\ part["promotion"][j] \in Int
  BY LineFacts, PartFacts DEF Names
<1>2. ASSUME NEW p \in todo, PromotionDiscounts(p)
      PROVE  /\ part'["promotion"][i] <= Gross'[i]
             /\ i \notin claimed' /\ (\E q \in todo' : Takes(q, i)) => part'["promotion"][i] = 0
  <2>1. /\ UNCHANGED given /\ todo' = todo \ {p} /\ p.type # "FREE_SHIPPING"
        /\ claimed' = IF p.exclusive THEN claimed \cup Target(p) ELSE claimed
        /\ \A q \in todo : p.priority <= q.priority
    BY <1>2 DEF PromotionDiscounts, Due
  <2>2. Line' = Line /\ Gross' = Gross /\ running' = running
    BY <2>1, GivenKept DEF given
  <2>3. Apart /\ i \in Line /\ todo \subseteq running
    BY <2>2 DEF Apart, QuoteTyped
  <2>4. /\ part["promotion"][i] <= Gross[i]
        /\ i \notin claimed /\ (\E q \in todo : Takes(q, i)) => part["promotion"][i] = 0
    BY <2>3 DEF Singly
  <2>5. CASE i \in Target(p)
    <3>1. i \notin claimed /\ Takes(p, i)
      BY <2>1, <2>5 DEF Target, Takes
    <3>2. part["promotion"][i] = 0
      BY <2>4, <3>1
    <3>3. part'["promotion"][i] <= Gross[i]
      BY <1>1, <1>2, <2>3, <2>5, <3>2, TakenByOne
    <3>4. ASSUME NEW q \in todo', Takes(q, i) PROVE i \in claimed'
      <4>1. q \in todo /\ q # p /\ q \in running /\ p \in running
        BY <2>1, <2>3
      <4>2. Suppresses(p, q) \/ Suppresses(q, p)
        BY <2>3, <3>1, <3>4, <4>1 DEF Apart
      <4>3. ~Before(q, p)
        BY <2>1, <4>1 DEF Before
      <4>4. p.exclusive
        BY <4>2, <4>3 DEF Suppresses
      <4> QED BY <2>1, <2>5, <4>4
    <3> QED BY <2>2, <3>3, <3>4
  <2>6. CASE i \notin Target(p)
    <3>1. part'["promotion"][i] = part["promotion"][i]
      BY <1>2, <2>3, <2>6, TakenByOne
    <3> QED BY <2>1, <2>2, <2>4, <3>1
  <2> QED BY <2>5, <2>6
<1>3. CASE ~ \E p \in todo : PromotionDiscounts(p)
  <2>1. /\ part'["promotion"] = part["promotion"] /\ claimed' = claimed
        /\ todo' \subseteq todo /\ UNCHANGED given
    BY <1>3, NothingTaken
  <2>2. Line' = Line /\ Gross' = Gross /\ running' = running
    BY <2>1, GivenKept DEF given
  <2>3. Apart /\ i \in Line
    BY <2>2 DEF Apart
  <2> QED BY <2>1, <2>2, <2>3 DEF Singly
<1> QED BY <1>2, <1>3

LEMMA NextOnlyExclusive ==
  QuoteTyped /\ OnlyExclusive /\ [PricingNext]_pricingVars => OnlyExclusive'
<1> SUFFICES ASSUME QuoteTyped, OnlyExclusive, [PricingNext]_pricingVars, ExclusiveFirst',
                    NEW i \in Line', i \notin claimed', NEW q \in todo', q.exclusive
             PROVE  part'["promotion"][i] = 0
  BY DEF OnlyExclusive
<1>1. ASSUME NEW p \in todo, PromotionDiscounts(p) PROVE part'["promotion"][i] = 0
  <2>1. /\ UNCHANGED given /\ todo' = todo \ {p}
        /\ claimed' = IF p.exclusive THEN claimed \cup Target(p) ELSE claimed
        /\ p.priority <= q.priority
    BY <1>1 DEF PromotionDiscounts, Due
  <2>2. Line' = Line /\ running' = running
    BY <2>1, GivenKept DEF given
  <2>3. ExclusiveFirst /\ i \in Line /\ p \in running /\ q \in todo /\ q \in running
    BY <2>1, <2>2 DEF ExclusiveFirst, QuoteTyped
  <2>4. p.exclusive
    BY <2>1, <2>3 DEF ExclusiveFirst, Before
  <2>5. i \notin claimed /\ i \notin Target(p)
    BY <2>1, <2>4
  <2>6. part["promotion"][i] = 0
    BY <2>3, <2>5 DEF OnlyExclusive
  <2> QED BY <1>1, <2>3, <2>5, <2>6, TakenByOne
<1>2. CASE ~ \E p \in todo : PromotionDiscounts(p)
  <2>1. /\ part'["promotion"] = part["promotion"] /\ claimed' = claimed
        /\ todo' \subseteq todo /\ UNCHANGED given
    BY <1>2, NothingTaken
  <2>2. Line' = Line /\ running' = running
    BY <2>1, GivenKept DEF given
  <2>3. ExclusiveFirst /\ i \in Line
    BY <2>2 DEF ExclusiveFirst
  <2> QED BY <2>1, <2>3 DEF OnlyExclusive
<1> QED BY <1>1, <1>2

\* Promotions that stack may take more off a line than it costs (pricing.ts:211), but not where
\* of two for the same line both are exclusive, or one is and is looked at first: then no line
\* is ever discounted below zero.
THEOREM PromotionsCoverTheorem == PricingSpec => [](Apart => PromotionsCover)
<1>1. QuoteInv /\ Singly => (Apart => PromotionsCover)
  <2> SUFFICES ASSUME QuoteInv, Singly, Apart, NEW i \in Line PROVE AfterPromotions[i] >= 0
    BY DEF PromotionsCover, Covered
  <2>1. Gross[i] \in Nat /\ part["promotion"][i] \in Int /\ part["promotion"][i] <= Gross[i]
    BY LineFacts, PartFacts DEF QuoteInv, Priceless, Names, Singly
  <2> QED BY <2>1 DEF AfterPromotions
<1>2. QuoteInv => QuoteTyped
  BY DEF QuoteInv, Priceless
<1> QED BY <1>1, <1>2, InitApart, NextSingly, QuoteInvariant, PTL DEF PricingSpec

\* "Exclusive promotions suppress others on the lines they touch" (pricing.ts:187): they do when
\* they are looked at before all others, for then a line that one claims has had nothing from
\* any other.
THEOREM ExclusiveSuppressesTheorem ==
  PricingSpec =>
    [][ExclusiveFirst => \A i \in claimed' \ claimed : part["promotion"][i] = 0]_pricingVars
<1>1. /\ QuoteInv /\ OnlyExclusive /\ [PricingNext]_pricingVars
      => [ExclusiveFirst => \A i \in claimed' \ claimed : part["promotion"][i] = 0]_pricingVars
  <2> SUFFICES ASSUME QuoteInv, OnlyExclusive, [PricingNext]_pricingVars, ExclusiveFirst,
                      NEW i \in claimed' \ claimed
               PROVE  part["promotion"][i] = 0
    OBVIOUS
  <2>1. QuoteTyped
    BY DEF QuoteInv, Priceless
  <2>2. PICK p \in todo : PromotionDiscounts(p)
    BY <2>1, NothingTaken
  <2>3. i \in Target(p) /\ p.exclusive
    BY <2>2 DEF PromotionDiscounts
  <2>4. i \in Line /\ i \notin claimed
    BY <2>3 DEF Target
  <2> QED BY <2>3, <2>4 DEF OnlyExclusive
<1>2. QuoteInv => QuoteTyped
  BY DEF QuoteInv, Priceless
<1> QED BY <1>1, <1>2, InitApart, NextOnlyExclusive, QuoteInvariant, PTL DEF PricingSpec

-----------------------------------------------------------------------------
(* Tax *)

\* Tax contained in an amount: at most half of it below a rate of 100, a third up to 33.
LEMMA TaxAtMostHalf ==
  ASSUME NEW a \in Nat, NEW r \in Nat, r <= 99
  PROVE  TaxFromInclusive(a, r) \in Nat /\ 2 * TaxFromInclusive(a, r) <= a
<1>1. CASE r = 0
  BY <1>1 DEF TaxFromInclusive
<1>2. CASE r # 0
  <2>1. a * r \in Nat /\ a * r = r * a
    BY Times
  <2>2. PICK q \in Nat : q = RoundPaise(a * r, 100 + r) /\ 2 * (100 + r) * q <= 2 * (a * r) + (100 + r)
    BY <2>1, RoundNat
  <2>3. TaxFromInclusive(a, r) = q
    BY <1>2, <2>2 DEF TaxFromInclusive
  <2>4. 2 * q <= a
    <3> SUFFICES ASSUME a <= 2 * q - 1 PROVE FALSE
      OBVIOUS
    <3>1. r * a <= r * (2 * q - 1)
      BY TimesMono
    <3>2. r * (2 * q - 1) = 2 * (r * q) - r /\ 2 * (100 + r) * q = 200 * q + 2 * (r * q)
      OBVIOUS
    <3>3. r * q \in Int
      BY Times
    <3>4. 200 * q - 2 * (r * q) <= 100 - r
      BY <2>1, <2>2, <3>1, <3>2, <3>3
    <3>5. q >= 1
      OBVIOUS
    <3>6. (100 - r) * 1 <= (100 - r) * q
      BY <3>5, TimesMono
    <3>7. (100 - r) * q = 100 * q - r * q
      OBVIOUS
    <3> QED BY <3>3, <3>4, <3>6, <3>7
  <2> QED BY <2>3, <2>4
<1> QED BY <1>1, <1>2

LEMMA TaxAtMostThird ==
  ASSUME NEW a \in Nat, NEW r \in Nat, r <= 33
  PROVE  TaxFromInclusive(a, r) \in Nat /\ 3 * TaxFromInclusive(a, r) <= a
<1>1. CASE r = 0
  BY <1>1 DEF TaxFromInclusive
<1>2. CASE r # 0
  <2>1. a * r \in Nat /\ a * r = r * a
    BY Times
  <2>2. PICK q \in Nat : q = RoundPaise(a * r, 100 + r) /\ 2 * (100 + r) * q <= 2 * (a * r) + (100 + r)
    BY <2>1, RoundNat
  <2>3. TaxFromInclusive(a, r) = q
    BY <1>2, <2>2 DEF TaxFromInclusive
  <2>4. 3 * q <= a
    <3> SUFFICES ASSUME a <= 3 * q - 1 PROVE FALSE
      OBVIOUS
    <3>1. r * a <= r * (3 * q - 1)
      BY TimesMono
    <3>2. r * (3 * q - 1) = 3 * (r * q) - r /\ 2 * (100 + r) * q = 200 * q + 2 * (r * q)
      OBVIOUS
    <3>3. r * q \in Int
      BY Times
    <3>4. 200 * q - 4 * (r * q) <= 100 - r
      BY <2>1, <2>2, <3>1, <3>2, <3>3
    <3>5. q >= 1
      OBVIOUS
    <3>6. (200 - 4 * r) * 1 <= (200 - 4 * r) * q
      BY <3>5, TimesMono
    <3>7. (200 - 4 * r) * q = 200 * q - 4 * (r * q)
      OBVIOUS
    <3> QED BY <3>3, <3>4, <3>6, <3>7
  <2> QED BY <2>3, <2>4
<1> QED BY <1>1, <1>2

LEMMA TaxAtMost ==
  ASSUME NEW a \in Nat, NEW r \in Nat, r <= 99
  PROVE  /\ TaxFromInclusive(a, r) \in Nat
         /\ 2 * TaxFromInclusive(a, r) <= a
         /\ r <= 33 => 3 * TaxFromInclusive(a, r) <= a
<1>1. TaxFromInclusive(a, r) \in Nat /\ 2 * TaxFromInclusive(a, r) <= a
  BY TaxAtMostHalf
<1>2. ASSUME r <= 33 PROVE 3 * TaxFromInclusive(a, r) <= a
  BY <1>2, TaxAtMostThird
<1> QED BY <1>1, <1>2

LEMMA SplitFacts ==
  ASSUME NEW tax \in Nat, NEW intra
  PROVE  LET x == SplitGst(tax, intra)
         IN /\ x.cgst \in Nat /\ x.sgst = x.cgst /\ x.igst \in Nat
            /\ x.igst = 0 \/ x.cgst = 0
            /\ x.igst + x.cgst + x.sgst = tax
                 \/ (x.igst = 0 /\ 2 * x.cgst <= tax + 1)
<1>1. RoundPaise(tax, 2) \in Nat /\ 2 * 2 * RoundPaise(tax, 2) <= 2 * tax + 2
  BY RoundNat
<1> QED BY <1>1 DEF SplitGst

\* The two halves of an odd tax make a paisa more than it, which what is taxed can bear.
LEMMA TaxFits ==
  ASSUME NEW goods \in Nat, NEW extra \in Nat, NEW t \in Nat, NEW u \in Nat, NEW c \in Nat,
         \/ 2 * t <= goods /\ 2 * u <= extra /\ 3 * c <= goods
         \/ 3 * t <= goods /\ 3 * u <= extra /\ 2 * c <= goods,
         NEW h \in Nat, 2 * h <= t + u + 1
  PROVE  2 * h + c <= goods + extra
<1>1. CASE 2 * t <= goods /\ 2 * u <= extra /\ 3 * c <= goods
  BY <1>1
<1>2. CASE 3 * t <= goods /\ 3 * u <= extra /\ 2 * c <= goods
  BY <1>2
<1> QED BY <1>1, <1>2

LEMMA RoundingFacts ==
  ASSUME NEW a \in Nat
  PROVE  /\ Rounding(a) \in Int /\ a + Rounding(a) >= 0
         /\ charges.cash => (a + Rounding(a)) % 100 = 0
<1> DEFINE r == a % 100
<1>1. r \in 0 .. 99 /\ a = 100 * (a \div 100) + r /\ a \div 100 \in Int
  OBVIOUS
<1>2. \A k \in Int : (100 * k) % 100 = 0
  OBVIOUS
<1>3. Rounding(a) = IF ~charges.cash \/ r = 0 THEN 0 ELSE IF r < 50 THEN -r ELSE 100 - r
  BY DEF Rounding
<1> DEFINE k == a \div 100
<1>4. k \in Int /\ a = 100 * k + r /\ r <= a
  BY <1>1
<1> HIDE DEF r, k
<1>5. Rounding(a) \in Int /\ a + Rounding(a) >= 0
  BY <1>1, <1>3, <1>4
<1>6. charges.cash => a + Rounding(a) = 100 * k \/ a + Rounding(a) = 100 * (k + 1)
  BY <1>1, <1>3, <1>4
<1>7. k + 1 \in Int
  BY <1>4
<1> QED BY <1>2, <1>4, <1>5, <1>6, <1>7

\* Rates as they occur: of GST and cess one is below 100, the other at most 33.  At a GST of 100
\* the two halves of the tax on a line of one paisa make two, and at 34 for both those on two
\* paise and the cess make three: no such quote would be accepted.
Moderate ==
  \A c \in Carts : \A i \in DOMAIN c :
    \/ c[i].gst <= 99 /\ c[i].cess <= 33
    \/ c[i].gst <= 33 /\ c[i].cess <= 99

LEMMA PricedLine ==
  ASSUME Moderate, QuoteInv, Covered, NEW i \in Line
  PROVE  LET x == Priced(i)
         IN /\ LineAccepted(x)
            /\ x.discount \in Int /\ x.payable \in Nat
            /\ x.payable = Gross[i] - x.discount + part["shipping"][i] + part["cash"][i]
<1>1. QuoteTyped /\ PromotionParts /\ CouponShared /\ ShippingShared /\ CashShared /\ OfferShared
  BY DEF QuoteInv, Priceless
<1>2. \A n \in Names : part[n][i] \in Int
  BY <1>1, PartFacts
<1>3. /\ \A n \in Names : part[n][i] \in Nat
      /\ Gross[i] \in Nat /\ AfterCoupon[i] \in Int /\ part["offer"][i] <= AfterCoupon[i]
      /\ AfterCoupon[i] = Gross[i] - part["promotion"][i] - part["coupon"][i]
  <2>1. \A n \in Names : part[n][i] >= 0
    BY <1>1, <1>2 DEF Names, PromotionParts, CouponShared, ShippingShared, CashShared, OfferShared
  <2>2. AfterCoupon[i] = Gross[i] - part["promotion"][i] - part["coupon"][i]
    BY DEF AfterCoupon, AfterPromotions
  <2> QED BY <1>1, <1>2, <2>1, <2>2, LineFacts, PartFacts DEF OfferShared
<1>4. PICK gr \in Nat, pr \in Nat, pl \in Nat, co \in Nat, sh \in Nat, ca \in Nat, of \in Nat :
        /\ gr = Gross[i] /\ pr = part["promotion"][i] /\ pl = part["platform"][i]
        /\ co = part["coupon"][i] /\ sh = part["shipping"][i] /\ ca = part["cash"][i]
        /\ of = part["offer"][i]
  BY <1>3 DEF Names
<1>5. of <= gr - pr - co
  BY <1>3, <1>4
<1>6. PICK goods \in Nat : goods = gr - (pr + co + of)
  BY <1>5
<1>7. PICK extra \in Nat : extra = sh + ca
  OBVIOUS
<1>8. PICK gst \in Nat, cess \in Nat :
        /\ gst = cart[i].gst /\ cess = cart[i].cess
        /\ \/ gst <= 99 /\ cess <= 33
           \/ gst <= 33 /\ cess <= 99
  BY <1>1, PricingAssumption DEF Moderate, QuoteTyped, Line
<1>9. gst <= 99 /\ cess <= 99
  BY <1>8
<1>10. PICK t \in Nat :
        /\ t = TaxFromInclusive(goods, gst) /\ 2 * t <= goods
        /\ gst <= 33 => 3 * t <= goods
  BY <1>9, TaxAtMost
<1>11. PICK u \in Nat :
        /\ u = TaxFromInclusive(extra, gst) /\ 2 * u <= extra
        /\ gst <= 33 => 3 * u <= extra
  BY <1>9, TaxAtMost
<1>12. PICK c \in Nat :
        /\ c = TaxFromInclusive(goods, cess) /\ 2 * c <= goods
        /\ cess <= 33 => 3 * c <= goods
  BY <1>9, TaxAtMost
<1> DEFINE Bearable == \/ 2 * t <= goods /\ 2 * u <= extra /\ 3 * c <= goods
                       \/ 3 * t <= goods /\ 3 * u <= extra /\ 2 * c <= goods
<1>13. Bearable
  BY <1>8, <1>10, <1>11, <1>12
<1> DEFINE g == SplitGst(t + u, cart[i].intra)
<1> DEFINE tax == g.cgst + g.sgst + g.igst + c
<1>14. /\ g.cgst \in Nat /\ g.sgst = g.cgst /\ g.igst \in Nat
       /\ g.igst = 0 \/ g.cgst = 0
       /\ g.igst + g.cgst + g.sgst = t + u \/ (g.igst = 0 /\ 2 * g.cgst <= t + u + 1)
  <2>1. t + u \in Nat
    OBVIOUS
  <2> QED BY <2>1, SplitFacts
<1>15. PICK p \in Nat : p = Least(pl, pr) /\ p <= pr
  <2>1. pr # Nil
    BY PricingAssumption
  <2> QED BY <2>1, LeastFacts
<1> DEFINE x == Priced(i)
<1> DEFINE got == [n \in Names |-> part[n][i]]
<1>16. /\ got["promotion"] = pr /\ got["platform"] = pl /\ got["coupon"] = co
       /\ got["shipping"] = sh /\ got["cash"] = ca /\ got["offer"] = of
       /\ Gross[i] - (got["promotion"] + got["coupon"] + got["offer"]) = goods
       /\ got["shipping"] + got["cash"] = extra
       /\ Least(got["platform"], got["promotion"]) = p
  BY <1>4, <1>6, <1>7, <1>15 DEF Names
<1>17. /\ x.gross = gr /\ x.platform = p /\ x.promotion = pr - p /\ x.coupon = co /\ x.offer = of
       /\ x.discount = pr + co + of /\ x.shipping = sh /\ x.cash = ca
       /\ x.taxable = goods + extra - tax /\ x.gst = g /\ x.cess = c /\ x.tax = tax
       /\ x.payable = goods + extra
  <2> HIDE DEF got
  <2>1. /\ x.gross = gr /\ x.platform = p /\ x.promotion = pr - p /\ x.coupon = co /\ x.offer = of
    BY <1>4, <1>16 DEF Priced, got
  <2>2. x.discount = pr + co + of /\ x.shipping = sh /\ x.cash = ca /\ x.payable = goods + extra
    BY <1>4, <1>16 DEF Priced, got
  <2>3. x.cess = c
    BY <1>4, <1>8, <1>12, <1>16 DEF Priced, got
  <2>4. x.gst = g
    BY <1>4, <1>8, <1>10, <1>11, <1>16 DEF Priced, got
  <2>5. x.tax = tax
    BY <1>4, <1>8, <1>10, <1>11, <1>12, <1>16 DEF Priced, got
  <2>6. x.taxable = goods + extra - tax
    BY <1>4, <1>8, <1>10, <1>11, <1>12, <1>16 DEF Priced, got
  <2> QED BY <2>1, <2>2, <2>3, <2>4, <2>5, <2>6
<1>18. DOMAIN x \ {"gst"} = {"gross", "platform", "promotion", "coupon", "offer", "discount",
                             "shipping", "cash", "taxable", "cess", "tax", "payable"}
  BY DEF Priced
<1> HIDE DEF x, got
<1>19. tax \in Nat /\ tax <= goods + extra
  <2> DEFINE h == g.cgst
  <2> DEFINE k == g.igst
  <2>1. h \in Nat /\ k \in Nat /\ tax = h + h + k + c
    BY <1>14
  <2>2. k + h + h = t + u \/ (k = 0 /\ 2 * h <= t + u + 1)
    BY <1>14
  <2> HIDE DEF h, k, g, tax
  <2>3. CASE k + h + h = t + u
    BY <1>10, <1>11, <1>13, <2>1, <2>3
  <2>4. CASE k = 0 /\ 2 * h <= t + u + 1
    <3>1. 2 * h + c <= goods + extra
      BY <1>13, <2>1, <2>4, TaxFits
    <3> QED BY <2>1, <2>4, <3>1
  <2> QED BY <2>2, <2>3, <2>4
<1>20. \A n \in DOMAIN x \ {"gst"} : x[n] >= 0
  <2>1. /\ x["gross"] >= 0 /\ x["platform"] >= 0 /\ x["promotion"] >= 0 /\ x["coupon"] >= 0
        /\ x["offer"] >= 0 /\ x["discount"] >= 0 /\ x["shipping"] >= 0 /\ x["cash"] >= 0
        /\ x["taxable"] >= 0 /\ x["cess"] >= 0 /\ x["tax"] >= 0 /\ x["payable"] >= 0
    <3> HIDE DEF g, tax
    <3> QED BY <1>15, <1>17, <1>19
  <2> QED BY <1>18, <2>1
<1>21. x.gst.cgst >= 0 /\ x.gst.igst >= 0 /\ x.gst.cgst = x.gst.sgst /\ (x.gst.igst = 0 \/ x.gst.cgst = 0)
  <2> HIDE DEF g, tax
  <2> QED BY <1>14, <1>17
<1>22. x.tax = x.gst.cgst + x.gst.sgst + x.gst.igst + x.cess
  <2>1. x.gst = g /\ x.cess = c /\ x.tax = g.cgst + g.sgst + g.igst + c
    BY <1>17
  <2> HIDE DEF g, tax
  <2> QED BY <2>1
<1>23. x.discount = x.platform + x.coupon + x.promotion + x.offer
  BY <1>15, <1>17
<1>24. x.payable = x.gross - x.discount + x.shipping + x.cash
  BY <1>6, <1>7, <1>17
<1>25. LineAccepted(x)
  BY <1>20, <1>21, <1>22, <1>23, <1>24 DEF LineAccepted
<1>26. x.discount \in Int /\ x.payable \in Nat /\ x.payable = gr - x.discount + sh + ca
  BY <1>17, <1>24
<1> QED BY <1>4, <1>25, <1>26 DEF x

LEMMA InvariantChecks == ASSUME Moderate PROVE QuoteInv => ChecksAccept
<1> SUFFICES ASSUME QuoteInv, stage = "priced", Covered
    PROVE  /\ \A i \in Line : LineAccepted(quote.lines[i])
           /\ quote.payable >= 0
           /\ charges.cash => quote.payable % 100 = 0
           /\ quote.payable = Total(Gross, Line) + Total(part["shipping"], Line)
                                + Total(part["cash"], Line) + quote.rounding
                                - Total([i \in Line |-> quote.lines[i].discount], Line)
  BY DEF ChecksAccept
<1> DEFINE lines == [i \in Line |-> Priced(i)]
<1> DEFINE pay == [i \in Line |-> lines[i].payable]
<1> DEFINE off == [i \in Line |-> lines[i].discount]
<1> DEFINE sum == Total(pay, Line)
<1>1. quote = [lines |-> lines, rounding |-> Rounding(sum), payable |-> sum + Rounding(sum)]
  BY DEF QuoteInv, Priceless, Quoted
<1>2. quote.lines = lines /\ quote.rounding = Rounding(sum) /\ quote.payable = sum + Rounding(sum)
  BY <1>1
<1>3. QuoteTyped
  BY DEF QuoteInv, Priceless
<1>4. ASSUME NEW i \in Line
      PROVE  /\ LineAccepted(lines[i]) /\ off[i] \in Int /\ pay[i] \in Nat
             /\ pay[i] = Gross[i] - off[i] + part["shipping"][i] + part["cash"][i]
  BY PricedLine
<1>5. /\ IsFiniteSet(Line)
      /\ \A i \in Line : /\ Gross[i] \in Int
                         /\ part["shipping"][i] \in Int /\ part["cash"][i] \in Int
  BY <1>3, LineFacts, PartFacts DEF Names
<1> DEFINE less == [i \in Line |-> Gross[i] - off[i]]
<1> DEFINE more == [i \in Line |-> part["shipping"][i] + part["cash"][i]]
<1>6. \A i \in Line : /\ off[i] \in Int /\ pay[i] \in Nat
                     /\ less[i] \in Int /\ less[i] = Gross[i] - off[i]
                     /\ more[i] \in Int /\ more[i] = part["shipping"][i] + part["cash"][i]
                     /\ pay[i] = less[i] + more[i]
  BY <1>4, <1>5
<1>7. \A i \in Line : LineAccepted(quote.lines[i])
  BY <1>2, <1>4
<1>8. [i \in Line |-> quote.lines[i].discount] = off
  BY <1>2
<1> HIDE DEF pay, off, less, more
<1>9. sum \in Nat
  BY <1>5, <1>6, TotalNat
<1>10. sum = Total(less, Line) + Total(more, Line)
  BY <1>5, <1>6, TotalAdd
<1>11. Total(less, Line) = Total(Gross, Line) - Total(off, Line)
  BY <1>5, <1>6, TotalMinus
<1>12. Total(more, Line) = Total(part["shipping"], Line) + Total(part["cash"], Line)
  BY <1>5, <1>6, TotalAdd
<1>13. /\ Total(Gross, Line) \in Int /\ Total(off, Line) \in Int
       /\ Total(part["shipping"], Line) \in Int /\ Total(part["cash"], Line) \in Int
  BY <1>5, <1>6, TotalInt
<1> HIDE DEF sum, lines
<1>14. /\ Rounding(sum) \in Int /\ sum + Rounding(sum) >= 0
       /\ charges.cash => (sum + Rounding(sum)) % 100 = 0
  BY <1>9, RoundingFacts
<1>15. quote.payable = Total(Gross, Line) + Total(part["shipping"], Line)
                         + Total(part["cash"], Line) + quote.rounding - Total(off, Line)
  BY <1>2, <1>9, <1>10, <1>11, <1>12, <1>13, <1>14
<1> QED BY <1>2, <1>7, <1>8, <1>14, <1>15

\* Whatever the cart, promotions, coupon, offer and charges, at moderate rates of GST and cess:
\* a quote passes the CHECKs of order_item_price_breakdowns line by line, is whole rupees for
\* cash, and its total closes with its rounding.
THEOREM ChecksAcceptTheorem == ASSUME Moderate PROVE PricingSpec => []ChecksAccept
BY QuoteInvariant, InvariantChecks, PTL

\* Where no two promotions stack on a line no quote is refused: every line of every quote
\* satisfies the CHECKs that the order tables put on it (pricing.ts:399), nothing is assumed of
\* what the discounts come to.
THEOREM QuotesAcceptedTheorem ==
  ASSUME Moderate
  PROVE  PricingSpec => [](Apart /\ stage = "priced" => \A i \in Line : LineAccepted(quote.lines[i]))
<1>1. /\ ChecksAccept /\ (Apart => PromotionsCover)
      => (Apart /\ stage = "priced" => \A i \in Line : LineAccepted(quote.lines[i]))
  BY DEF ChecksAccept, PromotionsCover
<1> QED BY <1>1, ChecksAcceptTheorem, PromotionsCoverTheorem, PTL
=============================================================================
