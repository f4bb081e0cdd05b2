----------------------------- MODULE Onboarding -----------------------------
(***************************************************************************)
(* A business becomes a seller (SellerService, the onboarding part) and    *)
(* the staff decide about it (AdminSellerService).  The owner's requests   *)
(* pass through Access; registering a seller and suspending one change who *)
(* may act for it and evict principals.                                    *)
(*                                                                         *)
(* What a request checks it reads before its transaction, and the step the *)
(* onboarding is at inside it: reads and commits are separate actions.     *)
(* Only what was handed in counts, not what it says or who verified it.    *)
(* There is no approval: approve updates the row of the append-only status *)
(* history that its own trigger has just written, so it never commits.     *)
(***************************************************************************)
EXTENDS Access

CONSTANTS
  HandedIn,  \* what a seller under way at first may have handed in, sets of items
  MaxEvents  \* bound: things that the owner, staff and the weather ask for

VARIABLES
  seller,  \* seller.sellers: status, onboarding_step and what was handed in
  events   \* how much was asked for

vars == <<accessVars, seller, events>>

Item == {"TAX", "BANK", "WAREHOUSE", "PAN"}

ASSUME OnboardingAssumption == HandedIn \subseteq SUBSET Item /\ MaxEvents \in Nat

\* ONBOARDING_ORDER, counted from BUSINESS_DETAILS = 0.
Complete == 6
NextStep == [i \in Item |->
  CASE i = "TAX" -> 2 [] i = "BANK" -> 3 [] i = "WAREHOUSE" -> 4 [] OTHER -> 0]

SellerStatus == {"DRAFT", "DOCUMENTS_PENDING", "ACTION_REQUIRED", "UNDER_REVIEW", "REJECTED", "SUSPENDED"}
SellerRecord == [status: SellerStatus, step: 0..Complete, has: SUBSET Item]
Principal == [scope: SUBSET Seller, active: BOOLEAN, old: BOOLEAN]
Work == [at: {"PROFILE", "ROLES", "SET", "GUARD", "IN", "CREATE", "WRITE", "SAVE", "SUBMIT"},
         does: Item \cup {"REGISTER", "SUBMIT"}, on: Seller \cup {None}, who: Principal, step: 0..Complete]

\* None is neither a row nor a request nor a principal.
ASSUME NoneAssumption == None \notin SellerRecord \cup Principal \cup Work

Registered == {s \in Seller : seller[s] # None}
Is(s, statuses) == s \in Registered /\ seller[s].status \in statuses

Draft(has, step) == [status |-> "DRAFT", step |-> step, has |-> has]

-----------------------------------------------------------------------------
(* register *)

CheckOwner(r) ==
  /\ At(r, {"IN"}) /\ req[r].does = "REGISTER"
  /\ Registered = {}
  /\ Goes(r, "CREATE")
  /\ UNCHANGED <<scope, active, cache, redis, due, missed, seller>>

\* The seller, its owner and the owner's grant in one transaction, then the eviction.
Create(r, s) ==
  /\ At(r, {"CREATE"})
  /\ s \notin Registered
  /\ seller' = [seller EXCEPT ![s] = Draft({}, 1)]
  /\ GrantsBecome(scope \cup {s}, [req EXCEPT ![r] = None])
  /\ UNCHANGED <<active, redis, missed>>

-----------------------------------------------------------------------------
(* upsertTaxProfile, addBankAccount, addWarehouse, addDocument *)

\* assertMembership and assertEditable; a warehouse may be added at any time.
CheckEditable(r) ==
  /\ At(r, {"IN"}) /\ req[r].does \in Item
  /\ req[r].on \in Registered
  /\ req[r].does # "WAREHOUSE" => Is(req[r].on, {"DRAFT", "DOCUMENTS_PENDING", "ACTION_REQUIRED"})
  /\ Goes(r, "WRITE")
  /\ UNCHANGED <<scope, active, cache, redis, due, missed, seller>>

\* Mutant: the step is not compared with the one the onboarding is at.
MutAdvance(r) ==
  /\ At(r, {"WRITE"}) /\ req[r].does \in Item
  /\ \A q \in Request : At(q, {"SAVE"}) => <<req[q].does, req[q].on>> # <<req[r].does, req[r].on>>
  /\ req' = [req EXCEPT ![r].at = "SAVE", ![r].step = NextStep[req[r].does]]
  /\ UNCHANGED <<scope, active, cache, redis, due, missed, seller>>

\* The transaction writes the item, which another one that writes the same item waits for, and
\* advanceOnboarding reads the step.
Advance(r) ==
  /\ At(r, {"WRITE"}) /\ req[r].does \in Item
  /\ \A q \in Request : At(q, {"SAVE"}) => <<req[q].does, req[q].on>> # <<req[r].does, req[r].on>>
  /\ LET next == NextStep[req[r].does] IN
       req' = [req EXCEPT ![r].at = "SAVE",
                          ![r].step = IF next > seller[req[r].on].step THEN next ELSE 0]
  /\ UNCHANGED <<scope, active, cache, redis, due, missed, seller>>

\* It sets the step, if that was to be, and commits.
Save(r) ==
  /\ At(r, {"SAVE"})
  /\ seller' = [seller EXCEPT ![req[r].on].has = @ \cup {req[r].does},
                              ![req[r].on].step = IF req[r].step > 0 THEN req[r].step ELSE @]
  /\ Ends(r)
  /\ UNCHANGED <<scope, active, cache, redis, due, missed>>

-----------------------------------------------------------------------------
(* submitForReview *)

\* Mutant: one thing is not asked for.
MutCheckReady(r) ==
  /\ At(r, {"IN"}) /\ req[r].does = "SUBMIT"
  /\ Is(req[r].on, {"DRAFT", "ACTION_REQUIRED"})
  /\ Item \ {"BANK"} \subseteq seller[req[r].on].has
  /\ Goes(r, "SUBMIT")
  /\ UNCHANGED <<scope, active, cache, redis, due, missed, seller>>

CheckReady(r) ==
  /\ At(r, {"IN"}) /\ req[r].does = "SUBMIT"
  /\ Is(req[r].on, {"DRAFT", "ACTION_REQUIRED"})
  /\ seller[req[r].on].has = Item
  /\ Goes(r, "SUBMIT")
  /\ UNCHANGED <<scope, active, cache, redis, due, missed, seller>>

\* By id, whatever has become of the seller since.
Submit(r) ==
  /\ At(r, {"SUBMIT"})
  /\ seller' = [seller EXCEPT ![req[r].on].status = "UNDER_REVIEW", ![req[r].on].step = Complete]
  /\ Ends(r)
  /\ UNCHANGED <<scope, active, cache, redis, due, missed>>

-----------------------------------------------------------------------------
(* The staff *)

Reject(s, status) ==
  /\ Is(s, {"UNDER_REVIEW", "ACTION_REQUIRED", "DOCUMENTS_PENDING"})
  /\ status \in {"ACTION_REQUIRED", "REJECTED"}
  /\ seller' = [seller EXCEPT ![s].status = status]
  /\ UNCHANGED accessVars

\* Whatever the status was; the seller's users are evicted once it has committed.
Suspend(s) ==
  /\ s \in Registered
  /\ seller' = [seller EXCEPT ![s].status = "SUSPENDED"]
  /\ due' = due + 1
  /\ UNCHANGED <<scope, active, cache, redis, missed, req>>

-----------------------------------------------------------------------------
\* The step of a seller who has handed in these.
StepOf(has) == CHOOSE n \in 1..4 :
  /\ \A i \in has : NextStep[i] <= n
  /\ n = 1 \/ \E i \in has : NextStep[i] = n

\* Nobody is registered, or one seller is under way who has handed in some of it.
Init ==
  /\ seller \in {[t \in Seller |-> None]} \cup
       {[t \in Seller |-> IF t = s THEN Draft(has, StepOf(has)) ELSE None] : s \in Seller, has \in HandedIn}
  /\ scope = Registered
  /\ active = TRUE
  /\ cache = None
  /\ redis = TRUE
  /\ due = 0
  /\ missed = FALSE
  /\ req = [r \in Request |-> None]
  /\ events = 0

Event ==
  \/ \E r \in Request : Arrive(r, "REGISTER", None) /\ UNCHANGED seller
  \/ \E r \in Request, does \in Item \cup {"SUBMIT"}, s \in Registered :
       Arrive(r, does, s) /\ UNCHANGED seller
  \/ AccessEvent /\ scope' \subseteq Registered /\ UNCHANGED seller
  \/ \E s \in Seller : Suspend(s) \/ \E status \in {"ACTION_REQUIRED", "REJECTED"} : Reject(s, status)

Handle(r) ==
  \/ CheckOwner(r) \/ \E s \in Seller : Create(r, s)
  \/ CheckEditable(r) \/ Advance(r) \/ Save(r)
  \/ CheckReady(r) \/ Submit(r)

RequestStep(r) == (Resolve(r) /\ UNCHANGED seller) \/ Handle(r) \/ (Die(r) /\ UNCHANGED seller)
Passing == (Evict \/ EvictionLost \/ Expire) /\ UNCHANGED seller

Next ==
  \/ events < MaxEvents /\ events' = events + 1 /\ Event
  \/ UNCHANGED events /\ (Passing \/ \E r \in Request : RequestStep(r))

Spec == Init /\ [][Next]_vars

\* Every request is handled or dies, every eviction made or lost, and every key expires.
Fairness ==
  /\ \A r \in Request : WF_vars(UNCHANGED events /\ RequestStep(r))
  /\ WF_vars(UNCHANGED <<events, seller>> /\ (Evict \/ EvictionLost))
  /\ WF_vars(UNCHANGED <<events, seller>> /\ Expire)

FairSpec == Spec /\ Fairness

-----------------------------------------------------------------------------
\* Every row, request and cached principal has its shape.
TypeOK ==
  /\ seller \in [Seller -> SellerRecord \cup {None}]
  /\ scope \in SUBSET Seller
  /\ active \in BOOLEAN /\ redis \in BOOLEAN /\ missed \in BOOLEAN
  /\ due \in Nat
  /\ cache \in Principal \cup {None}
  /\ req \in [Request -> Work \cup {None}]

\* A seller under review has handed in everything, however requests that edit it, submit it and
\* decide about it overlap (seller.service.ts:25: "the seller cannot be submitted
\* for review until all of them are done").
ReviewIsComplete == \A s \in Seller : Is(s, {"UNDER_REVIEW"}) => seller[s].has = Item

\* Not checked by a run, since it fails: advanceOnboarding "moves onboarding forward, never
\* backward" (seller.service.ts:925).  It reads the step and writes it without a lock.
StepForward == [][\A s \in Registered : seller'[s].step >= seller[s].step]_vars

\* Fails too: what the staff suspended or rejected stays so until the staff decide again; a
\* submission checks the status before its transaction and writes by id.
DecisionStands ==
  [][\A s \in Seller : Is(s, {"SUSPENDED", "REJECTED"}) => seller'[s].status # "UNDER_REVIEW"]_vars

\* Fails too: "one seller per owner keeps the model honest" (seller.service.ts:76), which two
\* registrations at once both find to be so.
OneSellerPerOwner == \A s, t \in Registered : s = t
=============================================================================
