-------------------------- MODULE Onboarding_proofs --------------------------
(***************************************************************************)
(* Proofs about Onboarding, for any number of requests, sellers and events *)
(* and whatever was handed in at first: what is under review is complete,  *)
(* and a cached principal has the grants in force unless their change was  *)
(* overlapped.  The first holds since nothing that was handed in is taken  *)
(* back; the second since an eviction is due from the commit of a change   *)
(* on, and a request that read before it is known (FreshReads).            *)
(***************************************************************************)
EXTENDS Onboarding, TLAPS

\* A request that is about to write an item does so for a seller there is.
Editing ==
  \A r \in Request : At(r, {"WRITE", "SAVE"}) => req[r].on \in Registered /\ req[r].does \in Item

\* One that is about to submit has found everything, and it is still there.
SubmitReady ==
  \A r \in Request : At(r, {"SUBMIT"}) => req[r].on \in Registered /\ seller[req[r].on].has = Item

\* Who is about to be remembered has the grants in force, unless they changed since.
FreshReads ==
  \A r \in Request : At(r, {"SET"}) /\ ~req[r].who.old => req[r].who.scope = scope

IInv ==
  /\ TypeOK
  /\ Editing /\ SubmitReady /\ ReviewIsComplete
  /\ FreshReads /\ CurrentUnlessOverlapped

-----------------------------------------------------------------------------
(* Records *)

LEMMA NotNone ==
  /\ \A x \in SellerRecord : x # None
  /\ \A x \in Principal : x # None
  /\ \A x \in Work : x # None
BY NoneAssumption

LEMMA DraftType ==
  ASSUME NEW has \in SUBSET Item, NEW step \in 0..Complete
  PROVE  Draft(has, step) \in SellerRecord /\ Draft(has, step).status = "DRAFT"
BY DEF Draft, SellerRecord, SellerStatus

LEMMA NextStepType == \A i \in Item : NextStep[i] \in 0..4
BY DEF NextStep, Item

\* A request that goes on stays what it is but for its place.
LEMMA GoesEffect ==
  ASSUME TypeOK, NEW r \in Request, req[r] # None,
         NEW place \in {"ROLES", "SET", "GUARD", "IN", "CREATE", "WRITE", "SAVE", "SUBMIT"},
         Goes(r, place)
  PROVE  /\ req' \in [Request -> Work \cup {None}]
         /\ \A q \in Request \ {r} : req'[q] = req[q]
         /\ req'[r] \in Work
         /\ req'[r].at = place
         /\ req'[r].does = req[r].does
         /\ req'[r].on = req[r].on
         /\ req'[r].who = req[r].who
<1>1. req[r] \in Work
  BY DEF TypeOK
<1>2. [req[r] EXCEPT !.at = place] \in Work
  BY <1>1 DEF Work
<1>3. req' = [req EXCEPT ![r] = [req[r] EXCEPT !.at = place]]
  BY DEF Goes
<1> QED BY <1>1, <1>2, <1>3 DEF TypeOK, Work

LEMMA EndsEffect ==
  ASSUME TypeOK, NEW r \in Request, Ends(r)
  PROVE  /\ req' \in [Request -> Work \cup {None}]
         /\ \A q \in Request \ {r} : req'[q] = req[q]
         /\ req'[r] = None
BY DEF Ends, TypeOK

\* A step that leaves sellers, grants and cache alone keeps the invariant when the one request
\* it moves is where it may be.
LEMMA MoveKeeps ==
  ASSUME IInv, NEW r \in Request,
         UNCHANGED <<scope, active, cache, redis, due, missed, seller>>,
         req' \in [Request -> Work \cup {None}],
         \A q \in Request \ {r} : req'[q] = req[q],
         req'[r] # None =>
           /\ req'[r].at \in {"WRITE", "SAVE"} => req'[r].on \in Registered /\ req'[r].does \in Item
           /\ req'[r].at = "SUBMIT" => req'[r].on \in Registered /\ seller[req'[r].on].has = Item
           /\ req'[r].at = "SET" /\ ~req'[r].who.old => req'[r].who.scope = scope
  PROVE  IInv'
<1>1. TypeOK'
  BY DEF IInv, TypeOK
<1>2. Registered' = Registered
  BY DEF Registered
<1>3. Editing'
  BY <1>2 DEF IInv, Editing, At
<1>4. SubmitReady'
  BY <1>2 DEF IInv, SubmitReady, At
<1>5. ReviewIsComplete'
  BY <1>2 DEF IInv, ReviewIsComplete, Is
<1>6. FreshReads'
  BY DEF IInv, FreshReads, At
<1>7. CurrentUnlessOverlapped'
  BY DEF IInv, CurrentUnlessOverlapped
<1> QED BY <1>1, <1>3, <1>4, <1>5, <1>6, <1>7 DEF IInv

-----------------------------------------------------------------------------
(* Requests on their way in, and those that check *)

LEMMA ArriveKeeps ==
  ASSUME IInv, NEW r \in Request, NEW does \in Item \cup {"REGISTER", "SUBMIT"},
         NEW on \in Seller \cup {None}, Arrive(r, does, on), UNCHANGED seller
  PROVE  IInv'
<1>1. cache # None => cache \in Principal
  BY DEF IInv, TypeOK
<1>2. Nobody \in Principal
  BY DEF Nobody, Principal
<1>3. PICK w \in Work : req' = [req EXCEPT ![r] = w] /\ w.at \in {"GUARD", "PROFILE"}
  <2>1. 0 \in 0..Complete
    BY DEF Complete
  <2>2. CASE redis /\ cache # None
    <3> DEFINE w == [at |-> "GUARD", does |-> does, on |-> on, who |-> cache, step |-> 0]
    <3>1. w \in Work /\ w.at = "GUARD"
      BY <1>1, <2>1, <2>2 DEF Work
    <3>2. req' = [req EXCEPT ![r] = w]
      BY <2>2 DEF Arrive
    <3> HIDE DEF w
    <3> QED BY <3>1, <3>2
  <2>3. CASE ~ (redis /\ cache # None)
    <3> DEFINE w == [at |-> "PROFILE", does |-> does, on |-> on, who |-> Nobody, step |-> 0]
    <3>1. w \in Work /\ w.at = "PROFILE"
      BY <1>2, <2>1 DEF Work
    <3>2. req' = [req EXCEPT ![r] = w]
      BY <2>3 DEF Arrive
    <3> HIDE DEF w
    <3> QED BY <3>1, <3>2
  <2> QED BY <2>2, <2>3
<1>4. /\ req' \in [Request -> Work \cup {None}]
      /\ \A q \in Request \ {r} : req'[q] = req[q]
      /\ req'[r] = w
  BY <1>3 DEF IInv, TypeOK
<1> QED BY <1>3, <1>4, MoveKeeps DEF Arrive

LEMMA ReadKeeps ==
  ASSUME IInv, NEW r \in Request, ReadProfile(r) \/ ReadRoles(r), UNCHANGED seller
  PROVE  IInv'
<1>1. req[r] \in Work
  BY DEF IInv, TypeOK, ReadProfile, ReadRoles, At
<1>2. PICK w \in Work :
        /\ req' = [req EXCEPT ![r] = w]
        /\ w.at \in {"ROLES", "SET"}
        /\ w.at = "SET" => w.who.scope = scope
  <2>1. CASE ReadProfile(r)
    <3> DEFINE w == [req[r] EXCEPT !.at = "ROLES", !.who.active = active]
    <3>1. w \in Work /\ w.at = "ROLES"
      BY <1>1 DEF Work, Principal, IInv, TypeOK
    <3>2. req' = [req EXCEPT ![r] = w]
      BY <2>1 DEF ReadProfile
    <3> HIDE DEF w
    <3> QED BY <3>1, <3>2
  <2>2. CASE ReadRoles(r)
    <3> DEFINE w == [req[r] EXCEPT !.at = "SET", !.who.scope = scope]
    <3>1. w \in Work /\ w.at = "SET" /\ w.who.scope = scope
      BY <1>1 DEF Work, Principal, IInv, TypeOK
    <3>2. req' = [req EXCEPT ![r] = w]
      BY <2>2 DEF ReadRoles
    <3> HIDE DEF w
    <3> QED BY <3>1, <3>2
  <2> QED BY <2>1, <2>2
<1>3. /\ req' \in [Request -> Work \cup {None}]
      /\ \A q \in Request \ {r} : req'[q] = req[q]
      /\ req'[r] = w
  BY <1>2 DEF IInv, TypeOK
<1> QED BY <1>2, <1>3, MoveKeeps DEF ReadProfile, ReadRoles

LEMMA CheckKeeps ==
  ASSUME IInv, NEW r \in Request,
         \/ Admit(r) /\ UNCHANGED seller
         \/ CheckOwner(r) \/ CheckEditable(r) \/ CheckReady(r)
  PROVE  IInv'
<1>1. TypeOK /\ req[r] # None
  BY DEF IInv, Admit, CheckOwner, CheckEditable, CheckReady, At
<1>2. UNCHANGED <<scope, active, cache, redis, due, missed, seller>>
  BY DEF Admit, CheckOwner, CheckEditable, CheckReady
<1>3. CASE Admit(r)
  <2>1. Goes(r, "IN")
    BY <1>3 DEF Admit
  <2> QED BY <1>1, <1>2, <2>1, GoesEffect, MoveKeeps
<1>4. CASE CheckOwner(r)
  <2>1. Goes(r, "CREATE")
    BY <1>4 DEF CheckOwner
  <2> QED BY <1>1, <1>2, <2>1, GoesEffect, MoveKeeps
<1>5. CASE CheckEditable(r)
  <2>1. Goes(r, "WRITE") /\ req[r].on \in Registered /\ req[r].does \in Item
    BY <1>5 DEF CheckEditable
  <2> QED BY <1>1, <1>2, <2>1, GoesEffect, MoveKeeps
<1>6. CASE CheckReady(r)
  <2>1. Goes(r, "SUBMIT") /\ req[r].on \in Registered /\ seller[req[r].on].has = Item
    BY <1>6 DEF CheckReady, Is
  <2> QED BY <1>1, <1>2, <2>1, GoesEffect, MoveKeeps
<1> QED BY <1>3, <1>4, <1>5, <1>6

LEMMA AdvanceKeeps ==
  ASSUME IInv, NEW r \in Request, Advance(r)
  PROVE  IInv'
<1>1. req[r] \in Work /\ At(r, {"WRITE"})
  BY DEF IInv, TypeOK, Advance, At
<1>2. req[r].on \in Registered /\ req[r].does \in Item
  BY <1>1 DEF IInv, Editing, At
<1> DEFINE next == NextStep[req[r].does]
           step == IF next > seller[req[r].on].step THEN next ELSE 0
           w == [req[r] EXCEPT !.at = "SAVE", !.step = step]
<1>3. step \in 0..Complete
  BY <1>2, NextStepType DEF Complete
<1>4. req' = [req EXCEPT ![r] = w]
  BY DEF Advance
<1> HIDE DEF step
<1>5. /\ w \in Work
      /\ w.at = "SAVE"
      /\ w.on = req[r].on
      /\ w.does = req[r].does
  BY <1>1, <1>3 DEF Work
<1> HIDE DEF w
<1>6. /\ req' \in [Request -> Work \cup {None}]
      /\ \A q \in Request \ {r} : req'[q] = req[q]
      /\ req'[r] = w
  BY <1>4, <1>5 DEF IInv, TypeOK
<1> QED BY <1>2, <1>5, <1>6, MoveKeeps DEF Advance

LEMMA DieKeeps ==
  ASSUME IInv, NEW r \in Request, Die(r), UNCHANGED seller
  PROVE  IInv'
<1>1. Ends(r) /\ UNCHANGED <<scope, active, cache, redis, due, missed>>
  BY DEF Die
<1> QED BY <1>1, EndsEffect, MoveKeeps DEF IInv

-----------------------------------------------------------------------------
(* The cache *)

\* A step of the cache and the clock leaves sellers, grants and requests alone.
LEMMA CacheKeeps ==
  ASSUME IInv, UNCHANGED <<scope, active, seller, req>>,
         redis' \in BOOLEAN, missed' \in BOOLEAN, due' \in Nat, cache' \in Principal \cup {None},
         CurrentUnlessOverlapped'
  PROVE  IInv'
BY DEF IInv, TypeOK, Editing, SubmitReady, ReviewIsComplete, FreshReads, Registered, Is, At

LEMMA RememberKeeps ==
  ASSUME IInv, NEW r \in Request, Remember(r), UNCHANGED seller
  PROVE  IInv'
<1>1. req[r] # None /\ req[r] \in Work /\ req[r].at = "SET"
  BY DEF Remember, At, IInv, TypeOK
<1>2. Goes(r, "GUARD")
  BY DEF Remember
<1>3. /\ req' \in [Request -> Work \cup {None}]
      /\ \A q \in Request \ {r} : req'[q] = req[q]
      /\ req'[r].at = "GUARD"
  BY <1>1, <1>2, GoesEffect DEF IInv
<1>4. req[r].who \in Principal
  BY <1>1 DEF Work
<1>5. TypeOK'
  BY <1>3, <1>4 DEF Remember, IInv, TypeOK
<1>6. Editing' /\ SubmitReady' /\ ReviewIsComplete' /\ FreshReads'
  <2>1. Registered' = Registered
    BY DEF Registered
  <2>2. Editing'
    BY <1>3, <2>1 DEF IInv, Editing, At
  <2>3. SubmitReady'
    BY <1>3, <2>1 DEF IInv, SubmitReady, At
  <2>4. ReviewIsComplete'
    BY <2>1 DEF IInv, ReviewIsComplete, Is
  <2>5. FreshReads'
    BY <1>3 DEF IInv, FreshReads, At, Remember
  <2> QED BY <2>2, <2>3, <2>4, <2>5
<1>7. CurrentUnlessOverlapped'
  <2>1. CASE redis
    BY <1>1, <2>1 DEF Remember, IInv, FreshReads, At, CurrentUnlessOverlapped
  <2>2. CASE ~redis
    <3>1. UNCHANGED <<cache, missed, due, scope>>
      BY <2>2 DEF Remember, IInv, TypeOK
    <3> QED BY <3>1 DEF IInv, CurrentUnlessOverlapped
  <2> QED BY <2>1, <2>2
<1> QED BY <1>5, <1>6, <1>7 DEF IInv

LEMMA PassingKeeps == ASSUME IInv, Passing PROVE IInv'
<1>1. ASSUME Evict, UNCHANGED seller PROVE IInv'
  <2>1. due' \in Nat /\ missed' \in BOOLEAN /\ cache' \in Principal \cup {None}
    BY <1>1 DEF Evict, IInv, TypeOK
  <2>2. CurrentUnlessOverlapped'
    <3>1. CASE redis BY <1>1, <3>1 DEF Evict, CurrentUnlessOverlapped
    <3>2. CASE ~redis BY <1>1, <3>2 DEF Evict, CurrentUnlessOverlapped
    <3> QED BY <3>1, <3>2
  <2> QED BY <1>1, <2>1, <2>2, CacheKeeps DEF Evict, IInv, TypeOK
<1>2. ASSUME EvictionLost, UNCHANGED seller PROVE IInv'
  <2>1. due' \in Nat
    BY <1>2 DEF EvictionLost, IInv, TypeOK
  <2>2. CurrentUnlessOverlapped'
    BY <1>2 DEF EvictionLost, CurrentUnlessOverlapped
  <2> QED BY <1>2, <2>1, <2>2, CacheKeeps DEF EvictionLost, IInv, TypeOK
<1>3. ASSUME Expire, UNCHANGED seller PROVE IInv'
  <2>1. CurrentUnlessOverlapped'
    BY <1>3 DEF Expire, CurrentUnlessOverlapped
  <2> QED BY <1>3, <2>1, CacheKeeps DEF Expire, IInv, TypeOK
<1> QED BY <1>1, <1>2, <1>3 DEF Passing

-----------------------------------------------------------------------------
(* Changes of the grants *)

\* Requests that read before the change are marked and otherwise what they were.
LEMMA OutdatedEffect ==
  ASSUME NEW q \in [Request -> Work \cup {None}]
  PROVE  /\ Outdated(q) \in [Request -> Work \cup {None}]
         /\ \A r \in Request :
              /\ q[r] = None <=> Outdated(q)[r] = None
              /\ q[r] # None => /\ Outdated(q)[r].at = q[r].at
                                /\ Outdated(q)[r].does = q[r].does
                                /\ Outdated(q)[r].on = q[r].on
                                /\ q[r].at = "SET" => Outdated(q)[r].who.old
<1>1. ASSUME NEW r \in Request
      PROVE  /\ Outdated(q)[r] \in Work \cup {None}
             /\ q[r] = None <=> Outdated(q)[r] = None
             /\ q[r] # None => /\ Outdated(q)[r].at = q[r].at
                               /\ Outdated(q)[r].does = q[r].does
                               /\ Outdated(q)[r].on = q[r].on
                               /\ q[r].at = "SET" => Outdated(q)[r].who.old
  <2>1. CASE q[r] # None /\ q[r].at = "SET"
    <3> DEFINE w == [q[r] EXCEPT !.who.old = TRUE]
    <3>1. Outdated(q)[r] = w
      BY <2>1 DEF Outdated
    <3>2. q[r] \in Work
      BY <2>1
    <3>3. /\ w \in Work
          /\ w.at = q[r].at /\ w.does = q[r].does /\ w.on = q[r].on /\ w.who.old
      BY <3>2 DEF Work, Principal
    <3> HIDE DEF w
    <3> QED BY <2>1, <3>1, <3>3, NotNone
  <2>2. CASE ~(q[r] # None /\ q[r].at = "SET")
    BY <2>2 DEF Outdated
  <2> QED BY <2>1, <2>2
<1>2. Outdated(q) = [r \in Request |-> Outdated(q)[r]]
  BY DEF Outdated
<1> QED BY <1>1, <1>2

\* Sellers as they were, but for what was added.
Grown ==
  /\ seller' \in [Seller -> SellerRecord \cup {None}]
  /\ \A s \in Registered : s \in Registered' /\ seller[s].has \subseteq seller'[s].has
  /\ ReviewIsComplete'

\* After a change of the grants the cached principal may be behind, and one is told so.
LEMMA GrantsKeep ==
  ASSUME IInv, Grown, UNCHANGED <<active, cache, redis>>,
         NEW q \in [Request -> Work \cup {None}], \A r \in Request : q[r] = None \/ q[r] = req[r],
         req' = Outdated(q), scope' \in SUBSET Seller,
         \/ due' = due + 1 /\ UNCHANGED missed
         \/ UNCHANGED due /\ missed' = TRUE
  PROVE  IInv'
<1>1. ASSUME NEW r \in Request, req'[r] # None
      PROVE  /\ req[r] # None
             /\ req'[r].at = req[r].at
             /\ req'[r].does = req[r].does
             /\ req'[r].on = req[r].on
             /\ req[r].at = "SET" => req'[r].who.old
  BY <1>1, OutdatedEffect
<1>2. TypeOK'
  <2>1. req' \in [Request -> Work \cup {None}]
    BY OutdatedEffect
  <2>2. due \in Nat /\ missed \in BOOLEAN
    BY DEF IInv, TypeOK
  <2>3. due' \in Nat
    BY <2>2, SMT
  <2>4. missed' \in BOOLEAN
    BY <2>2, Zenon
  <2> QED BY <2>1, <2>3, <2>4 DEF IInv, TypeOK, Grown
<1>3. Editing'
  BY <1>1 DEF IInv, Editing, At, Grown
<1>4. SubmitReady'
  <2>1. ASSUME NEW r \in Request, At(r, {"SUBMIT"})'
        PROVE  (req[r].on \in Registered /\ seller[req[r].on].has = Item)'
    <3>1. req'[r].on = req[r].on /\ req[r].on \in Registered /\ seller[req[r].on].has = Item
      BY <1>1, <2>1 DEF At, IInv, SubmitReady
    <3>2. req[r].on \in Registered' /\ Item \subseteq seller'[req[r].on].has
      BY <3>1 DEF Grown
    <3>3. seller'[req[r].on] \in SellerRecord
      BY <3>2 DEF Grown, Registered
    <3> QED BY <3>1, <3>2, <3>3 DEF SellerRecord
  <2> QED BY <2>1 DEF SubmitReady
<1>5. FreshReads'
  BY <1>1 DEF FreshReads, At
<1>6. CurrentUnlessOverlapped'
  <2>1. CASE due' = due + 1
    BY <2>1 DEF IInv, TypeOK, CurrentUnlessOverlapped
  <2>2. CASE missed'
    BY <2>2 DEF CurrentUnlessOverlapped
  <2> QED BY <2>1, <2>2
<1> QED BY <1>2, <1>3, <1>4, <1>5, <1>6 DEF IInv, Grown

LEMMA SameSellersGrow == ASSUME IInv, UNCHANGED seller PROVE Grown
BY DEF IInv, TypeOK, Grown, Registered, ReviewIsComplete, Is

LEMMA AccessEventKeeps == ASSUME IInv, AccessEvent, UNCHANGED seller PROVE IInv'
<1>1. Grown
  BY SameSellersGrow
<1>2. req \in [Request -> Work \cup {None}] /\ scope \in SUBSET Seller
  BY DEF IInv, TypeOK
<1>3. ASSUME NEW s \in Seller, Grant(s) \/ Revoke(s) PROVE IInv'
  <2>1. /\ UNCHANGED <<active, cache, redis, missed>>
        /\ scope' \in SUBSET Seller
        /\ req' = Outdated(req)
        /\ due' = due + 1
    BY <1>2, <1>3 DEF Grant, Revoke, GrantsBecome
  <2> QED BY <1>1, <1>2, <2>1, GrantsKeep
<1>4. ASSUME NEW s \in Seller, GrantExpires(s) PROVE IInv'
  <2>1. /\ UNCHANGED <<active, cache, redis, due>>
        /\ scope' \in SUBSET Seller
        /\ req' = Outdated(req)
        /\ missed' = TRUE
    BY <1>2, <1>4 DEF GrantExpires
  <2> QED BY <1>1, <1>2, <2>1, GrantsKeep
<1>5. ASSUME NEW b \in BOOLEAN, AccountBecomes(b) PROVE IInv'
  BY <1>5 DEF AccountBecomes, IInv, TypeOK, Editing, SubmitReady, ReviewIsComplete, FreshReads,
     CurrentUnlessOverlapped, Registered, Is, At
<1>6. ASSUME RedisGoes PROVE IInv'
  <2>1. CurrentUnlessOverlapped'
    BY <1>6 DEF RedisGoes, IInv, CurrentUnlessOverlapped
  <2> QED BY <1>6, <2>1, CacheKeeps DEF RedisGoes, IInv, TypeOK
<1> QED BY <1>3, <1>4, <1>5, <1>6 DEF AccessEvent

LEMMA CreateKeeps ==
  ASSUME IInv, NEW r \in Request, NEW s \in Seller, Create(r, s)
  PROVE  IInv'
<1> DEFINE d == Draft({}, 1)
           q == [req EXCEPT ![r] = None]
<1>1. d \in SellerRecord /\ d.status = "DRAFT"
  BY DraftType DEF Complete
<1>2. seller' = [seller EXCEPT ![s] = d] /\ s \notin Registered
  BY DEF Create
<1> HIDE DEF d
<1>3. /\ seller' \in [Seller -> SellerRecord \cup {None}]
      /\ seller'[s] = d
      /\ \A t \in Seller \ {s} : seller'[t] = seller[t]
  BY <1>1, <1>2 DEF IInv, TypeOK
<1>4. ReviewIsComplete'
  BY <1>1, <1>3 DEF IInv, ReviewIsComplete, Is, Registered
<1>5. Grown
  BY <1>2, <1>3, <1>4 DEF Grown, Registered
<1>6. /\ q \in [Request -> Work \cup {None}]
      /\ \A x \in Request : q[x] = None \/ q[x] = req[x]
  BY DEF IInv, TypeOK
<1>7. /\ UNCHANGED <<active, cache, redis, missed>>
      /\ scope' \in SUBSET Seller
      /\ req' = Outdated(q)
      /\ due' = due + 1
  BY DEF Create, GrantsBecome, IInv, TypeOK
<1> HIDE DEF q
<1> QED BY <1>5, <1>6, <1>7, GrantsKeep

-----------------------------------------------------------------------------
(* Changes of a seller *)

\* Where sellers only grow, requests stay or end, and the grants and their cache are left alone
\* but for an eviction that becomes due.
LEMMA SellerKeeps ==
  ASSUME IInv, Grown, UNCHANGED <<scope, active, cache, redis, missed>>,
         due' \in {due, due + 1},
         req' \in [Request -> Work \cup {None}],
         \A r \in Request : req'[r] = None \/ req'[r] = req[r]
  PROVE  IInv'
<1>1. TypeOK'
  BY DEF IInv, TypeOK, Grown
<1>2. Editing'
  BY DEF IInv, Editing, At, Grown
<1>3. SubmitReady'
  <2>1. ASSUME NEW r \in Request, At(r, {"SUBMIT"})'
        PROVE  (req[r].on \in Registered /\ seller[req[r].on].has = Item)'
    <3>1. req'[r] = req[r] /\ req[r].on \in Registered /\ seller[req[r].on].has = Item
      BY <2>1 DEF At, IInv, SubmitReady
    <3>2. req[r].on \in Registered' /\ Item \subseteq seller'[req[r].on].has
      BY <3>1 DEF Grown
    <3>3. seller'[req[r].on] \in SellerRecord
      BY <3>2 DEF Grown, Registered
    <3> QED BY <3>1, <3>2, <3>3 DEF SellerRecord
  <2> QED BY <2>1 DEF SubmitReady
<1>4. FreshReads'
  BY DEF IInv, FreshReads, At
<1>5. CurrentUnlessOverlapped'
  BY DEF IInv, TypeOK, CurrentUnlessOverlapped
<1> QED BY <1>1, <1>2, <1>3, <1>4, <1>5 DEF IInv, Grown

\* One seller's row is written, has what it had, and all of it when it is put under review.
LEMMA RowGrows ==
  ASSUME IInv, NEW s \in Registered, NEW row \in SellerRecord,
         seller' = [seller EXCEPT ![s] = row],
         seller[s].has \subseteq row.has,
         row.status = "UNDER_REVIEW" => row.has = Item
  PROVE  Grown
<1>1. s \in Seller
  BY DEF Registered
<1>2. /\ seller' \in [Seller -> SellerRecord \cup {None}]
      /\ seller'[s] = row
      /\ \A t \in Seller \ {s} : seller'[t] = seller[t]
  BY <1>1 DEF IInv, TypeOK
<1>3. Registered' = Registered
  BY <1>1, <1>2, NotNone DEF Registered
<1>4. ReviewIsComplete'
  BY <1>2, <1>3 DEF IInv, ReviewIsComplete, Is
<1>5. \A t \in Registered : seller[t].has \subseteq seller'[t].has
  <2> TAKE t \in Registered
  <2>1. CASE t = s BY <1>2, <2>1
  <2>2. CASE t # s BY <1>2, <2>2 DEF Registered
  <2> QED BY <2>1, <2>2
<1> QED BY <1>2, <1>3, <1>4, <1>5 DEF Grown

LEMMA SaveKeeps ==
  ASSUME IInv, NEW r \in Request, Save(r)
  PROVE  IInv'
<1> DEFINE s == req[r].on
           step == IF req[r].step > 0 THEN req[r].step ELSE seller[s].step
           row == [seller[s] EXCEPT !.has = @ \cup {req[r].does}, !.step = step]
<1>1. req[r] \in Work /\ s \in Registered /\ req[r].does \in Item
  BY DEF Save, At, IInv, TypeOK, Editing
<1>2. seller[s] \in SellerRecord
  BY <1>1 DEF IInv, TypeOK, Registered
<1>3. step \in 0..Complete
  BY <1>1, <1>2 DEF Work, SellerRecord
<1>4. seller' = [seller EXCEPT ![s] = row]
  BY DEF Save
<1> HIDE DEF step
<1>5. /\ row \in SellerRecord
      /\ row.has = seller[s].has \cup {req[r].does}
      /\ row.status = seller[s].status
  BY <1>1, <1>2, <1>3 DEF SellerRecord
<1> HIDE DEF row
<1>6. row.status = "UNDER_REVIEW" => row.has = Item
  BY <1>1, <1>5 DEF IInv, ReviewIsComplete, Is, Registered
<1>7. Grown
  BY <1>1, <1>4, <1>5, <1>6, RowGrows
<1>8. /\ req' \in [Request -> Work \cup {None}]
      /\ \A q \in Request : req'[q] = None \/ req'[q] = req[q]
  BY EndsEffect DEF Save, IInv
<1> QED BY <1>7, <1>8, SellerKeeps DEF Save

LEMMA SubmitKeeps ==
  ASSUME IInv, NEW r \in Request, Submit(r)
  PROVE  IInv'
<1> DEFINE s == req[r].on
           row == [seller[s] EXCEPT !.status = "UNDER_REVIEW", !.step = Complete]
<1>1. s \in Registered /\ seller[s].has = Item
  BY DEF Submit, At, IInv, SubmitReady
<1>2. seller[s] \in SellerRecord
  BY <1>1 DEF IInv, TypeOK, Registered
<1>3. seller' = [seller EXCEPT ![s] = row]
  BY DEF Submit
<1>4. row \in SellerRecord /\ row.has = Item
  <2>1. "UNDER_REVIEW" \in SellerStatus /\ Complete \in 0..Complete
    BY DEF SellerStatus, Complete
  <2> QED BY <1>1, <1>2, <2>1 DEF SellerRecord
<1> HIDE DEF row
<1>5. Grown
  BY <1>1, <1>3, <1>4, RowGrows
<1>6. /\ req' \in [Request -> Work \cup {None}]
      /\ \A q \in Request : req'[q] = None \/ req'[q] = req[q]
  BY EndsEffect DEF Submit, IInv
<1> QED BY <1>5, <1>6, SellerKeeps DEF Submit

LEMMA StaffKeeps ==
  ASSUME IInv, NEW s \in Seller, Suspend(s) \/ \E status \in {"ACTION_REQUIRED", "REJECTED"} : Reject(s, status)
  PROVE  IInv'
<1>1. PICK status \in {"SUSPENDED", "ACTION_REQUIRED", "REJECTED"} :
        seller' = [seller EXCEPT ![s].status = status]
  BY DEF Suspend, Reject
<1> DEFINE row == [seller[s] EXCEPT !.status = status]
<1>2. s \in Registered
  BY DEF Suspend, Reject, Is
<1>3. seller[s] \in SellerRecord
  BY <1>2 DEF IInv, TypeOK, Registered
<1>4. seller' = [seller EXCEPT ![s] = row]
  BY <1>1
<1>5. row \in SellerRecord /\ row.has = seller[s].has /\ row.status # "UNDER_REVIEW"
  BY <1>3 DEF SellerRecord, SellerStatus
<1> HIDE DEF row
<1>6. Grown
  BY <1>2, <1>4, <1>5, RowGrows
<1>7. UNCHANGED <<scope, active, cache, redis, missed, req>> /\ due' \in {due, due + 1}
  BY DEF Suspend, Reject, accessVars
<1> QED BY <1>6, <1>7, SellerKeeps DEF IInv, TypeOK

-----------------------------------------------------------------------------
(* All together *)

LEMMA NothingMissed == Init => missed \in BOOLEAN
<1>1. Init => missed = FALSE
  BY SMT DEF Init
<1> QED BY <1>1, Zenon

LEMMA InitIInv == Init => IInv
<1> SUFFICES ASSUME Init PROVE IInv
  OBVIOUS
<1>1. PICK rows \in {[t \in Seller |-> None]} \cup
        {[t \in Seller |-> IF t = s THEN Draft(has, StepOf(has)) ELSE None] : s \in Seller, has \in HandedIn} :
        seller = rows
  BY DEF Init
<1>2. \A s \in Seller : seller[s] = None \/ \E has \in HandedIn : seller[s] = Draft(has, StepOf(has))
  BY <1>1
<1>3. \A has \in HandedIn : Draft(has, StepOf(has)) \in SellerRecord /\ Draft(has, StepOf(has)).status = "DRAFT"
  <2> TAKE has \in HandedIn
  <2>1. has \in SUBSET Item
    BY OnboardingAssumption
  <2>2. \E n \in 1..4 : (\A i \in has : NextStep[i] <= n) /\ (n = 1 \/ \E i \in has : NextStep[i] = n)
    <3>1. /\ "TAX" \in Item /\ "BANK" \in Item /\ "WAREHOUSE" \in Item
          /\ NextStep["TAX"] = 2 /\ NextStep["BANK"] = 3 /\ NextStep["WAREHOUSE"] = 4
          /\ NextStep["PAN"] = 0
      BY DEF NextStep, Item
    <3>2. \A i \in has : i \in {"TAX", "BANK", "WAREHOUSE", "PAN"}
      BY <2>1 DEF Item
    <3>3. CASE "WAREHOUSE" \in has BY <3>1, <3>2, <3>3
    <3>4. CASE "WAREHOUSE" \notin has /\ "BANK" \in has BY <3>1, <3>2, <3>4
    <3>5. CASE "WAREHOUSE" \notin has /\ "BANK" \notin has /\ "TAX" \in has BY <3>1, <3>2, <3>5
    <3>6. CASE "WAREHOUSE" \notin has /\ "BANK" \notin has /\ "TAX" \notin has BY <3>1, <3>2, <3>6
    <3> QED BY <3>3, <3>4, <3>5, <3>6
  <2>3. StepOf(has) \in 1..4
    BY <2>2 DEF StepOf
  <2>4. StepOf(has) \in 0..Complete
    BY <2>3 DEF Complete
  <2> QED BY <2>1, <2>4, DraftType
<1>4. seller \in [Seller -> SellerRecord \cup {None}]
  <2>1. \A s \in Seller : seller[s] \in SellerRecord \cup {None}
    BY <1>2, <1>3
  <2>2. seller = [s \in Seller |-> seller[s]]
    BY <1>1
  <2> QED BY <2>1, <2>2
<1>5. TypeOK
  <2>1. scope \in SUBSET Seller
    BY DEF Init, Registered
  <2>2. req \in [Request -> Work \cup {None}] /\ cache \in Principal \cup {None}
    BY DEF Init
  <2>3. active \in BOOLEAN /\ redis \in BOOLEAN /\ missed \in BOOLEAN
    <3>1. active \in BOOLEAN BY DEF Init
    <3>2. redis \in BOOLEAN BY DEF Init
    <3>3. missed \in BOOLEAN BY NothingMissed
    <3> QED BY <3>1, <3>2, <3>3
  <2>4. due \in Nat
    BY DEF Init
  <2> QED BY <1>4, <2>1, <2>2, <2>3, <2>4 DEF TypeOK
<1>6. ReviewIsComplete
  BY <1>2, <1>3 DEF ReviewIsComplete, Is, Registered
<1> QED BY <1>5, <1>6 DEF Init, IInv, Editing, SubmitReady, FreshReads, CurrentUnlessOverlapped, At

LEMMA NextIInv == IInv /\ [Next]_vars => IInv'
<1> SUFFICES ASSUME IInv, [Next]_vars PROVE IInv'
  OBVIOUS
<1>1. CASE Event
  <2>1. ASSUME NEW r \in Request, Arrive(r, "REGISTER", None), UNCHANGED seller PROVE IInv'
    BY <2>1, ArriveKeeps
  <2>2. ASSUME NEW r \in Request, NEW does \in Item \cup {"SUBMIT"}, NEW s \in Registered,
               Arrive(r, does, s), UNCHANGED seller
        PROVE  IInv'
    BY <2>2, ArriveKeeps DEF Registered
  <2> QED BY <1>1, <2>1, <2>2, AccessEventKeeps, StaffKeeps DEF Event
<1>2. CASE Passing
  BY <1>2, PassingKeeps
<1>3. ASSUME NEW r \in Request, RequestStep(r) PROVE IInv'
  <2>1. CASE Resolve(r) /\ UNCHANGED seller
    BY <2>1, ReadKeeps, RememberKeeps, CheckKeeps DEF Resolve
  <2>2. CASE Handle(r)
    BY <2>2, CheckKeeps, CreateKeeps, AdvanceKeeps, SaveKeeps, SubmitKeeps DEF Handle
  <2>3. CASE Die(r) /\ UNCHANGED seller
    BY <2>3, DieKeeps
  <2> QED BY <1>3, <2>1, <2>2, <2>3 DEF RequestStep
<1>4. CASE UNCHANGED vars
  BY <1>4 DEF vars, accessVars, IInv, TypeOK, Editing, SubmitReady, ReviewIsComplete, FreshReads,
     CurrentUnlessOverlapped, Registered, Is, At
<1> QED BY <1>1, <1>2, <1>3, <1>4 DEF Next

\* Whatever requests overlap, a seller under review has handed in everything (submitForReview
\* checks before its transaction, and nothing takes an item back).
THEOREM OnboardingReviewIsComplete == Spec => []ReviewIsComplete
<1>1. Init => IInv BY InitIInv
<1>2. IInv /\ [Next]_vars => IInv' BY NextIInv
<1>3. IInv => ReviewIsComplete BY DEF IInv
<1> QED BY <1>1, <1>2, <1>3, PTL DEF Spec

\* And a cached principal is behind the grants only while an eviction is due, after one was
\* lost, or when it was put there by a request that had read them before (resolvePrincipal,
\* invalidatePrincipal).
THEOREM AccessIsCurrent == Spec => []CurrentUnlessOverlapped
<1>1. Init => IInv BY InitIInv
<1>2. IInv /\ [Next]_vars => IInv' BY NextIInv
<1>3. IInv => CurrentUnlessOverlapped BY DEF IInv
<1> QED BY <1>1, <1>2, <1>3, PTL DEF Spec
=============================================================================
