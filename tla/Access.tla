------------------------------- MODULE Access -------------------------------
(***************************************************************************)
(* What a signed-in user is let do (AuthService, AuthGuard) and the cache  *)
(* it is answered from (RedisService): a request takes the principal from  *)
(* Redis or, when it is not there, reads the account and then the role     *)
(* grants, and puts the result there for a minute.  Changes of the grants  *)
(* commit first and evict the key afterwards; a change of the account      *)
(* evicts nothing.                                                         *)
(*                                                                         *)
(* There is one user.  Of the grants there are those scoped to a seller,   *)
(* of the account's status whether it is ACTIVE.  Redis is never required: *)
(* what is read or written while it cannot be reached does nothing.        *)
(***************************************************************************)
EXTENDS Naturals

CONSTANTS
  Request,  \* requests of the user, handled at a time
  Seller,   \* sellers the user may act for
  None      \* no request, no cached principal, no seller

VARIABLES
  scope,    \* identity.user_roles: the sellers of the grants in force
  active,   \* identity.profiles: account_status is ACTIVE
  cache,    \* the key principal:<user>
  redis,    \* whether Redis can be reached
  due,      \* evictions that belong to committed changes and are still to be made
  missed,   \* history: a change of the grants left the cached principal in place
  req       \* each request: where it is, what it does to which seller, as whom

accessVars == <<scope, active, cache, redis, due, missed, req>>

At(r, places) == req[r] # None /\ req[r].at \in places
Goes(r, place) == req' = [req EXCEPT ![r].at = place]
Ends(r) == req' = [req EXCEPT ![r] = None]

Nobody == [scope |-> {}, active |-> FALSE, old |-> FALSE]

-----------------------------------------------------------------------------
(* resolvePrincipal and the guard *)

Arrive(r, does, on) ==
  /\ req[r] = None
  /\ req' = [req EXCEPT ![r] =
       IF redis /\ cache # None
       THEN [at |-> "GUARD", does |-> does, on |-> on, who |-> cache, step |-> 0]
       ELSE [at |-> "PROFILE", does |-> does, on |-> on, who |-> Nobody, step |-> 0]]
  /\ UNCHANGED <<scope, active, cache, redis, due, missed>>

ReadProfile(r) ==
  /\ At(r, {"PROFILE"})
  /\ req' = [req EXCEPT ![r].at = "ROLES", ![r].who.active = active]
  /\ UNCHANGED <<scope, active, cache, redis, due, missed>>

ReadRoles(r) ==
  /\ At(r, {"ROLES"})
  /\ req' = [req EXCEPT ![r].at = "SET", ![r].who.scope = scope]
  /\ UNCHANGED <<scope, active, cache, redis, due, missed>>

Remember(r) ==
  /\ At(r, {"SET"})
  /\ cache' = IF redis THEN req[r].who ELSE cache
  /\ missed' = (missed /\ ~redis)
  /\ Goes(r, "GUARD")
  /\ UNCHANGED <<scope, active, redis, due>>

\* canActivate, of a request that writes; one that names a seller must hold it.
Admit(r) ==
  /\ At(r, {"GUARD"})
  /\ req[r].who.active
  /\ req[r].on # None => req[r].on \in req[r].who.scope
  /\ Goes(r, "IN")
  /\ UNCHANGED <<scope, active, cache, redis, due, missed>>

\* A request that is refused, here or later, or whose process dies: nothing it has under way
\* is committed.
Die(r) ==
  /\ req[r] # None
  /\ Ends(r)
  /\ UNCHANGED <<scope, active, cache, redis, due, missed>>

-----------------------------------------------------------------------------
(* Changes of the grants and of the account *)

\* The requests q, those marked that have read the grants as they were until now.
Outdated(q) == [r \in Request |->
  IF q[r] # None /\ q[r].at = "SET" THEN [q[r] EXCEPT !.who.old = TRUE] ELSE q[r]]

\* Mutant: the key is evicted inside the transaction, before the grants change.
MutGrantsBecome(s, q) ==
  /\ scope' = s
  /\ req' = Outdated(q)
  /\ cache' = IF redis THEN None ELSE cache
  /\ UNCHANGED due

\* A change of the grants commits; its eviction comes after that.
GrantsBecome(s, q) ==
  /\ scope' = s
  /\ req' = Outdated(q)
  /\ due' = due + 1
  /\ UNCHANGED cache

Grant(s) ==
  /\ s \notin scope
  /\ GrantsBecome(scope \cup {s}, req)
  /\ UNCHANGED <<active, redis, missed>>

Revoke(s) ==
  /\ s \in scope
  /\ GrantsBecome(scope \ {s}, req)
  /\ UNCHANGED <<active, redis, missed>>

\* expires_at passes.
GrantExpires(s) ==
  /\ s \in scope
  /\ scope' = scope \ {s}
  /\ req' = Outdated(req)
  /\ missed' = TRUE
  /\ UNCHANGED <<active, cache, redis, due>>

\* updateCustomerStatus and requestDeletion.
AccountBecomes(b) ==
  /\ active' = b
  /\ UNCHANGED <<scope, cache, redis, due, missed, req>>

\* invalidatePrincipal ...
Evict ==
  /\ due > 0
  /\ due' = due - 1
  /\ cache' = IF redis THEN None ELSE cache
  /\ missed' = ~redis
  /\ UNCHANGED <<scope, active, redis, req>>

\* ... or the process dies before it.
EvictionLost ==
  /\ due > 0
  /\ due' = due - 1
  /\ missed' = TRUE
  /\ UNCHANGED <<scope, active, cache, redis, req>>

\* Mutant: a TTL of zero seconds, with which RedisService sets the key for good.
MutExpire == FALSE /\ UNCHANGED accessVars

\* CACHE_PERMISSION_TTL_SECONDS pass, whether or not Redis can be reached.
Expire ==
  /\ cache # None
  /\ cache' = None
  /\ missed' = FALSE
  /\ UNCHANGED <<scope, active, redis, due, req>>

\* The connection to Redis is lost, or is there again with the keys it had.
RedisGoes == redis' = ~redis /\ UNCHANGED <<scope, active, cache, due, missed, req>>

-----------------------------------------------------------------------------
AccessEvent ==
  \/ \E s \in Seller : Grant(s) \/ Revoke(s) \/ GrantExpires(s)
  \/ \E b \in BOOLEAN : b # active /\ AccountBecomes(b)
  \/ RedisGoes

\* What a request does until it is let in.
Resolve(r) == ReadProfile(r) \/ ReadRoles(r) \/ Remember(r) \/ Admit(r)

-----------------------------------------------------------------------------
\* A cached principal has the grants that are in force, unless an eviction is due or was lost,
\* the grant ran out of its time, or the principal was put there by a request that had read the
\* grants before they changed (admin-seller.service.ts:280: "the cache eviction must happen
\* after the status change is durably committed, otherwise a concurrent request could
\* repopulate the cache from the pre-suspension state").
CurrentUnlessOverlapped ==
  cache # None /\ ~cache.old /\ due = 0 /\ ~missed => cache.scope = scope

\* Whatever was lost or overlapped, once the grants stay what they are the cached principal
\* agrees with them for good (auth.service.ts:85: "a revocation has to take effect quickly").
AccessSettles ==
  \A s \in SUBSET Seller : <>[](scope = s) => <>[](cache # None => cache.scope = s)

\* Not checked by a run, since they fail.  That a change of the grants is seen once its key is
\* evicted, "otherwise a concurrent request could repopulate the cache" (the same comment): a
\* request that read them before the commit puts them back after the eviction.
CurrentOnceEvicted == cache # None /\ due = 0 /\ ~missed => cache.scope = scope

\* And that invalidatePrincipal is "called after any role or status change so revocation is
\* immediate" (auth.service.ts:149): no change of an account's status calls it.
StatusCurrent == cache # None /\ due = 0 /\ (\A r \in Request : req[r] = None) => cache.active = active
=============================================================================
