---------------------------- MODULE Idempotency ----------------------------
(***************************************************************************)
(* Request idempotency (common/idempotency/idempotency.service.ts) around  *)
(* the one handler it guards, placeOrder.                                  *)
(*                                                                         *)
(* The key table says whether a request is under way or done, but its      *)
(* statements are transactions of their own: between any two of them other *)
(* copies of the request, the handler's own transaction and the pruning    *)
(* job may act, and a process may die.  After a minute a claim counts as   *)
(* abandoned, whether or not its owner is still at work.                   *)
(***************************************************************************)
EXTENDS Naturals

CONSTANTS
  Caller,     \* copies of requests: taps, retries, tabs
  Key, Body,  \* idempotency keys; bodies, each naming the session to be placed
  Order,      \* orders that may be placed
  KeyOf,      \* the key each caller sends
  BodyOf,     \* the body each caller sends
  MaxFaults,  \* bound: failures of the handler, lost commits and updates, processes killed
  MaxPrunes,  \* bound: rows the pruning job deletes
  None

ASSUME IdempotencyAssumption ==
  /\ KeyOf \in [Caller -> Key]
  /\ BodyOf \in [Caller -> Body]
  /\ None \notin Order /\ None \notin Body
  /\ MaxFaults \in Nat
  /\ MaxPrunes \in Nat

Position == {"idle", "look", "take", "run", "complete", "fail", "answered", "refused"}

NoRow == [body |-> None, status |-> "NONE", response |-> None, stale |-> FALSE]
Rows == [body: Body, status: {"IN_PROGRESS", "COMPLETED", "FAILED"},
         response: Order \cup {None}, stale: BOOLEAN] \cup {NoRow}

VARIABLES
  row,     \* platform.idempotency_keys: stale = locked_at is more than a minute ago
  at,      \* where a caller's request is
  got,     \* what its handler returned
  placed,  \* the order of a session (checkout_sessions.order_id)
  answer,  \* the order a caller was told of
  faults,  \* failures left
  prunes   \* deletions left

vars == <<row, at, got, placed, answer, faults, prunes>>

RowOf(c) == row[KeyOf[c]]
Goto(c, p) == at' = [at EXCEPT ![c] = p]

\* The claim: insert, on conflict do nothing.  A caller without an answer may send again.
Claim(c) ==
  /\ at[c] = "idle"
  /\ IF RowOf(c) = NoRow
       THEN /\ row' = [row EXCEPT ![KeyOf[c]] =
                        [body |-> BodyOf[c], status |-> "IN_PROGRESS", response |-> None,
                         stale |-> FALSE]]
            /\ Goto(c, "run")
       ELSE Goto(c, "look") /\ UNCHANGED row
  /\ UNCHANGED <<got, placed, answer, faults, prunes>>

\* What the select tells a copy that was not first: the row is gone or its owner at work
\* (try again), another body (refused for good) ...
LookAgain(c) ==
  /\ at[c] = "look"
  /\ \/ RowOf(c) = NoRow
     \/ /\ RowOf(c).body = BodyOf[c]
        /\ RowOf(c).status = "IN_PROGRESS" /\ ~RowOf(c).stale
  /\ Goto(c, "idle")
  /\ UNCHANGED <<row, got, placed, answer, faults, prunes>>

Refuse(c) ==
  /\ at[c] = "look"
  /\ RowOf(c) # NoRow /\ RowOf(c).body # BodyOf[c]
  /\ Goto(c, "refused")
  /\ UNCHANGED <<row, got, placed, answer, faults, prunes>>

\* ... done: the stored response is the answer ...
Replay(c) ==
  /\ at[c] = "look"
  /\ RowOf(c).status = "COMPLETED" /\ RowOf(c).body = BodyOf[c]
  /\ answer' = [answer EXCEPT ![c] = RowOf(c).response]
  /\ Goto(c, "answered")
  /\ UNCHANGED <<row, got, placed, faults, prunes>>

\* Mutant: a claim whose owner died is never taken over.
MutLookStale(c) ==
  /\ at[c] = "look"
  /\ RowOf(c).status = "FAILED" /\ RowOf(c).body = BodyOf[c]
  /\ Goto(c, "run")
  /\ UNCHANGED <<row, got, placed, answer, faults, prunes>>

\* Mutant: the fingerprints are not compared on this way.
MutLookFailed(c) ==
  /\ at[c] = "look"
  /\ \/ RowOf(c).status = "IN_PROGRESS" /\ RowOf(c).stale /\ Goto(c, "take")
     \/ RowOf(c).status = "FAILED" /\ Goto(c, "run")
  /\ UNCHANGED <<row, got, placed, answer, faults, prunes>>

\* ... abandoned: to be taken over, or failed: run again without another claim.
LookStale(c) ==
  /\ at[c] = "look"
  /\ RowOf(c).body = BodyOf[c]
  /\ \/ RowOf(c).status = "IN_PROGRESS" /\ RowOf(c).stale /\ Goto(c, "take")
     \/ RowOf(c).status = "FAILED" /\ Goto(c, "run")
  /\ UNCHANGED <<row, got, placed, answer, faults, prunes>>

\* An update by key of the row that is there now, if one is.
Stamped(c, r) == IF RowOf(c) = NoRow THEN row ELSE [row EXCEPT ![KeyOf[c]] = r]

TakeOver(c) ==
  /\ at[c] = "take"
  /\ row' = Stamped(c, [RowOf(c) EXCEPT !.status = "IN_PROGRESS", !.stale = FALSE])
  /\ Goto(c, "run")
  /\ UNCHANGED <<got, placed, answer, faults, prunes>>

Fresh(o) == \A b \in Body : placed[b] # o

\* Mutant: placeOrder does not ask whether the session has an order.
MutPlaceOrder(c, o) ==
  /\ Fresh(o)
  /\ placed' = [placed EXCEPT ![BodyOf[c]] = o]
  /\ got' = [got EXCEPT ![c] = o]

\* The handler's transaction, under the session's row lock: the order that is there, or a
\* new one.
PlaceOrder(c, o) ==
  /\ IF placed[BodyOf[c]] = None
       THEN Fresh(o) /\ placed' = [placed EXCEPT ![BodyOf[c]] = o]
       ELSE o = placed[BodyOf[c]] /\ UNCHANGED placed
  /\ got' = [got EXCEPT ![c] = o]

Run(c) ==
  /\ at[c] = "run"
  /\ \E o \in Order : PlaceOrder(c, o)
  /\ Goto(c, "complete")
  /\ UNCHANGED <<row, answer, faults, prunes>>

\* The handler throws: it was refused or rolled back, or it committed and the client lost
\* the connection before it heard.
RunFails(c) ==
  /\ at[c] = "run"
  /\ faults > 0
  /\ \/ UNCHANGED <<placed, got>>
     \/ \E o \in Order : PlaceOrder(c, o)
  /\ Goto(c, "fail")
  /\ faults' = faults - 1
  /\ UNCHANGED <<row, answer, prunes>>

\* The response is stored by key, whoever owns the claim by now.
Complete(c) ==
  /\ at[c] = "complete"
  /\ row' = Stamped(c, [RowOf(c) EXCEPT !.status = "COMPLETED", !.response = got[c]])
  /\ answer' = [answer EXCEPT ![c] = got[c]]
  /\ Goto(c, "answered")
  /\ UNCHANGED <<got, placed, faults, prunes>>

CompleteFails(c) ==
  /\ at[c] = "complete"
  /\ faults > 0
  /\ Goto(c, "fail")
  /\ faults' = faults - 1
  /\ UNCHANGED <<row, got, placed, answer, prunes>>

\* The key is marked failed, also by key: even that of a copy which completed.
Fail(c) ==
  /\ at[c] = "fail"
  /\ row' = Stamped(c, [RowOf(c) EXCEPT !.status = "FAILED"])
  /\ Goto(c, "idle")
  /\ UNCHANGED <<got, placed, answer, faults, prunes>>

\* A process dies, or the update of Fail is lost and its error swallowed; the row stays as
\* it is.
Die(c) ==
  /\ at[c] \in {"look", "take", "run", "complete", "fail"}
  /\ faults > 0
  /\ Goto(c, "idle")
  /\ faults' = faults - 1
  /\ UNCHANGED <<row, got, placed, answer, prunes>>

\* A minute passes.
Elapse(k) ==
  /\ row[k].status = "IN_PROGRESS" /\ ~row[k].stale
  /\ row' = [row EXCEPT ![k].stale = TRUE]
  /\ UNCHANGED <<at, got, placed, answer, faults, prunes>>

\* Nobody is between the select and the last update of this key.
Quiet(k) == \A c \in Caller : KeyOf[c] = k => at[c] \notin {"take", "run", "complete", "fail"}

\* The job platform.prune-idempotency-keys: by age, whatever the status.  Keys live for a
\* month and requests for a minute; that one is retried as its key turns a month old is
\* left out (a request of another body could then take the key and be told its answer).
Prune(k) ==
  /\ row[k] # NoRow /\ Quiet(k)
  /\ prunes > 0
  /\ row' = [row EXCEPT ![k] = NoRow]
  /\ prunes' = prunes - 1
  /\ UNCHANGED <<at, got, placed, answer, faults>>

Init ==
  /\ row = [k \in Key |-> NoRow]
  /\ at = [c \in Caller |-> "idle"]
  /\ got = [c \in Caller |-> None]
  /\ placed = [b \in Body |-> None]
  /\ answer = [c \in Caller |-> None]
  /\ faults = MaxFaults
  /\ prunes = MaxPrunes

Step(c) ==
  \/ Claim(c) \/ LookAgain(c) \/ Refuse(c) \/ Replay(c) \/ LookStale(c)
  \/ TakeOver(c) \/ Run(c) \/ Complete(c) \/ Fail(c)

Next ==
  \/ \E c \in Caller : Step(c) \/ RunFails(c) \/ CompleteFails(c) \/ Die(c)
  \/ \E k \in Key : Elapse(k) \/ Prune(k)

Spec == Init /\ [][Next]_vars

\* A caller without an answer sends again, a request that began goes on, time passes.
FairSpec ==
  /\ Spec
  /\ \A c \in Caller : WF_vars(Step(c))
  /\ \A k \in Key : WF_vars(Elapse(k))

-----------------------------------------------------------------------------
TypeOK ==
  /\ row \in [Key -> Rows]
  /\ at \in [Caller -> Position]
  /\ got \in [Caller -> Order \cup {None}]
  /\ placed \in [Body -> Order \cup {None}]
  /\ answer \in [Caller -> Order \cup {None}]
  /\ faults \in 0..MaxFaults
  /\ prunes \in 0..MaxPrunes

\* What a completed key would replay is the order of the session its request was about,
\* although whoever finishes writes by key and not by claim (idempotency.service.ts:101).
ResponseIsOutcome ==
  \A k \in Key : row[k].status = "COMPLETED" =>
    row[k].response # None /\ row[k].response = placed[row[k].body]

\* Through takeovers, failures, lost updates and pruned keys the endpoint keeps the promise
\* of OneShot: one order for a session, and every copy of the request is told of that one
\* (idempotency.service.ts:32, checkout.service.ts:370).
Once == INSTANCE OneShot WITH Outcome <- Order, outcome <- placed
ImplementsOneShot == Once!OSpec

\* A key is not burnt by the failure or death of a request: whoever keeps sending is told
\* of the order, or that the key belongs to another body (idempotency.service.ts:83, :111).
CallsAreAnswered == \A c \in Caller : <>(at[c] \in {"answered", "refused"})

=============================================================================
