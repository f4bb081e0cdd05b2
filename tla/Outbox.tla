------------------------------- MODULE Outbox -------------------------------
(***************************************************************************)
(* The transactional outbox: platform.outbox_events and its functions      *)
(* (supabase/migrations/20260823000300_platform.sql), the dispatcher of    *)
(* the worker service (outbox/dispatcher.ts) and the job that requeues     *)
(* what a dead worker left behind (jobs/index.ts).                         *)
(*                                                                         *)
(* Each SQL statement, and each consumer's transaction, is one action; a   *)
(* worker holds no lock between them, and any other worker may step in     *)
(* between.  An event is identified by its place in the order of           *)
(* created_at.                                                             *)
(*                                                                         *)
(* Failures are bounded by a budget: a consumer that throws, a worker that *)
(* dies or whose tick fails, and a worker slower than the visibility       *)
(* timeout each take one unit of it.                                       *)
(***************************************************************************)
EXTENDS Naturals, FiniteSets

CONSTANTS
  EventCount,    \* events are 1..EventCount, by created_at
  Worker,        \* replicas of the worker service
  Consumer,      \* registered consumers
  Partition,     \* partition keys
  PartitionOf,   \* [1..EventCount -> Partition]
  Interested,    \* [1..EventCount -> SUBSET Consumer]: who handles the type
  Malformed,     \* events whose payload fails its contract
  MaxAttempts,   \* max_attempts (8 in the schema)
  BatchSize,     \* OUTBOX_BATCH_SIZE
  MaxFaults,     \* bound: the budget of failures
  NoEvent        \* a worker between two events

Event == 1..EventCount

ASSUME OutboxAssumption ==
  /\ EventCount \in Nat
  /\ PartitionOf \in [Event -> Partition]
  /\ Interested \in [Event -> SUBSET Consumer]
  /\ Malformed \subseteq Event
  /\ MaxAttempts \in Nat \ {0}
  /\ BatchSize \in Nat \ {0}
  /\ MaxFaults \in Nat
  /\ NoEvent \notin Event

Status == {"NONE", "PENDING", "PROCESSING", "PUBLISHED", "FAILED", "DEAD_LETTER"}
Settled == {"PUBLISHED", "DEAD_LETTER"}

VARIABLES
  event,    \* outbox_events: status, attempts, available_at <= now, lock older than the timeout
  offset,   \* consumer_offsets
  effect,   \* history: how often a consumer's handler committed for an event
  worker,   \* the batch a worker has left, its event, the consumers to run, any failure
  faults    \* the budget of failures left

vars == <<event, offset, effect, worker, faults>>

-----------------------------------------------------------------------------
Idle == [batch |-> {}, current |-> NoEvent, todo |-> {}, failed |-> FALSE]

\* A domain transaction inserts the event.  Transactions commit in any order, so an event
\* may become visible after one that is younger by created_at.
Emit(e) ==
  /\ event[e].status = "NONE"
  /\ event' = [event EXCEPT ![e].status = "PENDING", ![e].ready = TRUE]
  /\ UNCHANGED <<offset, effect, worker, faults>>

Claimable == {e \in Event : event[e].status \in {"PENDING", "FAILED"} /\ event[e].ready}

\* The oldest claimable events, as many as a batch takes.
NextBatch == {e \in Claimable : Cardinality({d \in Claimable : d < e}) < BatchSize}

\* claim_outbox_batch.  A concurrent claim skips the rows this one has locked, so claims
\* come one after the other; UPDATE ... RETURNING gives the batch in no order.
Claim(w) ==
  /\ worker[w] = Idle
  /\ NextBatch # {}
  /\ event' = [e \in Event |->
       IF e \in NextBatch
       THEN [status |-> "PROCESSING", attempts |-> event[e].attempts + 1,
             ready |-> TRUE, stale |-> FALSE]
       ELSE event[e]]
  /\ worker' = [worker EXCEPT ![w].batch = NextBatch]
  /\ UNCHANGED <<offset, effect, faults>>

\* dispatch begins: a malformed event that somebody wants runs no consumer.
Dispatch(w, e) ==
  /\ worker[w].current = NoEvent
  /\ e \in worker[w].batch
  /\ worker' = [worker EXCEPT ![w].current = e,
                              ![w].todo = IF e \in Malformed THEN {} ELSE Interested[e]]
  /\ UNCHANGED <<event, offset, effect, faults>>

\* Mutant: the handler runs whether or not the offset was there.
MutRunConsumer(w, c) ==
  /\ c \in worker[w].todo
  /\ LET e == worker[w].current
     IN /\ offset' = offset \cup {<<c, e>>}
        /\ effect' = [effect EXCEPT ![<<c, e>>] = @ + 1]
  /\ worker' = [worker EXCEPT ![w].todo = @ \ {c}]
  /\ UNCHANGED <<event, faults>>

\* runConsumer: the offset and the effect in one transaction, nothing if the offset is there.
RunConsumer(w, c) ==
  /\ c \in worker[w].todo
  /\ LET e == worker[w].current
     IN /\ offset' = offset \cup {<<c, e>>}
        /\ effect' = [effect EXCEPT ![<<c, e>>] = IF <<c, e>> \in offset THEN @ ELSE @ + 1]
  /\ worker' = [worker EXCEPT ![w].todo = @ \ {c}]
  /\ UNCHANGED <<event, faults>>

\* The transaction rolls back; dispatch notes the failure and goes on to the next consumer.
ConsumerThrows(w, c) ==
  /\ c \in worker[w].todo
  /\ faults > 0
  /\ worker' = [worker EXCEPT ![w].todo = @ \ {c}, ![w].failed = TRUE]
  /\ faults' = faults - 1
  /\ UNCHANGED <<event, offset, effect>>

\* complete_outbox_event: by id alone, whatever has become of the row meanwhile.
Complete(e) == event' = [event EXCEPT ![e].status = "PUBLISHED"]

\* fail_outbox_event: by id alone as well.
Fail(e) ==
  event' = IF event[e].attempts >= MaxAttempts
           THEN [event EXCEPT ![e].status = "DEAD_LETTER"]
           ELSE [event EXCEPT ![e].status = "FAILED", ![e].ready = FALSE]

\* deadLetter.
Park(e) == event' = [event EXCEPT ![e].status = "DEAD_LETTER"]

\* Mutant: one consumer that succeeded is enough.
MutFinish(w) ==
  LET e == worker[w].current IN
  /\ e # NoEvent
  /\ worker[w].todo = {}
  /\ IF e \in Malformed /\ Interested[e] # {} THEN Park(e)
     ELSE IF worker[w].failed /\ ~ \E c \in Interested[e] : <<c, e>> \in offset THEN Fail(e)
     ELSE Complete(e)
  /\ worker' = [worker EXCEPT ![w] = [Idle EXCEPT !.batch = worker[w].batch \ {e}]]
  /\ UNCHANGED <<offset, effect, faults>>

\* dispatch ends.
Finish(w) ==
  LET e == worker[w].current IN
  /\ e # NoEvent
  /\ worker[w].todo = {}
  /\ IF e \in Malformed /\ Interested[e] # {} THEN Park(e)
     ELSE IF worker[w].failed THEN Fail(e)
     ELSE Complete(e)
  /\ worker' = [worker EXCEPT ![w] = [Idle EXCEPT !.batch = worker[w].batch \ {e}]]
  /\ UNCHANGED <<offset, effect, faults>>


\* The process dies, or a statement fails and the tick drops the rest of its batch.
Abandon(w) ==
  /\ worker[w].batch # {}
  /\ faults > 0
  /\ worker' = [worker EXCEPT ![w] = Idle]
  /\ faults' = faults - 1
  /\ UNCHANGED <<event, offset, effect>>

\* available_at passes.
BackoffEnds(e) ==
  /\ event[e].status = "FAILED" /\ ~ event[e].ready
  /\ event' = [event EXCEPT ![e].ready = TRUE]
  /\ UNCHANGED <<offset, effect, worker, faults>>

Held(e) == \E w \in Worker : e \in worker[w].batch

\* The lock outlives the visibility timeout: because nobody holds the event any more ...
LockExpires(e) ==
  /\ event[e].status = "PROCESSING" /\ ~ event[e].stale
  /\ ~ Held(e)
  /\ event' = [event EXCEPT ![e].stale = TRUE]
  /\ UNCHANGED <<offset, effect, worker, faults>>

\* ... or because the worker that does is slow.
WorkerStalls(e) ==
  /\ event[e].status = "PROCESSING" /\ ~ event[e].stale
  /\ Held(e)
  /\ faults > 0
  /\ event' = [event EXCEPT ![e].stale = TRUE]
  /\ faults' = faults - 1
  /\ UNCHANGED <<offset, effect, worker>>

Stuck(e) == event[e].status = "PROCESSING" /\ event[e].stale

\* Mutant: the recovered rows keep a future available_at and their lock.
MutRequeue ==
  /\ \E e \in Event : Stuck(e)
  /\ event' = [e \in Event |-> IF Stuck(e) THEN [event[e] EXCEPT !.stale = FALSE] ELSE event[e]]
  /\ UNCHANGED <<offset, effect, worker, faults>>

\* requeue_stuck_outbox_events, run by outboxRequeueJob.
Requeue ==
  /\ \E e \in Event : Stuck(e)
  /\ event' = [e \in Event |->
       IF Stuck(e) THEN [event[e] EXCEPT !.status = "FAILED", !.ready = TRUE, !.stale = FALSE]
                   ELSE event[e]]
  /\ UNCHANGED <<offset, effect, worker, faults>>

-----------------------------------------------------------------------------
Init ==
  /\ event = [e \in Event |-> [status |-> "NONE", attempts |-> 0, ready |-> FALSE, stale |-> FALSE]]
  /\ offset = {}
  /\ effect = [x \in Consumer \X Event |-> 0]
  /\ worker = [w \in Worker |-> Idle]
  /\ faults = MaxFaults

WorkerStep(w) ==
  \/ Claim(w)
  \/ \E e \in Event : Dispatch(w, e)
  \/ \E c \in Consumer : RunConsumer(w, c)
  \/ Finish(w)

Next ==
  \/ \E e \in Event : Emit(e) \/ BackoffEnds(e) \/ LockExpires(e) \/ WorkerStalls(e)
  \/ \E w \in Worker :
       \/ WorkerStep(w)
       \/ \E c \in Consumer : ConsumerThrows(w, c)
       \/ Abandon(w)
  \/ Requeue

Spec == Init /\ [][Next]_vars

\* Every replica polls in a loop; time passes; the requeue job runs every minute.  Nothing
\* obliges a failure to happen.
Fairness ==
  /\ \A w \in Worker : WF_vars(WorkerStep(w))
  /\ \A e \in Event : WF_vars(BackoffEnds(e)) /\ WF_vars(LockExpires(e))
  /\ WF_vars(Requeue)

FairSpec == Spec /\ Fairness

-----------------------------------------------------------------------------
(* Properties *)

EventRecord == [status : Status, attempts : Nat, ready : BOOLEAN, stale : BOOLEAN]
WorkerRecord == [batch : SUBSET Event, current : Event \cup {NoEvent},
                 todo : SUBSET Consumer, failed : BOOLEAN]

\* Rows and workers have their types, and only a worker with an event has consumers to run.
TypeOK ==
  /\ event \in [Event -> EventRecord]
  /\ offset \subseteq Consumer \X Event
  /\ effect \in [Consumer \X Event -> Nat]
  /\ worker \in [Worker -> WorkerRecord]
  /\ \A w \in Worker : worker[w].todo # {} => worker[w].current # NoEvent
  /\ faults \in Nat

\* However often an event is delivered (a slow worker and its successor at once, a retry
\* after a partial failure), a consumer's effect is applied once and is recorded.
EffectOnce ==
  \A c \in Consumer, e \in Event : effect[<<c, e>>] = IF <<c, e>> \in offset THEN 1 ELSE 0

\* An event is published only when every consumer that wants it has handled it, even when
\* two workers dispatch it at once and one of them fails (dispatch, complete_outbox_event).
PublishedIsConsumed ==
  \A e \in Event : event[e].status = "PUBLISHED" => Interested[e] \X {e} \subseteq offset

\* Every event ends up published or in the dead letter, and stays there, whatever crashes,
\* stalls and failures came before.
EventuallySettled == \A e \in Event : (event[e].status # "NONE") ~> [](event[e].status \in Settled)

-----------------------------------------------------------------------------
(* What comments and documents claim and the code does not keep; the README describes how. *)

\* The publishing order promised for a partition ("Events for the same partition_key are
\* published in creation order"): no event is published before an older one that was there
\* to be published.
PublishedInOrder ==
  [][\A d, e \in Event :
       /\ d < e /\ PartitionOf[d] = PartitionOf[e]
       /\ event[e].status # "PUBLISHED" /\ event'[e].status = "PUBLISHED"
       => event[d].status \in Settled \cup {"NONE"}]_vars

\* The retry budget ("After max_attempts the row becomes DEAD_LETTER"): nothing is attempted
\* more often.
AttemptsBounded == \A e \in Event : event[e].attempts <= MaxAttempts
=============================================================================
