------------------------ MODULE WorkerService_proofs ------------------------
(***************************************************************************)
(* Proofs about the worker service and its two halves, for any number of   *)
(* workers, replicas, events, consumers, jobs and failures.  Of Outbox:    *)
(* its type, the consumers' exactly-once effect, and that a published      *)
(* event has been consumed.  Of JobScheduler: that no job overlaps itself. *)
(* Then that the service does to the outbox and to the jobs only what      *)
(* these two allow, so that all of it holds of the service.                *)
(***************************************************************************)
EXTENDS WorkerService, TLAPS

-----------------------------------------------------------------------------
(* The outbox *)

LEMMA IdleType == Idle \in WorkerRecord /\ Idle.todo = {}
  BY DEF Idle, WorkerRecord

LEMMA InitType == Init => TypeOK
  BY OutboxAssumption, IdleType DEF Init, TypeOK, EventRecord, Status

\* The three ways an event leaves the hands of a worker keep its record well formed.
LEMMA OutcomeType ==
  ASSUME TypeOK, NEW e \in Event, Complete(e) \/ Fail(e) \/ Park(e)
  PROVE  event' \in [Event -> EventRecord]
<1>1. CASE Complete(e) BY <1>1 DEF Complete, TypeOK, EventRecord, Status
<1>2. CASE Fail(e) BY <1>2 DEF Fail, TypeOK, EventRecord, Status
<1>3. CASE Park(e) BY <1>3 DEF Park, TypeOK, EventRecord, Status
<1> QED BY <1>1, <1>2, <1>3

LEMMA NextType == TypeOK /\ [Next]_vars => TypeOK'
<1> SUFFICES ASSUME TypeOK, [Next]_vars PROVE TypeOK'
  OBVIOUS
<1>1. ASSUME NEW e \in Event, Emit(e) \/ BackoffEnds(e) \/ LockExpires(e) \/ WorkerStalls(e)
      PROVE  TypeOK'
  <2>1. CASE Emit(e)
    <3>1. event' \in [Event -> EventRecord] BY <2>1 DEF Emit, TypeOK, EventRecord, Status
    <3> QED BY <2>1, <3>1 DEF Emit, TypeOK
  <2>2. CASE BackoffEnds(e) BY <2>2 DEF BackoffEnds, TypeOK, EventRecord
  <2>3. CASE LockExpires(e) BY <2>3 DEF LockExpires, TypeOK, EventRecord
  <2>4. CASE WorkerStalls(e)
    <3>1. event' \in [Event -> EventRecord] BY <2>4 DEF WorkerStalls, TypeOK, EventRecord
    <3>2. faults' \in Nat BY <2>4 DEF WorkerStalls, TypeOK
    <3> QED BY <2>4, <3>1, <3>2 DEF WorkerStalls, TypeOK
  <2> QED BY <1>1, <2>1, <2>2, <2>3, <2>4
<1>2. ASSUME NEW w \in Worker, Claim(w) PROVE TypeOK'
  <2>1. NextBatch \subseteq Event BY DEF NextBatch, Claimable
  <2>2. event' \in [Event -> EventRecord]
    BY <1>2 DEF Claim, TypeOK, EventRecord, Status
  <2> QED BY <1>2, <2>1, <2>2 DEF Claim, TypeOK, WorkerRecord
<1>3. ASSUME NEW w \in Worker, NEW e \in Event, Dispatch(w, e) PROVE TypeOK'
  <2> DEFINE todo == IF e \in Malformed THEN {} ELSE Interested[e]
  <2>1. todo \subseteq Consumer /\ e # NoEvent BY OutboxAssumption
  <2> HIDE DEF todo
  <2>2. worker' = [worker EXCEPT ![w].current = e, ![w].todo = todo]
    BY <1>3 DEF Dispatch, todo
  <2>3. worker' \in [Worker -> WorkerRecord]
    BY <2>1, <2>2 DEF TypeOK, WorkerRecord
  <2>4. \A v \in Worker : worker'[v].todo # {} => worker'[v].current # NoEvent
    BY <2>1, <2>2 DEF TypeOK, WorkerRecord
  <2> QED BY <1>3, <2>3, <2>4 DEF Dispatch, TypeOK
<1>4. ASSUME NEW w \in Worker, NEW c \in Consumer, RunConsumer(w, c) PROVE TypeOK'
  <2>1. worker[w].current \in Event BY <1>4 DEF RunConsumer, TypeOK, WorkerRecord
  <2>2. worker' \in [Worker -> WorkerRecord] BY <1>4 DEF RunConsumer, TypeOK, WorkerRecord
  <2>3. c \in Consumer /\ <<c, worker[w].current>> \in Consumer \X Event BY <2>1
  <2>4. effect' \in [Consumer \X Event -> Nat] BY <1>4, <2>3 DEF RunConsumer, TypeOK
  <2>5. offset' \subseteq Consumer \X Event BY <1>4, <2>3 DEF RunConsumer, TypeOK
  <2>6. \A v \in Worker : worker'[v].todo # {} => worker'[v].current # NoEvent
    BY <1>4 DEF RunConsumer, TypeOK, WorkerRecord
  <2> QED BY <1>4, <2>2, <2>4, <2>5, <2>6 DEF RunConsumer, TypeOK
<1>5. ASSUME NEW w \in Worker, Finish(w) PROVE TypeOK'
  <2>1. worker[w].current \in Event BY <1>5 DEF Finish, TypeOK, WorkerRecord
  <2>2. event' \in [Event -> EventRecord] BY <1>5, <2>1, OutcomeType DEF Finish
  <2>3. worker' \in [Worker -> WorkerRecord]
    BY <1>5 DEF Finish, TypeOK, WorkerRecord, Idle
  <2>4. \A v \in Worker : worker'[v].todo # {} => worker'[v].current # NoEvent
    BY <1>5 DEF Finish, TypeOK, WorkerRecord, Idle
  <2> QED BY <1>5, <2>2, <2>3, <2>4 DEF Finish, TypeOK
<1>6. ASSUME NEW w \in Worker, NEW c \in Consumer, ConsumerThrows(w, c) PROVE TypeOK'
  <2>1. worker' \in [Worker -> WorkerRecord] BY <1>6 DEF ConsumerThrows, TypeOK, WorkerRecord
  <2>2. faults' \in Nat BY <1>6 DEF ConsumerThrows, TypeOK
  <2>3. \A v \in Worker : worker'[v].todo # {} => worker'[v].current # NoEvent
    BY <1>6 DEF ConsumerThrows, TypeOK, WorkerRecord
  <2> QED BY <1>6, <2>1, <2>2, <2>3 DEF ConsumerThrows, TypeOK
<1>7. ASSUME NEW w \in Worker, Abandon(w) PROVE TypeOK'
  BY <1>7, IdleType DEF Abandon, TypeOK
<1>8. CASE Requeue BY <1>8 DEF Requeue, TypeOK, EventRecord, Status
<1>9. CASE UNCHANGED vars BY <1>9 DEF vars, TypeOK
<1> QED BY <1>1, <1>2, <1>3, <1>4, <1>5, <1>6, <1>7, <1>8, <1>9 DEF Next, WorkerStep

\* Every row of the outbox and every worker's state has its type, for any number of each.
THEOREM OutboxTypeCorrect == Spec => []TypeOK
  BY InitType, NextType, PTL DEF Spec

-----------------------------------------------------------------------------
(* A consumer's effect *)

\* The handler's effect and the offset commit together, so they stay equal.
LEMMA NextEffect == TypeOK /\ EffectOnce /\ [Next]_vars => EffectOnce'
<1> SUFFICES ASSUME TypeOK, EffectOnce, [Next]_vars PROVE EffectOnce'
  OBVIOUS
<1>1. ASSUME NEW w \in Worker, NEW c \in Consumer, RunConsumer(w, c) PROVE EffectOnce'
  <2> DEFINE e == worker[w].current
  <2>1. e \in Event BY <1>1 DEF RunConsumer, TypeOK, WorkerRecord
  <2> HIDE DEF e
  <2>2. /\ offset' = offset \cup {<<c, e>>}
        /\ effect' = [effect EXCEPT ![<<c, e>>] = IF <<c, e>> \in offset THEN @ ELSE @ + 1]
    BY <1>1 DEF RunConsumer, e
  <2>3. ASSUME NEW d \in Consumer, NEW f \in Event
        PROVE  effect'[<<d, f>>] = IF <<d, f>> \in offset' THEN 1 ELSE 0
    <3>1. effect[<<d, f>>] = IF <<d, f>> \in offset THEN 1 ELSE 0 BY DEF EffectOnce
    <3>2. CASE <<d, f>> = <<c, e>> BY <2>1, <2>2, <3>1, <3>2 DEF TypeOK
    <3>3. CASE <<d, f>> # <<c, e>>
      <4>1. effect'[<<d, f>>] = effect[<<d, f>>] BY <2>2, <3>3 DEF TypeOK
      <4>2. <<d, f>> \in offset' <=> <<d, f>> \in offset BY <2>2, <3>3
      <4> QED BY <3>1, <4>1, <4>2
    <3> QED BY <3>2, <3>3
  <2> QED BY <2>3 DEF EffectOnce
<1>2. CASE UNCHANGED <<offset, effect>> BY <1>2 DEF EffectOnce
<1>3. (\E w \in Worker, c \in Consumer : RunConsumer(w, c)) \/ UNCHANGED <<offset, effect>>
  BY DEF Next, WorkerStep, vars, Emit, BackoffEnds, LockExpires, WorkerStalls, Claim,
         Dispatch, Finish, ConsumerThrows, Abandon, Requeue
<1> QED BY <1>1, <1>2, <1>3

\* No delivery, however often repeated, applies a consumer's effect twice.
THEOREM EffectsOnce == Spec => []EffectOnce
<1>1. Init => EffectOnce BY DEF Init, EffectOnce
<1> QED BY <1>1, NextEffect, OutboxTypeCorrect, PTL DEF Spec

-----------------------------------------------------------------------------
(* What a published event means *)

\* What a worker that saw no failure knows: the consumers it has been through have run.
Progress ==
  \A w \in Worker :
    LET e == worker[w].current IN
    e # NoEvent /\ ~ worker[w].failed /\ ~ (e \in Malformed /\ Interested[e] # {})
      => (Interested[e] \ worker[w].todo) \X {e} \subseteq offset

\* The offsets only grow.
LEMMA OffsetsGrow == [Next]_vars => offset \subseteq offset'
BY DEF Next, WorkerStep, vars, Emit, BackoffEnds, LockExpires, WorkerStalls, Claim,
       Dispatch, Finish, ConsumerThrows, Abandon, Requeue, RunConsumer

\* What one worker knows stays true as long as it does not move.
LEMMA OthersProgress ==
  ASSUME TypeOK, Progress, [Next]_vars, NEW w \in Worker, worker'[w] = worker[w],
         worker'[w].current # NoEvent, ~ worker'[w].failed,
         ~ (worker'[w].current \in Malformed /\ Interested[worker'[w].current] # {})
  PROVE  (Interested[worker'[w].current] \ worker'[w].todo) \X {worker'[w].current} \subseteq offset'
BY OffsetsGrow DEF Progress

LEMMA NextProgress == TypeOK /\ Progress /\ [Next]_vars => Progress'
<1> SUFFICES ASSUME TypeOK, Progress, [Next]_vars, NEW w \in Worker,
                    worker'[w].current # NoEvent, ~ worker'[w].failed,
                    ~ (worker'[w].current \in Malformed
                       /\ Interested[worker'[w].current] # {})
             PROVE  (Interested[worker'[w].current] \ worker'[w].todo)
                      \X {worker'[w].current} \subseteq offset'
  BY DEF Progress
<1>1. CASE worker'[w] = worker[w] BY <1>1, OthersProgress
<1>2. ASSUME NEW e \in Event, Dispatch(w, e) PROVE (Interested[worker'[w].current] \ worker'[w].todo)
                      \X {worker'[w].current} \subseteq offset'
  <2>1. worker'[w].current = e /\ worker'[w].todo = IF e \in Malformed THEN {} ELSE Interested[e]
    BY <1>2 DEF Dispatch, TypeOK, WorkerRecord
  <2>2. Interested[e] \ worker'[w].todo = {} BY <2>1
  <2> QED BY <2>1, <2>2
<1>3. ASSUME NEW c \in Consumer, RunConsumer(w, c)
      PROVE  (Interested[worker'[w].current] \ worker'[w].todo)
                      \X {worker'[w].current} \subseteq offset'
  <2> DEFINE e == worker[w].current
  <2>1. /\ worker'[w].current = e /\ worker'[w].todo = worker[w].todo \ {c}
        /\ worker'[w].failed = worker[w].failed
    BY <1>3 DEF RunConsumer, TypeOK, WorkerRecord
  <2>2. (Interested[e] \ worker[w].todo) \X {e} \subseteq offset BY <2>1 DEF Progress
  <2>3. offset' = offset \cup {<<c, e>>} BY <1>3 DEF RunConsumer
  <2> QED BY <2>1, <2>2, <2>3
<1>4. ASSUME NEW c \in Consumer, ConsumerThrows(w, c) PROVE FALSE
  BY <1>4 DEF ConsumerThrows, TypeOK, WorkerRecord
<1>5. ASSUME Finish(w) \/ Abandon(w) PROVE FALSE
  BY <1>5 DEF Finish, Abandon, Idle, TypeOK, WorkerRecord
<1>6. ASSUME Claim(w) PROVE FALSE
  <2>1. worker'[w].current = NoEvent BY <1>6 DEF Claim, Idle, TypeOK, WorkerRecord
  <2> QED BY <2>1
<1>7. \/ worker'[w] = worker[w] \/ \E e \in Event : Dispatch(w, e)
      \/ \E c \in Consumer : RunConsumer(w, c) \/ ConsumerThrows(w, c)
      \/ Finish(w) \/ Abandon(w) \/ Claim(w)
  <2>1. ASSUME NEW v \in Worker, v # w, WorkerStep(v) \/ Abandon(v)
                 \/ \E c \in Consumer : ConsumerThrows(v, c)
        PROVE  worker'[w] = worker[w]
    BY <2>1 DEF WorkerStep, Claim, Dispatch, RunConsumer, Finish, Abandon, ConsumerThrows, TypeOK
  <2>2. ASSUME NEW e \in Event, Emit(e) \/ BackoffEnds(e) \/ LockExpires(e) \/ WorkerStalls(e)
        PROVE  worker'[w] = worker[w]
    BY <2>2 DEF Emit, BackoffEnds, LockExpires, WorkerStalls
  <2>3. CASE Requeue BY <2>3 DEF Requeue
  <2>4. CASE UNCHANGED vars BY <2>4 DEF vars
  <2> QED BY <2>1, <2>2, <2>3, <2>4 DEF Next, WorkerStep
<1> QED BY <1>1, <1>2, <1>3, <1>4, <1>5, <1>6, <1>7

LEMMA NextPublished ==
  TypeOK /\ Progress /\ PublishedIsConsumed /\ [Next]_vars => PublishedIsConsumed'
<1> SUFFICES ASSUME TypeOK, Progress, PublishedIsConsumed, [Next]_vars,
                    NEW e \in Event, event'[e].status = "PUBLISHED"
             PROVE  Interested[e] \X {e} \subseteq offset'
  BY DEF PublishedIsConsumed
<1>1. CASE event[e].status = "PUBLISHED" BY <1>1, OffsetsGrow DEF PublishedIsConsumed
<1>2. CASE event[e].status # "PUBLISHED"
  <2>1. PICK w \in Worker : Finish(w)
    <3>1. ASSUME NEW f \in Event, Emit(f) \/ BackoffEnds(f) \/ LockExpires(f) \/ WorkerStalls(f)
          PROVE  FALSE
      BY <1>2, <3>1 DEF Emit, BackoffEnds, LockExpires, WorkerStalls, TypeOK, EventRecord
    <3>2. ASSUME NEW w \in Worker, Claim(w) PROVE FALSE
      BY <1>2, <3>2 DEF Claim, TypeOK, EventRecord
    <3>3. ASSUME Requeue PROVE FALSE BY <1>2, <3>3 DEF Requeue, TypeOK, EventRecord
    <3>4. event' # event BY <1>2
    <3> QED BY <3>1, <3>2, <3>3, <3>4
         DEF Next, WorkerStep, vars, Dispatch, RunConsumer, ConsumerThrows, Abandon
  <2> DEFINE f == worker[w].current
  <2>2. f \in Event /\ worker[w].todo = {} BY <2>1 DEF Finish, TypeOK, WorkerRecord
  <2> HIDE DEF f
  <2>3. CASE (f \in Malformed /\ Interested[f] # {}) \/ worker[w].failed
    <3>1. Park(f) \/ Fail(f) BY <2>1, <2>3 DEF Finish, f
    <3> QED BY <1>2, <2>2, <3>1 DEF Park, Fail, TypeOK, EventRecord
  <2>4. CASE ~ (f \in Malformed /\ Interested[f] # {}) /\ ~ worker[w].failed
    <3>1. Complete(f) /\ offset' = offset BY <2>1, <2>4 DEF Finish, f
    <3>2. e = f BY <1>2, <2>2, <3>1 DEF Complete, TypeOK, EventRecord
    <3>3. f # NoEvent BY <2>2, OutboxAssumption
    <3>4. (Interested[f] \ worker[w].todo) \X {f} \subseteq offset
      BY <2>4, <3>3 DEF Progress, f
    <3> QED BY <2>2, <3>1, <3>2, <3>4
  <2> QED BY <2>3, <2>4
<1> QED BY <1>1, <1>2

\* A published event has been consumed by everyone who wants it, whichever workers
\* dispatched it and however often.
THEOREM PublishedMeansConsumed == Spec => []PublishedIsConsumed
<1>1. Init => Progress /\ PublishedIsConsumed
  BY DEF Init, Progress, PublishedIsConsumed, Idle
<1> QED BY <1>1, NextProgress, NextPublished, OutboxTypeCorrect, PTL DEF Spec

-----------------------------------------------------------------------------
(* How often an event is attempted *)

\* An event that is there to be claimed, or will be when its lock is found to be old.
Owed(e) ==
  IF \/ event[e].status \in {"NONE", "PENDING", "FAILED"}
     \/ event[e].status = "PROCESSING" /\ (event[e].stale \/ ~Held(e))
  THEN 1 ELSE 0

\* The attempts made and the one that may follow, against the budget and the failures.
Accounted(e) == event[e].attempts + Owed(e) + faults <= MaxAttempts + MaxFaults

\* An event is attempted as often as max_attempts says and once more for each failure, that is
\* for each crash, stall or error.  (AttemptsBounded says that failures do not count: "After
\* max_attempts the row becomes DEAD_LETTER", which requeue_stuck_outbox_events does not heed.)
AttemptsAccounted == \A e \in Event : event[e].attempts + faults <= MaxAttempts + MaxFaults

Budget == faults <= MaxFaults /\ \A e \in Event : Accounted(e)

LEMMA InitBudget == Init => Budget
  BY OutboxAssumption DEF Init, Budget, Accounted, Owed

\* Who fails may leave an event behind, and has paid for it.
LEMMA FailureAccounted ==
  ASSUME TypeOK, NEW e \in Event, Accounted(e), faults > 0, faults' = faults - 1,
         event'[e].attempts = event[e].attempts
  PROVE  Accounted(e)'
<1>1. Owed(e) \in {0, 1} /\ Owed(e)' \in {0, 1}
  BY DEF Owed
<1>2. event[e].attempts \in Nat /\ faults \in Nat
  BY DEF TypeOK, EventRecord
<1> QED BY <1>1, <1>2, OutboxAssumption DEF Accounted

\* What leaves an event and its worker alone changes nothing of it.
LEMMA SameAccounted ==
  ASSUME NEW e \in Event, Accounted(e), faults' = faults, event'[e] = event[e],
         Held(e) => Held(e)', TypeOK
  PROVE  Accounted(e)'
<1>1. Owed(e)' = Owed(e) \/ (Owed(e) = 1 /\ Owed(e)' = 0)
  BY DEF Owed
<1>2. event[e].attempts \in Nat /\ faults \in Nat
  BY DEF TypeOK, EventRecord
<1> QED BY <1>1, <1>2, OutboxAssumption DEF Accounted

LEMMA ClockAccounted ==
  ASSUME TypeOK, NEW e \in Event, Accounted(e), NEW f \in Event,
         Emit(f) \/ BackoffEnds(f) \/ LockExpires(f) \/ WorkerStalls(f)
  PROVE  Accounted(e)'
<1>1. CASE WorkerStalls(f)
  <2>1. event'[e].attempts = event[e].attempts
    BY <1>1 DEF WorkerStalls, TypeOK, EventRecord
  <2> QED BY <1>1, <2>1, FailureAccounted DEF WorkerStalls
<1>2. CASE ~WorkerStalls(f)
  <2>1. UNCHANGED <<worker, faults>> /\ Held(e)' = Held(e)
    BY <1>2 DEF Emit, BackoffEnds, LockExpires, Held
  <2>2. CASE e # f
    <3>1. event'[e] = event[e]
      BY <1>2, <2>2 DEF Emit, BackoffEnds, LockExpires, TypeOK
    <3> QED BY <2>1, <3>1, SameAccounted
  <2>3. CASE e = f
    <3>1. event'[e].attempts = event[e].attempts /\ Owed(e) = 1
      BY <1>2, <2>3 DEF Emit, BackoffEnds, LockExpires, TypeOK, EventRecord, Owed
    <3>2. Owed(e)' \in {0, 1} /\ event[e].attempts \in Nat /\ faults \in Nat
      BY DEF Owed, TypeOK, EventRecord
    <3> QED BY <2>1, <3>1, <3>2, OutboxAssumption DEF Accounted
  <2> QED BY <2>2, <2>3
<1> QED BY <1>1, <1>2

LEMMA ClaimAccounted ==
  ASSUME TypeOK, NEW e \in Event, Accounted(e), NEW w \in Worker, Claim(w)
  PROVE  Accounted(e)'
<1>1. worker'[w].batch = NextBatch /\ worker[w].batch = {} /\ faults' = faults
      /\ \A v \in Worker \ {w} : worker'[v] = worker[v]
  BY DEF Claim, Idle, TypeOK, WorkerRecord
<1>2. CASE e \in NextBatch
  <2>1. Owed(e) = 1
    BY <1>2 DEF NextBatch, Claimable, Owed
  <2>2. event'[e] = [status |-> "PROCESSING", attempts |-> event[e].attempts + 1,
                     ready |-> TRUE, stale |-> FALSE]
    BY <1>2 DEF Claim
  <2>3. Held(e)'
    BY <1>1, <1>2 DEF Held
  <2>4. Owed(e)' = 0
    BY <2>2, <2>3 DEF Owed
  <2>5. event'[e].attempts = event[e].attempts + 1 /\ event[e].attempts \in Nat /\ faults \in Nat
    BY <2>2 DEF TypeOK, EventRecord
  <2> QED BY <1>1, <2>1, <2>4, <2>5, OutboxAssumption DEF Accounted
<1>3. CASE e \notin NextBatch
  <2>1. event'[e] = event[e]
    BY <1>3 DEF Claim
  <2>2. Held(e) => Held(e)'
    BY <1>1 DEF Held
  <2> QED BY <1>1, <2>1, <2>2, SameAccounted
<1> QED BY <1>2, <1>3

LEMMA FinishAccounted ==
  ASSUME TypeOK, NEW e \in Event, Accounted(e), faults <= MaxFaults, NEW w \in Worker, Finish(w)
  PROVE  Accounted(e)'
<1> DEFINE f == worker[w].current
<1>1. f \in Event /\ faults' = faults /\ (Complete(f) \/ Fail(f) \/ Park(f))
  BY DEF Finish, TypeOK, WorkerRecord
<1>2. worker'[w].batch = worker[w].batch \ {f} /\ \A v \in Worker \ {w} : worker'[v] = worker[v]
  BY DEF Finish, TypeOK, WorkerRecord, Idle
<1> HIDE DEF f
<1>3. CASE e # f
  <2>1. event'[e] = event[e]
    BY <1>1, <1>3 DEF Complete, Fail, Park, TypeOK
  <2>2. Held(e) => Held(e)'
    BY <1>2, <1>3 DEF Held
  <2> QED BY <1>1, <2>1, <2>2, SameAccounted
<1>4. CASE e = f
  <2>1. event'[e].attempts = event[e].attempts
    BY <1>1, <1>4 DEF Complete, Fail, Park, TypeOK, EventRecord
  <2>2. event'[e].status \in {"PUBLISHED", "DEAD_LETTER"}
          \/ (event'[e].status = "FAILED" /\ ~(event[e].attempts >= MaxAttempts))
    BY <1>1, <1>4 DEF Complete, Fail, Park, TypeOK, EventRecord
  <2>3. Owed(e) \in {0, 1} /\ event[e].attempts \in Nat /\ faults \in Nat
    BY DEF Owed, TypeOK, EventRecord
  <2>4. CASE event'[e].status \in {"PUBLISHED", "DEAD_LETTER"}
    <3>1. Owed(e)' = 0
      BY <2>4 DEF Owed
    <3> QED BY <1>1, <2>1, <2>3, <3>1, OutboxAssumption DEF Accounted
  <2>5. CASE event'[e].status = "FAILED" /\ ~(event[e].attempts >= MaxAttempts)
    <3>1. Owed(e)' = 1
      BY <2>5 DEF Owed
    <3> QED BY <1>1, <2>1, <2>3, <2>5, <3>1, OutboxAssumption DEF Accounted
  <2> QED BY <2>2, <2>4, <2>5
<1> QED BY <1>3, <1>4

LEMMA RequeueAccounted ==
  ASSUME TypeOK, NEW e \in Event, Accounted(e), Requeue
  PROVE  Accounted(e)'
<1>1. UNCHANGED <<worker, faults>> /\ Held(e)' = Held(e)
  BY DEF Requeue, Held
<1>2. CASE Stuck(e)
  <2>1. event'[e].attempts = event[e].attempts /\ Owed(e) = 1
    BY <1>2 DEF Requeue, Stuck, Owed, TypeOK, EventRecord
  <2>2. Owed(e)' \in {0, 1} /\ event[e].attempts \in Nat /\ faults \in Nat
    BY DEF Owed, TypeOK, EventRecord
  <2> QED BY <1>1, <2>1, <2>2, OutboxAssumption DEF Accounted
<1>3. CASE ~Stuck(e)
  <2>1. event'[e] = event[e]
    BY <1>3 DEF Requeue
  <2> QED BY <1>1, <2>1, SameAccounted
<1> QED BY <1>2, <1>3

LEMMA NextBudget == TypeOK /\ Budget /\ [Next]_vars => Budget'
<1> SUFFICES ASSUME TypeOK, Budget, [Next]_vars PROVE Budget'
  OBVIOUS
<1>1. faults \in Nat /\ faults' \in Nat /\ faults' <= faults
  <2>1. faults' = faults \/ (faults > 0 /\ faults' = faults - 1)
    BY DEF Next, WorkerStep, vars, Emit, BackoffEnds, LockExpires, WorkerStalls, Claim, Dispatch,
           RunConsumer, Finish, ConsumerThrows, Abandon, Requeue
  <2> QED BY <2>1 DEF TypeOK
<1>2. ASSUME NEW e \in Event PROVE Accounted(e)'
  <2>1. Accounted(e) /\ faults <= MaxFaults
    BY DEF Budget
  <2>2. ASSUME NEW f \in Event, Emit(f) \/ BackoffEnds(f) \/ LockExpires(f) \/ WorkerStalls(f)
        PROVE  Accounted(e)'
    BY <2>1, <2>2, ClockAccounted
  <2>3. ASSUME NEW w \in Worker, Claim(w) PROVE Accounted(e)'
    BY <2>1, <2>3, ClaimAccounted
  <2>4. ASSUME NEW w \in Worker, Finish(w) PROVE Accounted(e)'
    BY <2>1, <2>4, FinishAccounted
  <2>5. ASSUME NEW w \in Worker,
               (\E f \in Event : Dispatch(w, f)) \/ (\E c \in Consumer : RunConsumer(w, c))
        PROVE  Accounted(e)'
    <3>1. UNCHANGED <<event, faults>> /\ \A v \in Worker : worker'[v].batch = worker[v].batch
      <4>1. CASE \E f \in Event : Dispatch(w, f)
        BY <4>1 DEF Dispatch, TypeOK, WorkerRecord
      <4>2. CASE \E c \in Consumer : RunConsumer(w, c)
        BY <4>2 DEF RunConsumer, TypeOK, WorkerRecord
      <4> QED BY <2>5, <4>1, <4>2
    <3>2. Held(e)' = Held(e)
      BY <3>1 DEF Held
    <3> QED BY <2>1, <3>1, <3>2, SameAccounted
  <2>6. ASSUME NEW w \in Worker, (\E c \in Consumer : ConsumerThrows(w, c)) \/ Abandon(w)
        PROVE  Accounted(e)'
    <3>1. event' = event /\ faults > 0 /\ faults' = faults - 1
      BY <2>6 DEF ConsumerThrows, Abandon
    <3> QED BY <2>1, <3>1, FailureAccounted
  <2>7. CASE Requeue
    BY <2>1, <2>7, RequeueAccounted
  <2>8. CASE UNCHANGED vars
    <3>1. event'[e] = event[e] /\ faults' = faults
      BY <2>8 DEF vars
    <3>2. Held(e) => Held(e)'
      BY <2>8 DEF vars, Held
    <3> QED BY <2>1, <3>1, <3>2, SameAccounted
  <2> QED BY <2>2, <2>3, <2>4, <2>5, <2>6, <2>7, <2>8 DEF Next, WorkerStep
<1> QED BY <1>1, <1>2, OutboxAssumption DEF Budget

LEMMA BudgetAttempts == TypeOK /\ Budget => AttemptsAccounted
<1> SUFFICES ASSUME TypeOK, Budget, NEW e \in Event
             PROVE  event[e].attempts + faults <= MaxAttempts + MaxFaults
  BY DEF AttemptsAccounted
<1>1. Owed(e) \in {0, 1} /\ event[e].attempts \in Nat /\ faults \in Nat /\ Accounted(e)
  BY DEF Owed, TypeOK, EventRecord, Budget
<1> QED BY <1>1, OutboxAssumption DEF Accounted

\* Whatever crashes, stalls and fails, whichever workers hold an event at once: it is attempted
\* at most max_attempts times and once more for every failure that the budget counts.
THEOREM AttemptsAreAccounted == Spec => []AttemptsAccounted
BY InitBudget, NextBudget, BudgetAttempts, OutboxTypeCorrect, PTL DEF Spec

-----------------------------------------------------------------------------
(* The jobs *)

\* A run that began owns its job's RUNNING row; a running exclusive job owns the lock, and so
\* does a transaction the server is still at.
Owned ==
  \A j \in Job, r \in Replica :
    /\ phase[r][j] # "waiting" => row[j] = r
    /\ j \in Exclusive =>
         /\ phase[r][j] = "running" => lock[j] = r /\ orphan[j] = {}
         /\ r \in orphan[j] => lock[j] = r

IInv == JobTypeOK /\ Owned

LEMMA InitIInv == JobInit => IInv
  BY SchedulerAssumption DEF JobInit, IInv, JobTypeOK, Owned, Phase

\* What one step does to the job it is about and, for every other job, leaves alone.
LEMMA StepFrame ==
  ASSUME JobTypeOK, NEW r \in Replica, NEW j \in Job,
         \/ Step(r, j) \/ JobFails(r, j) \/ Disconnect(r, j)
         \/ OrphanEnds(r, j) \/ RecordLost(r, j)
  PROVE  /\ JobTypeOK'
         /\ \A i \in Job \ {j} : /\ row'[i] = row[i] /\ lock'[i] = lock[i] /\ orphan'[i] = orphan[i]
                                 /\ \A s \in Replica : phase'[s][i] = phase[s][i]
         /\ \A s \in Replica \ {r} : phase'[s][j] = phase[s][j]
<1> USE DEF JobTypeOK, Phase
<1>1. CASE Begin(r, j) BY <1>1 DEF Begin
<1>2. CASE Enter(r, j) BY <1>2 DEF Enter
<1>3. CASE Skip(r, j) BY <1>3 DEF Skip
<1>4. CASE Commit(r, j) BY <1>4 DEF Commit, Unlocked
<1>5. CASE Record(r, j) BY <1>5 DEF Record
<1>6. CASE JobFails(r, j) BY <1>6 DEF JobFails, Unlocked
<1>7. CASE Disconnect(r, j) BY <1>7 DEF Disconnect
<1>8. CASE OrphanEnds(r, j) BY <1>8 DEF OrphanEnds, Unlocked
<1>9. CASE RecordLost(r, j) BY <1>9 DEF RecordLost
<1> QED BY <1>1, <1>2, <1>3, <1>4, <1>5, <1>6, <1>7, <1>8, <1>9 DEF Step

\* The conjuncts of Owned about the job the step is about.
OwnedJob(j) ==
  \A r \in Replica :
    /\ phase[r][j] # "waiting" => row[j] = r
    /\ j \in Exclusive =>
         /\ phase[r][j] = "running" => lock[j] = r /\ orphan[j] = {}
         /\ r \in orphan[j] => lock[j] = r

LEMMA StepOwnedJob ==
  ASSUME JobTypeOK, NEW r \in Replica, NEW j \in Job, OwnedJob(j),
         \/ Step(r, j) \/ JobFails(r, j) \/ Disconnect(r, j)
         \/ OrphanEnds(r, j) \/ RecordLost(r, j)
  PROVE  OwnedJob(j)'
<1> USE SchedulerAssumption DEF JobTypeOK, Phase, OwnedJob
<1>1. CASE Begin(r, j) BY <1>1 DEF Begin
<1>2. CASE Enter(r, j) BY <1>2 DEF Enter
<1>3. CASE Skip(r, j) BY <1>3 DEF Skip
<1>4. CASE Commit(r, j) BY <1>4 DEF Commit, Unlocked
<1>5. CASE Record(r, j) BY <1>5 DEF Record
<1>6. CASE JobFails(r, j) BY <1>6 DEF JobFails, Unlocked
<1>7. CASE Disconnect(r, j) BY <1>7 DEF Disconnect
<1>8. CASE OrphanEnds(r, j) BY <1>8 DEF OrphanEnds, Unlocked
<1>9. CASE RecordLost(r, j) BY <1>9 DEF RecordLost
<1> QED BY <1>1, <1>2, <1>3, <1>4, <1>5, <1>6, <1>7, <1>8, <1>9 DEF Step

LEMMA KillIInv == ASSUME IInv, NEW r \in Replica, Kill(r) PROVE IInv'
<1>1. JobTypeOK' BY DEF Kill, IInv, JobTypeOK, Phase
<1>2. \A j \in Job : orphan'[j] = (IF phase[r][j] = "running" THEN orphan[j] \cup {r} ELSE orphan[j])
  BY DEF Kill
<1>3. \A j \in Job : phase'[r][j] = "waiting" BY DEF Kill, IInv, JobTypeOK
<1>4. \A s \in Replica \ {r}, j \in Job : phase'[s][j] = phase[s][j] BY DEF Kill, IInv, JobTypeOK
<1>5. row' = row /\ lock' = lock BY DEF Kill
<1>6. ASSUME NEW j \in Job, NEW s \in Replica
      PROVE  /\ phase'[s][j] # "waiting" => row'[j] = s
             /\ j \in Exclusive =>
                  /\ phase'[s][j] = "running" => lock'[j] = s /\ orphan'[j] = {}
                  /\ s \in orphan'[j] => lock'[j] = s
  <2>1. phase[r][j] = "running" /\ s # r => phase[s][j] = "waiting"
    BY DEF IInv, Owned
  <2>2. OwnedJob(j) BY DEF IInv, Owned, OwnedJob
  <2>3. phase'[s][j] # "waiting" => s # r /\ phase'[s][j] = phase[s][j] BY <1>3, <1>4
  <2>4. s \in orphan'[j] => s \in orphan[j] \/ (s = r /\ phase[r][j] = "running") BY <1>2
  <2>5. phase'[s][j] = "running" => orphan'[j] = orphan[j] BY <1>2, <2>1, <2>3
  <2> QED BY <1>5, <2>2, <2>3, <2>4, <2>5 DEF OwnedJob
<1> QED BY <1>1, <1>6 DEF IInv, Owned

LEMMA NextIInv == IInv /\ [JobNext]_jobVars => IInv'
<1> SUFFICES ASSUME IInv, [JobNext]_jobVars PROVE IInv'
  OBVIOUS
<1>1. ASSUME NEW r \in Replica, NEW j \in Job,
             \/ Step(r, j) \/ JobFails(r, j) \/ Disconnect(r, j)
             \/ OrphanEnds(r, j) \/ RecordLost(r, j)
      PROVE  IInv'
  <2>1. JobTypeOK' BY <1>1, StepFrame DEF IInv
  <2>2. OwnedJob(j)' BY <1>1, StepOwnedJob DEF IInv, Owned, OwnedJob
  <2>3. \A i \in Job \ {j} : OwnedJob(i)'
    <3> TAKE i \in Job \ {j}
    <3>1. OwnedJob(i) BY DEF IInv, Owned, OwnedJob
    <3>2. /\ row'[i] = row[i] /\ lock'[i] = lock[i] /\ orphan'[i] = orphan[i]
          /\ \A s \in Replica : phase'[s][i] = phase[s][i]
      BY <1>1, StepFrame DEF IInv
    <3> QED BY <3>1, <3>2 DEF OwnedJob
  <2> QED BY <2>1, <2>2, <2>3 DEF IInv, Owned, OwnedJob
<1>2. CASE UNCHANGED jobVars BY <1>2 DEF jobVars, IInv, JobTypeOK, Owned
<1> QED BY <1>1, <1>2, KillIInv DEF JobNext

LEMMA IInvOneRun == IInv => OneRunAtATime
  BY SchedulerAssumption DEF IInv, Owned, OneRunAtATime, JobTypeOK

\* A job never runs on two replicas at once, nor beside an orphaned transaction of its own when
\* it is exclusive, whatever is killed, lost or disconnected.
THEOREM OneRun == JobSpec => []OneRunAtATime
<1>1. JobInit => IInv BY InitIInv
<1>2. IInv /\ [JobNext]_jobVars => IInv' BY NextIInv
<1>3. IInv => OneRunAtATime BY IInvOneRun
<1> QED BY <1>1, <1>2, <1>3, PTL DEF JobSpec

-----------------------------------------------------------------------------
(* The service *)

LEMMA ServiceStep == [ServiceNext]_serviceVars => [Next]_vars
<1> SUFFICES ASSUME [ServiceNext]_serviceVars PROVE [Next]_vars
  OBVIOUS
<1>1. CASE Dispatching BY <1>1 DEF Dispatching, Next
<1>2. CASE Scheduling /\ UNCHANGED vars BY <1>2
<1>3. ASSUME NEW r \in Replica, NEW j \in Job, RunJob(r, j) PROVE [Next]_vars
  BY <1>3 DEF RunJob, Next
<1>4. ASSUME NEW r \in Replica, KillWorker(r) PROVE [Next]_vars
  BY <1>4, WorkerAssumption DEF KillWorker, Next
<1>5. CASE UNCHANGED serviceVars BY <1>5 DEF serviceVars
<1> QED BY <1>1, <1>2, <1>3, <1>4, <1>5 DEF ServiceNext

\* What the worker service does to the outbox, its killed processes and its job included, is
\* what Outbox allows.
THEOREM ServiceDispatches == ServiceSpec => Spec
<1>1. ServiceInit => Init BY DEF ServiceInit
<1> QED BY <1>1, ServiceStep, PTL DEF ServiceSpec, Spec

\* So what is proved of Outbox holds of the service: effects happen once, what is published has
\* been consumed, and attempts are accounted for by failures, of whichever half.
THEOREM ServiceDelivers ==
  ServiceSpec => [](EffectOnce /\ PublishedIsConsumed /\ AttemptsAccounted)
BY ServiceDispatches, EffectsOnce, PublishedMeansConsumed, AttemptsAreAccounted, PTL

LEMMA ServiceJobStep == [ServiceNext]_serviceVars => [JobNext]_jobVars
<1> SUFFICES ASSUME [ServiceNext]_serviceVars PROVE [JobNext]_jobVars
  OBVIOUS
<1>1. CASE Dispatching /\ UNCHANGED jobVars BY <1>1
<1>2. CASE Scheduling BY <1>2 DEF Scheduling, JobStep, JobNext, Step
<1>3. ASSUME NEW r \in Replica, NEW j \in Job, RunJob(r, j) PROVE [JobNext]_jobVars
  BY <1>3 DEF RunJob, JobNext, Step
<1>4. ASSUME NEW r \in Replica, KillWorker(r) PROVE [JobNext]_jobVars
  BY <1>4 DEF KillWorker, JobNext
<1>5. CASE UNCHANGED serviceVars BY <1>5 DEF serviceVars
<1> QED BY <1>1, <1>2, <1>3, <1>4, <1>5 DEF ServiceNext

\* The worker service runs jobs as JobScheduler says, whatever its dispatchers do meanwhile, so
\* no job of it runs twice at once.
THEOREM ServiceSchedules == ServiceSpec => JobSpec /\ []OneRunAtATime
<1>1. ServiceInit => JobInit BY DEF ServiceInit
<1>2. ServiceSpec => JobSpec BY <1>1, ServiceJobStep, PTL DEF ServiceSpec, JobSpec
<1> QED BY <1>2, OneRun
=============================================================================
