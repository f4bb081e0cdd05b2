---------------------------- MODULE WorkerService ----------------------------
(***************************************************************************)
(* The worker service (main.ts): each process drains the outbox and, when  *)
(* it is told to, runs the scheduled jobs.  Outbox says what a dispatcher  *)
(* does and JobScheduler how a job is run; here the job that recovers      *)
(* events requeues them when its transaction commits, and a process that   *)
(* is killed takes both halves with it.                                    *)
(*                                                                         *)
(* Outbox alone requeues what is stuck as long as the job runs.  Whether   *)
(* it does is up to the scheduler, which other failures can stop.          *)
(***************************************************************************)
EXTENDS Outbox, JobScheduler

CONSTANT RequeueJob  \* platform.outbox-requeue-stuck

ASSUME WorkerAssumption == RequeueJob \in Exclusive /\ Replica \subseteq Worker

serviceVars == <<vars, jobVars>>

\* Mutant: the rows are put back when the run is recorded, by which time it may be lost.
MutRunJob(r, j) == Commit(r, j) /\ UNCHANGED vars

\* A job's transaction commits; of those that run, one works on the outbox.
RunJob(r, j) ==
  /\ Commit(r, j)
  /\ IF j = RequeueJob /\ \E e \in Event : Stuck(e) THEN Requeue ELSE UNCHANGED vars

\* A process is killed while it runs a job: the batch it was at is dropped as well.
KillWorker(r) ==
  /\ Kill(r)
  /\ IF worker[r].batch # {} THEN Abandon(r) ELSE UNCHANGED vars

\* What a dispatcher, the clock and the failures do to the outbox, and nothing to the jobs.
Dispatching ==
  \/ \E e \in Event : Emit(e) \/ BackoffEnds(e) \/ LockExpires(e) \/ WorkerStalls(e)
  \/ \E w \in Worker :
       \/ WorkerStep(w)
       \/ \E c \in Consumer : ConsumerThrows(w, c)
       \/ Abandon(w)

JobStep(r, j) == Enter(r, j) \/ Skip(r, j) \/ Record(r, j)

\* What happens to a job apart from the commit of its transaction.
Scheduling ==
  \E r \in Replica, j \in Job :
    \/ Begin(r, j) \/ JobStep(r, j)
    \/ JobFails(r, j) \/ Disconnect(r, j) \/ OrphanEnds(r, j) \/ RecordLost(r, j)

ServiceInit == Init /\ JobInit

ServiceNext ==
  \/ Dispatching /\ UNCHANGED jobVars
  \/ Scheduling /\ UNCHANGED vars
  \/ \E r \in Replica, j \in Job : RunJob(r, j)
  \/ \E r \in Replica : KillWorker(r)

ServiceSpec == ServiceInit /\ [][ServiceNext]_serviceVars

\* The fairness of both halves.  That the requeue job runs is not assumed.
ServiceFairness ==
  /\ \A w \in Worker : WF_serviceVars(WorkerStep(w) /\ UNCHANGED jobVars)
  /\ \A e \in Event : /\ WF_serviceVars(BackoffEnds(e) /\ UNCHANGED jobVars)
                      /\ WF_serviceVars(LockExpires(e) /\ UNCHANGED jobVars)
  /\ \A j \in Job :
       /\ \A r \in Replica :
            /\ WF_serviceVars(RunJob(r, j) \/ (JobStep(r, j) /\ UNCHANGED vars))
            /\ WF_serviceVars(OrphanEnds(r, j) /\ UNCHANGED vars)
       /\ WF_serviceVars((\E r \in Replica : Begin(r, j)) /\ UNCHANGED vars)

FairServiceSpec == ServiceSpec /\ ServiceFairness

-----------------------------------------------------------------------------
\* Every event ends up published or in the dead letter, and stays there, whatever process
\* dies at it, stalls or fails and whatever becomes of the runs of the job that recovers it,
\* as long as no run's end is lost (dispatcher.ts, scheduler.ts, requeue_stuck_outbox_events).
SettledUnlessLost == EventuallySettled \/ <>(kills < MaxKills)
=============================================================================
