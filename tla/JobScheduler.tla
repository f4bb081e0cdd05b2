---------------------------- MODULE JobScheduler ----------------------------
(***************************************************************************)
(* The scheduled jobs of the worker service (jobs/scheduler.ts) and the    *)
(* table that records their runs (platform.scheduled_job_runs).            *)
(*                                                                         *)
(* Every replica runs every job on its own timer.  Two things keep a job   *)
(* from running twice at once: a partial unique index allows one RUNNING   *)
(* row per job, and an exclusive job takes an advisory lock that lives as  *)
(* long as its transaction.  A transaction may outlive the client that     *)
(* began it: when the connection breaks, the server goes on with the       *)
(* statement it is at.  What a job does is left to the modules that model  *)
(* it; here it commits or rolls back.                                      *)
(***************************************************************************)
EXTENDS Naturals

CONSTANTS
  Replica,    \* worker processes with WORKER_RUN_SCHEDULED_JOBS
  Job,        \* registered jobs
  Exclusive,  \* those that ask for the advisory lock
  MaxFailures,  \* bound: failures of a job's transaction
  MaxKills,   \* bound: runs whose end is never recorded (a process killed, an update lost)
  Nobody      \* no replica

ASSUME SchedulerAssumption ==
  /\ Exclusive \subseteq Job
  /\ MaxFailures \in Nat
  /\ MaxKills \in Nat
  /\ Nobody \notin Replica

Phase == {"waiting", "recorded", "running", "done"}

VARIABLES
  phase,    \* where runOnce of a replica is, for each job
  row,      \* who inserted the RUNNING row of a job
  lock,     \* who holds the advisory lock of a job
  orphan,   \* whose transaction the server is still at without its client
  failures,   \* failures left
  kills     \* kills left

jobVars == <<phase, row, lock, orphan, failures, kills>>

\* The timer fires and the RUNNING row goes in.  When another row is there the insert
\* raises, runOnce logs it and the timer is set again, which changes nothing here.
Begin(r, j) ==
  /\ phase[r][j] = "waiting"
  /\ row[j] = Nobody
  /\ row' = [row EXCEPT ![j] = r]
  /\ phase' = [phase EXCEPT ![r][j] = "recorded"]
  /\ UNCHANGED <<lock, orphan, failures, kills>>

\* Mutant: the lock is taken without looking who holds it.
MutEnter(r, j) ==
  /\ phase[r][j] = "recorded"
  /\ lock' = IF j \in Exclusive THEN [lock EXCEPT ![j] = r] ELSE lock
  /\ phase' = [phase EXCEPT ![r][j] = "running"]
  /\ UNCHANGED <<row, orphan, failures, kills>>

\* The transaction begins: an exclusive job takes the lock and runs ...
Enter(r, j) ==
  /\ phase[r][j] = "recorded"
  /\ j \in Exclusive => lock[j] = Nobody
  /\ lock' = IF j \in Exclusive THEN [lock EXCEPT ![j] = r] ELSE lock
  /\ phase' = [phase EXCEPT ![r][j] = "running"]
  /\ UNCHANGED <<row, orphan, failures, kills>>

\* Mutant: a skipped run is not recorded as finished.
MutSkip(r, j) ==
  /\ phase[r][j] = "recorded"
  /\ j \in Exclusive /\ lock[j] # Nobody
  /\ phase' = [phase EXCEPT ![r][j] = "waiting"]
  /\ UNCHANGED <<row, lock, orphan, failures, kills>>

\* ... or finds it taken and skips this run.
Skip(r, j) ==
  /\ phase[r][j] = "recorded"
  /\ j \in Exclusive /\ lock[j] # Nobody
  /\ phase' = [phase EXCEPT ![r][j] = "done"]
  /\ UNCHANGED <<row, lock, orphan, failures, kills>>

Unlocked(r, j) == IF lock[j] = r THEN [lock EXCEPT ![j] = Nobody] ELSE lock

\* The job's transaction commits.
Commit(r, j) ==
  /\ phase[r][j] = "running"
  /\ phase' = [phase EXCEPT ![r][j] = "done"]
  /\ lock' = Unlocked(r, j)
  /\ UNCHANGED <<row, orphan, failures, kills>>

\* It rolls back (a timeout, a constraint) ...
JobFails(r, j) ==
  /\ phase[r][j] = "running"
  /\ failures > 0
  /\ phase' = [phase EXCEPT ![r][j] = "done"]
  /\ lock' = Unlocked(r, j)
  /\ failures' = failures - 1
  /\ UNCHANGED <<row, orphan, kills>>

\* ... or the connection breaks: runOnce records a failure, the server goes on.
Disconnect(r, j) ==
  /\ phase[r][j] = "running"
  /\ failures > 0
  /\ phase' = [phase EXCEPT ![r][j] = "done"]
  /\ orphan' = [orphan EXCEPT ![j] = @ \cup {r}]
  /\ failures' = failures - 1
  /\ UNCHANGED <<row, lock, kills>>

\* statement_timeout ends what the server was still at.
OrphanEnds(r, j) ==
  /\ r \in orphan[j]
  /\ orphan' = [orphan EXCEPT ![j] = @ \ {r}]
  /\ lock' = Unlocked(r, j)
  /\ UNCHANGED <<phase, row, failures, kills>>

\* The row leaves RUNNING (SUCCEEDED, SKIPPED or FAILED) and the timer is set again.
Record(r, j) ==
  /\ phase[r][j] = "done"
  /\ row' = IF row[j] = r THEN [row EXCEPT ![j] = Nobody] ELSE row
  /\ phase' = [phase EXCEPT ![r][j] = "waiting"]
  /\ UNCHANGED <<lock, orphan, failures, kills>>

\* The database refuses the closing update, and the second one that would say FAILED: the
\* error is swallowed, the timer is set again and the row stays RUNNING.
RecordLost(r, j) ==
  /\ phase[r][j] = "done"
  /\ kills > 0
  /\ phase' = [phase EXCEPT ![r][j] = "waiting"]
  /\ kills' = kills - 1
  /\ UNCHANGED <<row, lock, orphan, failures>>

\* The process is killed and starts again.  Its transactions lose their client, and the
\* rows it inserted stay RUNNING.
Kill(r) ==
  /\ \E j \in Job : phase[r][j] # "waiting"
  /\ kills > 0
  /\ phase' = [phase EXCEPT ![r] = [j \in Job |-> "waiting"]]
  /\ orphan' = [j \in Job |-> IF phase[r][j] = "running" THEN orphan[j] \cup {r} ELSE orphan[j]]
  /\ kills' = kills - 1
  /\ UNCHANGED <<row, lock, failures>>

JobInit ==
  /\ phase = [r \in Replica |-> [j \in Job |-> "waiting"]]
  /\ row = [j \in Job |-> Nobody]
  /\ lock = [j \in Job |-> Nobody]
  /\ orphan = [j \in Job |-> {}]
  /\ failures = MaxFailures
  /\ kills = MaxKills

Step(r, j) == Begin(r, j) \/ Enter(r, j) \/ Skip(r, j) \/ Commit(r, j) \/ Record(r, j)

JobNext ==
  \E r \in Replica :
    \/ \E j \in Job :
         \/ Step(r, j)
         \/ JobFails(r, j) \/ Disconnect(r, j) \/ OrphanEnds(r, j) \/ RecordLost(r, j)
    \/ Kill(r)

JobSpec == JobInit /\ [][JobNext]_jobVars

\* The event loop gives every timer and every awaited query its turn; of several replicas
\* whose timers fire, some one gets its row in; the server ends every statement.
JobFairness ==
  \A j \in Job :
    /\ \A r \in Replica : WF_jobVars(Enter(r, j) \/ Skip(r, j) \/ Commit(r, j) \/ Record(r, j))
    /\ \A r \in Replica : WF_jobVars(OrphanEnds(r, j))
    /\ WF_jobVars(\E r \in Replica : Begin(r, j))

FairJobSpec == JobSpec /\ JobFairness

-----------------------------------------------------------------------------
(* Properties *)

JobTypeOK ==
  /\ phase \in [Replica -> [Job -> Phase]]
  /\ row \in [Job -> Replica \cup {Nobody}]
  /\ lock \in [Job -> Replica \cup {Nobody}]
  /\ orphan \in [Job -> SUBSET Replica]
  /\ failures \in Nat
  /\ kills \in Nat

\* No job runs on two replicas at once, whatever was killed before ("Only one run of a given
\* job may be in flight at a time"); and no exclusive job runs beside a transaction of it
\* that lost its client.
OneRunAtATime ==
  \A j \in Job, r \in Replica :
    phase[r][j] = "running" =>
      /\ \A s \in Replica \ {r} : phase[s][j] # "running"
      /\ j \in Exclusive => orphan[j] = {}

\* Every job keeps being run by some replica, through failures, lost connections and skipped
\* runs, as long as no run's end is lost.
JobsGoOn ==
  \/ \A j \in Job : []<>(\E r \in Replica : phase[r][j] = "running")
  \/ <>(kills < MaxKills)

\* What a comment claims and the code does not keep: the same whichever replicas are killed
\* ("released even if the process is killed").  The README describes how it fails.
JobsKeepRunning == \A j \in Job : []<>(\E r \in Replica : phase[r][j] = "running")
=============================================================================
