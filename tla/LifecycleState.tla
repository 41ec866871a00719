---------------------------- MODULE LifecycleState ----------------------------
(***************************************************************************)
(* The state the API, the queue and the worker share while a workflow is   *)
(* run: the rows of PostgreSQL, the jobs of BullMQ, and what each process  *)
(* is in the middle of.  One workflow is modelled: every row and every job *)
(* below belongs to it, so "where workflowId = ..." is every row.          *)
(***************************************************************************)
EXTENDS Naturals, FiniteSets, ExecutionStates

CONSTANTS
  Executions,      \* ids of execution rows
  OneShots,        \* ids of schedules with an instant (runAt)
  Recurrings,      \* ids of schedules with a recurrence (cron)
  Requests,        \* the HTTP requests users make, each handled once
  Operations,      \* what those requests may be: a subset of AllOperations
  Steps,           \* the number of enabled steps of the workflow
  MaxOccurrences,  \* bound: how often recurrences come due
  MaxCrashes,      \* bound: how often the worker or the API process dies
  MaxFaults,       \* bound: how often a process dies or a schedule is disowned
  None             \* no row, no schedule, no job

AllOperations == {"run", "cancel", "schedule", "delete"}

Schedules == OneShots \cup Recurrings

ASSUME ConstantsAssumption ==
  /\ OneShots \cap Recurrings = {}
  /\ Executions \cap Schedules = {}
  /\ None \notin Executions \cup Schedules
  /\ Operations \subseteq AllOperations
  /\ Steps \in Nat \ {0}
  /\ MaxOccurrences \in Nat
  /\ MaxCrashes \in Nat
  /\ MaxFaults \in Nat

VARIABLES
  \* PostgreSQL: executions
  status,      \* status of each execution row, "absent" before it exists
  scheduleId,  \* the schedule an execution belongs to, or None
  reason,      \* errorMessage, reduced to who wrote it
  notices,     \* the notifications sent about each execution
  \* PostgreSQL: schedules
  schedule,    \* status of each schedule row, "absent" before it exists
  queueJobId,  \* the job a schedule row points at
  clock,       \* where now is relative to runAt of each one-shot schedule
  \* Redis (BullMQ)
  job,         \* the job whose id is an execution's
  scheduler,   \* is the job scheduler of a recurring schedule registered?
  occurrence,  \* the next job of that scheduler
  fired,       \* how many occurrences have come due so far
  \* the worker process
  run,         \* the job being processed and where runExecution is in it
  browser,     \* the browser session named after that execution
  boot,        \* the reconciliation the worker does at startup
  \* the API process
  req,         \* where each request handler is
  \* history
  acted,       \* how many steps of an execution were performed on the site
  overran,     \* how many of them began while its row was cancelled
  stopped,     \* schedules whose DELETE was answered 200
  overwritten, \* executions whose cancellation the run has written over
  disowned,    \* what the queue holds for schedules that were refused
  crashes      \* how many processes have died so far

executionVars == <<status, scheduleId, reason, notices>>
scheduleVars  == <<schedule, queueJobId>>
queueVars     == <<job, scheduler, occurrence, fired>>
workerVars    == <<run, browser>>
historyVars   == <<acted, overran, stopped, overwritten, disowned, crashes>>

vars == <<status, scheduleId, reason, notices, schedule, queueJobId, clock,
          job, scheduler, occurrence, fired, run, browser, boot, req,
          acted, overran, stopped, overwritten, disowned, crashes>>

(***************************************************************************)
(* Types.                                                                  *)
(***************************************************************************)
RunPcs == {"down", "idle", "occurrence", "createRow", "load", "starting",
           "claim", "preflight", "open", "opening", "running", "check", "step",
           "failed", "last", "aborted", "finish", "write", "notify", "settle",
           "close"}

(* Where the outcome of a run was decided. *)
Origins == {"none", "preflight", "step", "success", "catch"}

RunState ==
  [pc : RunPcs, exec : Executions \cup {None}, sched : Schedules \cup {None},
   step : 1..Steps, decided : BOOLEAN, cause : {"none", "own", "closed"},
   from : Origins, write : {"full", "reason-only", "nothing"}]

NoRun == [pc |-> "idle", exec |-> None, sched |-> None, step |-> 1,
          decided |-> FALSE, cause |-> "none", from |-> "none",
          write |-> "nothing"]

RequestPcs ==
  {"new", "done",
   "run.create", "run.enqueue", "run.failed",
   "cancel.write", "cancel.job", "cancel.remove", "cancel.close",
   "cancel.schedule",
   "schedule.reserve", "schedule.enqueue", "schedule.upsert", "schedule.link",
   "schedule.failed", "schedule.rowFailed",
   "delete.job", "delete.remove", "delete.scheduler", "delete.pending",
   "delete.write", "delete.rows"}

RequestState == [pc : RequestPcs, exec : Executions \cup {None},
                 sched : Schedules \cup {None}, stops : SUBSET Schedules]

NewRequest == [pc |-> "new", exec |-> None, sched |-> None, stops |-> {}]

JobStates == {"none", "delayed", "waiting", "active", "completed", "failed",
              "removed"}

BootPcs == {"off", "readOrphans", "failOrphans", "failMissed", "failRows"}

BootState == [pc : BootPcs, orphans : SUBSET Executions,
              missed : SUBSET OneShots, sched : OneShots \cup {None}]

NoBoot == [pc |-> "off", orphans |-> {}, missed |-> {}, sched |-> None]

NOTIFICATION_TYPES ==
  {"workflow_completed", "workflow_failed", "schedule_started",
   "schedule_missed"}

TypeOK ==
  /\ status \in [Executions -> EXECUTION_STATES \cup {"absent"}]
  /\ scheduleId \in [Executions -> Schedules \cup {None}]
  /\ reason \in [Executions -> {"none", "error", "user", "rescued"}]
  /\ notices \in [Executions -> SUBSET NOTIFICATION_TYPES]
  /\ schedule \in [Schedules -> SCHEDULE_STATES \cup {"absent"}]
  /\ queueJobId \in [Schedules -> Executions \cup Recurrings \cup {None}]
  /\ \A s \in OneShots : queueJobId[s] \in Executions \cup {None}
  /\ clock \in [OneShots -> {"future", "due", "late"}]
  /\ job \in [Executions -> JobStates]
  /\ scheduler \in [Recurrings -> BOOLEAN]
  /\ occurrence \in [Recurrings -> {"none", "delayed", "waiting"}]
  /\ fired \in Nat
  /\ run \in RunState
  /\ browser \in {"none", "creating", "open", "closed", "unlisted"}
  /\ boot \in BootState
  /\ req \in [Requests -> RequestState]
  /\ acted \in [Executions -> Nat]
  /\ overran \in [Executions -> Nat]
  /\ stopped \subseteq Schedules
  /\ overwritten \subseteq Executions
  /\ disowned \subseteq Executions \cup Recurrings \cup {None}
  /\ crashes \in Nat

(* The bound on what goes wrong: a death, or a link that is not written. *)
FaultsLeft == crashes + Cardinality(disowned) < MaxFaults

(***************************************************************************)
(* Queries several handlers share.                                         *)
(***************************************************************************)

(* prisma generates an id no row has. *)
Fresh == {e \in Executions : status[e] = "absent"}

(* execution.findFirst({ status: { in: [queued, starting, running] } }) *)
InFlight == {e \in Executions : status[e] \in InFlightStates}

(* A queued row whose one-shot schedule has not come due is a reservation. *)
Reservation(e) ==
  /\ status[e] = "queued"
  /\ scheduleId[e] \in OneShots
  /\ clock[scheduleId[e]] = "future"

(* execution.updateMany({ scheduleId: s, status: "queued" }) *)
QueuedOf(s) == {e \in Executions : scheduleId[e] = s /\ status[e] = "queued"}

SetStatus(es, st) ==
  status' = [e \in Executions |-> IF e \in es THEN st ELSE status[e]]

SetReason(es, why) ==
  reason' = [e \in Executions |-> IF e \in es THEN why ELSE reason[e]]

Notify(es, type) ==
  notices' = [e \in Executions |->
                IF e \in es THEN notices[e] \cup {type} ELSE notices[e]]
=============================================================================
