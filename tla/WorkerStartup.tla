---------------------------- MODULE WorkerStartup ----------------------------
(***************************************************************************)
(* The worker process dies and comes back: main() of                       *)
(* apps/worker/src/index.ts and the two reconciliations it starts, which   *)
(* live in queue-consumer.ts.  The consumer is started first, so jobs are  *)
(* taken while the reconciliations are still reading and writing rows.     *)
(***************************************************************************)
EXTENDS LifecycleState

(* The process dies in the middle of anything.  Its browser goes with it; the
   job it held stays active in Redis until the stalled check. *)
WorkerCrash ==
  /\ run.pc # "down"
  /\ crashes < MaxCrashes /\ FaultsLeft
  /\ crashes' = crashes + 1
  /\ run' = [NoRun EXCEPT !.pc = "down"]
  /\ browser' = "none"
  /\ boot' = NoBoot
  /\ UNCHANGED <<executionVars, scheduleVars, clock, queueVars, req, acted,
                 overran, stopped, overwritten, disowned>>

WorkerStart ==
  /\ run.pc = "down"
  /\ run' = NoRun
  /\ boot' = [NoBoot EXCEPT !.pc = "readOrphans"]
  /\ UNCHANGED <<executionVars, scheduleVars, clock, queueVars, browser, req,
                 historyVars>>

BootOnly == UNCHANGED <<scheduleId, queueJobId, clock, queueVars, workerVars,
                        req, historyVars>>

(* reconcileOrphanedExecutions as it would be if only a run that got as far
   as `running` were an orphan. *)
ReadOrphansRunningOnly ==
  /\ boot.pc = "readOrphans"
  /\ boot' = [boot EXCEPT !.pc = "failOrphans",
                !.orphans = {e \in Executions : status[e] = "running"}]
  /\ BootOnly /\ UNCHANGED <<status, reason, notices, schedule>>

(* reconcileOrphanedExecutions: the list, read once. *)
ReadOrphans ==
  /\ boot.pc = "readOrphans"
  /\ boot' = [boot EXCEPT !.pc = "failOrphans",
                !.orphans = {e \in Executions :
                               status[e] \in {"starting", "running"}}]
  /\ BootOnly /\ UNCHANGED <<status, reason, notices, schedule>>

(* reconcileOrphanedExecutions: one row of the list, whatever it says now. *)
FailOrphan(e) ==
  /\ boot.pc = "failOrphans"
  /\ e \in boot.orphans
  /\ SetStatus({e}, "failed")
  /\ SetReason({e}, "error")
  /\ Notify({e}, "workflow_failed")
  /\ boot' = [boot EXCEPT !.orphans = @ \ {e}]
  /\ BootOnly /\ UNCHANGED schedule

(* reconcileMissedSchedules: the list, read once. *)
ReadMissed ==
  /\ boot.pc = "failOrphans"
  /\ boot.orphans = {}
  /\ boot' = [boot EXCEPT !.pc = "failMissed",
                !.missed = {s \in OneShots :
                              schedule[s] = "scheduled" /\ clock[s] = "late"}]
  /\ BootOnly /\ UNCHANGED <<status, reason, notices, schedule>>

(* reconcileMissedSchedules: the schedule ... *)
FailMissed(s) ==
  /\ boot.pc = "failMissed"
  /\ s \in boot.missed
  /\ schedule' = [schedule EXCEPT ![s] = "failed"]
  /\ boot' = [boot EXCEPT !.pc = "failRows", !.missed = @ \ {s}, !.sched = s]
  /\ BootOnly /\ UNCHANGED <<status, reason, notices>>

(* ... and the row it had reserved. *)
FailMissedRows ==
  /\ boot.pc = "failRows"
  /\ SetStatus(QueuedOf(boot.sched), "failed")
  /\ SetReason(QueuedOf(boot.sched), "error")
  /\ Notify({e \in Executions : scheduleId[e] = boot.sched}, "schedule_missed")
  /\ boot' = [boot EXCEPT !.pc = "failMissed", !.sched = None]
  /\ BootOnly /\ UNCHANGED schedule

BootDone ==
  /\ boot.pc = "failMissed"
  /\ boot.missed = {}
  /\ boot' = NoBoot
  /\ BootOnly /\ UNCHANGED <<status, reason, notices, schedule>>

Reconciles ==
  \/ ReadOrphans \/ ReadMissed \/ FailMissedRows \/ BootDone
  \/ \E e \in Executions : FailOrphan(e)
  \/ \E s \in OneShots : FailMissed(s)

StartupNext == WorkerCrash \/ WorkerStart \/ Reconciles
=============================================================================
