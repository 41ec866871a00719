----------------------------- MODULE ExecutionApi -----------------------------
(***************************************************************************)
(* The request handlers that start, schedule, cancel and unschedule runs:  *)
(* apps/api/src/routes/executions.ts and schedules.ts.                     *)
(*                                                                         *)
(* Every await of a handler is a point where another handler, the queue or *)
(* the worker can run, so a handler is a sequence of actions with a        *)
(* program counter.  What a request refuses without changing anything is   *)
(* not an action: it is the guard of the action it would have taken.       *)
(***************************************************************************)
EXTENDS ExecutionQueue

Goto(r, pc) == req' = [req EXCEPT ![r].pc = pc]

At(r, pc) == req[r].pc = pc

Begins(r, operation) == At(r, "new") /\ operation \in Operations

(***************************************************************************)
(* POST /workflows/:id/executions                                          *)
(***************************************************************************)

(* The in-flight check of a manual run: a reservation does not count. *)
RunCheck(r) ==
  /\ Begins(r, "run")
  /\ \A e \in InFlight : Reservation(e)
  /\ Goto(r, "run.create")
  /\ UNCHANGED <<executionVars, scheduleVars, clock, queueVars, workerVars,
                 boot, historyVars>>

RunCreate(r) ==
  /\ At(r, "run.create")
  /\ \E e \in Fresh :
       /\ SetStatus({e}, "queued")
       /\ req' = [req EXCEPT ![r].pc = "run.enqueue", ![r].exec = e]
  /\ UNCHANGED <<scheduleId, reason, notices, scheduleVars, clock, queueVars,
                 workerVars, boot, historyVars>>

(* An enqueue that is tried again after it went through. *)
RunEnqueueRetried(r) ==
  /\ At(r, "run.enqueue")
  /\ enqueueNow(req[r].exec)
  /\ UNCHANGED req
  /\ UNCHANGED <<executionVars, scheduleVars, clock, scheduler, occurrence,
                 fired, workerVars, boot, historyVars>>

RunEnqueue(r) ==
  /\ At(r, "run.enqueue")
  /\ \/ enqueueNow(req[r].exec) /\ Goto(r, "done")
     \/ Goto(r, "run.failed") /\ UNCHANGED job
  /\ UNCHANGED <<executionVars, scheduleVars, clock, scheduler, occurrence,
                 fired, workerVars, boot, historyVars>>

(* The handler as it was when the row of a failed enqueue was left alone. *)
RunEnqueueFailedIgnored(r) ==
  /\ At(r, "run.failed")
  /\ Goto(r, "done")
  /\ UNCHANGED <<executionVars, scheduleVars, clock, queueVars, workerVars,
                 boot, historyVars>>

(* The row exists and no job does: it is closed. *)
RunEnqueueFailed(r) ==
  /\ At(r, "run.failed")
  /\ SetStatus({req[r].exec}, "failed")
  /\ SetReason({req[r].exec}, "error")
  /\ Goto(r, "done")
  /\ UNCHANGED <<scheduleId, notices, scheduleVars, clock, queueVars,
                 workerVars, boot, historyVars>>

(***************************************************************************)
(* POST /executions/:id/cancel                                             *)
(***************************************************************************)

CancelRead(r, e) ==
  /\ Begins(r, "cancel")
  /\ status[e] \in EXECUTION_STATES \ TerminalExecution
  /\ req' = [req EXCEPT ![r].pc = "cancel.write", ![r].exec = e,
                        ![r].sched = scheduleId[e]]
  /\ UNCHANGED <<executionVars, scheduleVars, clock, queueVars, workerVars,
                 boot, historyVars>>

CancelWrite(r) ==
  /\ At(r, "cancel.write")
  /\ SetStatus({req[r].exec}, "cancelled")
  /\ SetReason({req[r].exec}, "user")
  /\ Goto(r, "cancel.job")
  /\ UNCHANGED <<scheduleId, notices, scheduleVars, clock, queueVars,
                 workerVars, boot, historyVars>>

CancelJob(r) ==
  /\ At(r, "cancel.job")
  /\ Goto(r, IF CancellableJob(req[r].exec) THEN "cancel.remove"
             ELSE "cancel.close")
  /\ UNCHANGED <<executionVars, scheduleVars, clock, queueVars, workerVars,
                 boot, historyVars>>

(* A job that cannot be removed any more is logged and left. *)
CancelRemove(r) ==
  /\ At(r, "cancel.remove")
  /\ IF RemovableJob(req[r].exec) THEN removeJob(req[r].exec)
     ELSE UNCHANGED job
  /\ Goto(r, "cancel.close")
  /\ UNCHANGED <<executionVars, scheduleVars, clock, scheduler, occurrence,
                 fired, workerVars, boot, historyVars>>

(* worker.closeSession: the call can be lost, and an execution without a
   session in the manager is a 404.  Both are swallowed. *)
CancelClose(r) ==
  /\ At(r, "cancel.close")
  /\ \/ /\ run.exec = req[r].exec
        /\ browser \in {"creating", "open"}
        /\ browser' = "closed"
     \/ UNCHANGED browser
  /\ Goto(r, IF req[r].sched = None THEN "done" ELSE "cancel.schedule")
  /\ UNCHANGED <<executionVars, scheduleVars, clock, queueVars, run, boot,
                 historyVars>>

CancelSchedule(r) ==
  /\ At(r, "cancel.schedule")
  /\ schedule' = [schedule EXCEPT ![req[r].sched] =
                    IF @ \in {"scheduled", "queued"} THEN "cancelled" ELSE @]
  /\ Goto(r, "done")
  /\ UNCHANGED <<executionVars, queueJobId, clock, queueVars, workerVars, boot,
                 historyVars>>

(***************************************************************************)
(* POST /workflows/:id/schedules                                           *)
(***************************************************************************)

ScheduleCreate(r, s) ==
  /\ Begins(r, "schedule")
  /\ schedule[s] = "absent"
  /\ schedule' = [schedule EXCEPT ![s] = "scheduled"]
  /\ req' = [req EXCEPT ![r].sched = s,
                        ![r].pc = IF s \in OneShots THEN "schedule.reserve"
                                  ELSE "schedule.upsert"]
  /\ UNCHANGED <<executionVars, queueJobId, clock, queueVars, workerVars, boot,
                 historyVars>>

(* A one-shot schedule reserves its execution row. *)
ScheduleReserve(r) ==
  /\ At(r, "schedule.reserve")
  /\ \E e \in Fresh :
       /\ SetStatus({e}, "queued")
       /\ scheduleId' = [scheduleId EXCEPT ![e] = req[r].sched]
       /\ req' = [req EXCEPT ![r].pc = "schedule.enqueue", ![r].exec = e]
  /\ UNCHANGED <<reason, notices, scheduleVars, clock, queueVars, workerVars,
                 boot, historyVars>>

ScheduleEnqueue(r) ==
  /\ At(r, "schedule.enqueue")
  /\ \/ enqueueDelayed(req[r].exec) /\ Goto(r, "schedule.link")
     \/ Goto(r, "schedule.failed") /\ UNCHANGED job
  /\ UNCHANGED <<executionVars, scheduleVars, clock, scheduler, occurrence,
                 fired, workerVars, boot, historyVars>>

ScheduleUpsert(r) ==
  /\ At(r, "schedule.upsert")
  /\ \/ upsertRecurring(req[r].sched) /\ Goto(r, "schedule.link")
     \/ Goto(r, "schedule.failed") /\ UNCHANGED <<scheduler, occurrence>>
  /\ UNCHANGED <<executionVars, scheduleVars, clock, job, fired, workerVars,
                 boot, historyVars>>

(* What the queue calls what it holds for a schedule: a one-shot's job has the
   id of the row, a recurrence's scheduler the id of the schedule. *)
QueueId(r) == IF req[r].sched \in OneShots THEN req[r].exec ELSE req[r].sched

PointsAt(r, id) == queueJobId' = [queueJobId EXCEPT ![req[r].sched] = id]

(* The link cannot be written, or the next run of a recurrence not be asked
   for: the handler treats what it has enqueued as if it had not. *)
LinkFails(r) ==
  /\ FaultsLeft
  /\ Goto(r, "schedule.failed")
  /\ disowned' = disowned \cup {QueueId(r)}
  /\ UNCHANGED <<acted, overran, stopped, overwritten, crashes>>

(* The schedule's own id taken for the job's, as a recurrence has it. *)
ScheduleLinkOwnId(r) ==
  /\ At(r, "schedule.link")
  /\ \/ PointsAt(r, req[r].sched) /\ Goto(r, "done") /\ UNCHANGED historyVars
     \/ LinkFails(r) /\ UNCHANGED queueJobId
  /\ UNCHANGED <<executionVars, schedule, clock, queueVars, workerVars, boot>>

ScheduleLink(r) ==
  /\ At(r, "schedule.link")
  /\ \/ PointsAt(r, QueueId(r)) /\ Goto(r, "done") /\ UNCHANGED historyVars
     \/ LinkFails(r) /\ UNCHANGED queueJobId
     \/ LinkFails(r) /\ req[r].sched \in Recurrings /\ PointsAt(r, QueueId(r))
  /\ UNCHANGED <<executionVars, schedule, clock, queueVars, workerVars, boot>>

ScheduleFailed(r) ==
  /\ At(r, "schedule.failed")
  /\ schedule' = [schedule EXCEPT ![req[r].sched] = "failed"]
  /\ Goto(r, IF req[r].sched \in OneShots THEN "schedule.rowFailed"
             ELSE "done")
  /\ UNCHANGED <<executionVars, queueJobId, clock, queueVars, workerVars, boot,
                 historyVars>>

ScheduleRowFailed(r) ==
  /\ At(r, "schedule.rowFailed")
  /\ SetStatus({req[r].exec}, "failed")
  /\ SetReason({req[r].exec}, "error")
  /\ Goto(r, "done")
  /\ UNCHANGED <<scheduleId, notices, scheduleVars, clock, queueVars,
                 workerVars, boot, historyVars>>

(***************************************************************************)
(* DELETE /schedules/:id                                                   *)
(***************************************************************************)

DeleteRead(r, s) ==
  /\ Begins(r, "delete")
  /\ schedule[s] = "scheduled"
  /\ req' = [req EXCEPT
       ![r].sched = s,
       ![r].stops = IF queueJobId[s] # None THEN {s} ELSE {},
       ![r].exec = IF s \in OneShots THEN queueJobId[s] ELSE None,
       ![r].pc = CASE s \in Recurrings                          -> "delete.scheduler"
                   [] s \in OneShots /\ queueJobId[s] # None -> "delete.job"
                   [] s \in OneShots /\ queueJobId[s] = None -> "delete.write"]
  /\ UNCHANGED <<executionVars, scheduleVars, clock, queueVars, workerVars,
                 boot, historyVars>>

(* "The scheduled job already started": a 409, and nothing is written. *)
DeleteJob(r) ==
  /\ At(r, "delete.job")
  /\ Goto(r, IF CancellableJob(req[r].exec) THEN "delete.remove" ELSE "done")
  /\ UNCHANGED <<executionVars, scheduleVars, clock, queueVars, workerVars,
                 boot, historyVars>>

(* The handler as it would be if the answer of the queue were not asked for. *)
DeleteRemoveIgnored(r) ==
  /\ At(r, "delete.remove")
  /\ IF RemovableJob(req[r].exec) THEN removeJob(req[r].exec)
     ELSE UNCHANGED job
  /\ Goto(r, "delete.write")
  /\ UNCHANGED <<executionVars, scheduleVars, clock, scheduler, occurrence,
                 fired, workerVars, boot, historyVars>>

(* A locked job makes the handler throw before it writes anything. *)
DeleteRemove(r) ==
  /\ At(r, "delete.remove")
  /\ IF RemovableJob(req[r].exec)
     THEN removeJob(req[r].exec) /\ Goto(r, "delete.write")
     ELSE UNCHANGED job /\ Goto(r, "done")
  /\ UNCHANGED <<executionVars, scheduleVars, clock, scheduler, occurrence,
                 fired, workerVars, boot, historyVars>>

DeleteScheduler(r) ==
  /\ At(r, "delete.scheduler")
  /\ removeJobScheduler(req[r].sched)
  /\ Goto(r, "delete.pending")
  /\ UNCHANGED <<executionVars, scheduleVars, clock, job, occurrence, fired,
                 workerVars, boot, historyVars>>

DeletePending(r) ==
  /\ At(r, "delete.pending")
  /\ removePending(req[r].sched)
  /\ Goto(r, "delete.write")
  /\ UNCHANGED <<executionVars, scheduleVars, clock, job, scheduler, fired,
                 workerVars, boot, historyVars>>

DeleteWrite(r) ==
  /\ At(r, "delete.write")
  /\ schedule' = [schedule EXCEPT ![req[r].sched] = "cancelled"]
  /\ Goto(r, "delete.rows")
  /\ UNCHANGED <<executionVars, queueJobId, clock, queueVars, workerVars, boot,
                 historyVars>>

(* `stopped` remembers the schedules a user was told are stopped, when the
   request that created them had been answered. *)
DeleteRows(r) ==
  /\ At(r, "delete.rows")
  /\ SetStatus(QueuedOf(req[r].sched), "cancelled")
  /\ stopped' = stopped \cup req[r].stops
  /\ Goto(r, "done")
  /\ UNCHANGED <<scheduleId, reason, notices, scheduleVars, clock, queueVars,
                 workerVars, boot, acted, overran, overwritten, disowned,
                 crashes>>

(***************************************************************************)
(* The API process dies: no handler goes on.                               *)
(***************************************************************************)
ApiCrash ==
  /\ crashes < MaxCrashes /\ FaultsLeft
  /\ \E r \in Requests : req[r].pc \notin {"new", "done"}
  /\ crashes' = crashes + 1
  /\ req' = [r \in Requests |->
               IF At(r, "new") THEN req[r] ELSE [req[r] EXCEPT !.pc = "done"]]
  /\ UNCHANGED <<executionVars, scheduleVars, clock, queueVars, workerVars,
                 boot, acted, overran, stopped, overwritten, disowned>>

(* A handler that has begun. *)
Continues(r) ==
  \/ RunCreate(r) \/ RunEnqueue(r) \/ RunEnqueueFailed(r)
  \/ CancelWrite(r) \/ CancelJob(r) \/ CancelRemove(r) \/ CancelClose(r)
  \/ CancelSchedule(r)
  \/ ScheduleReserve(r) \/ ScheduleEnqueue(r) \/ ScheduleUpsert(r)
  \/ ScheduleLink(r) \/ ScheduleFailed(r) \/ ScheduleRowFailed(r)
  \/ DeleteJob(r) \/ DeleteRemove(r) \/ DeleteScheduler(r) \/ DeletePending(r)
  \/ DeleteWrite(r) \/ DeleteRows(r)

(* A user asks for something. *)
Starts(r) ==
  \/ RunCheck(r)
  \/ \E e \in Executions : CancelRead(r, e)
  \/ \E s \in Schedules : ScheduleCreate(r, s) \/ DeleteRead(r, s)

ApiNext == ApiCrash \/ \E r \in Requests : Starts(r) \/ Continues(r)
=============================================================================
