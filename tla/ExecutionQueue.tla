---------------------------- MODULE ExecutionQueue ----------------------------
(***************************************************************************)
(* apps/api/src/queue.ts and the BullMQ queue behind it.                   *)
(*                                                                         *)
(* A manual or one-shot run is a job whose id is the execution's.  A       *)
(* recurrence is a job scheduler that keeps one job ahead of itself.       *)
(* BullMQ is not part of the repository: what its delayed jobs, its job    *)
(* schedulers and its stalled check do is modelled from the way queue.ts   *)
(* and queue-consumer.ts configure and use them.                           *)
(***************************************************************************)
EXTENDS LifecycleState

(***************************************************************************)
(* The producer side: operators the API's handlers are built from.         *)
(***************************************************************************)

(* queue.add("run", data, { jobId: executionId }) *)
enqueueNow(e) == job' = [job EXCEPT ![e] = "waiting"]

(* queue.add("run", data, { jobId: executionId, delay }) *)
enqueueDelayed(e) == job' = [job EXCEPT ![e] = "delayed"]

(* queue.upsertJobScheduler(scheduleId, ...): the first occurrence is placed
   at once. *)
upsertRecurring(s) ==
  /\ scheduler' = [scheduler EXCEPT ![s] = TRUE]
  /\ occurrence' = [occurrence EXCEPT ![s] = "delayed"]

(* queue.removeJobScheduler(scheduleId) *)
removeJobScheduler(s) == scheduler' = [scheduler EXCEPT ![s] = FALSE]

(* removePending as it was before the next occurrence was taken along: a
   recurrence keeps one job ahead of itself. *)
removePendingNothing(s) == occurrence' = occurrence

(* The pending occurrences of s among getJobs(["delayed", "waiting", ...]) are
   removed. *)
removePending(s) == occurrence' = [occurrence EXCEPT ![s] = "none"]

(* cancel() gives up on a job that is gone, running or over ... *)
CancellableJob(e) == job[e] \in {"delayed", "waiting"}

(* ... and removes the others, in a second call: a job picked up in between is
   locked and cannot be removed. *)
RemovableJob(e) == job[e] # "active"

removeJob(e) == job' = [job EXCEPT ![e] = "removed"]

(***************************************************************************)
(* The queue's own clock.                                                  *)
(***************************************************************************)

(* A delayed job becomes available when its instant comes. *)
Promote(e) ==
  /\ job[e] = "delayed"
  /\ scheduleId[e] \in OneShots
  /\ clock[scheduleId[e]] # "future"
  /\ job' = [job EXCEPT ![e] = "waiting"]
  /\ UNCHANGED <<executionVars, scheduleVars, clock, scheduler, occurrence,
                 fired, workerVars, boot, req, historyVars>>

(* The occurrence a scheduler keeps ahead of itself comes due. *)
OccurrenceDue(s) ==
  /\ occurrence[s] = "delayed"
  /\ fired < MaxOccurrences
  /\ occurrence' = [occurrence EXCEPT ![s] = "waiting"]
  /\ fired' = fired + 1
  /\ UNCHANGED <<executionVars, scheduleVars, clock, job, scheduler,
                 workerVars, boot, req, historyVars>>

(* The queue's default for a job whose worker died: run it again. *)
StalledJobRetried(e) ==
  /\ job[e] = "active"
  /\ run.pc # "down"
  /\ run.exec # e
  /\ job' = [job EXCEPT ![e] = "waiting"]
  /\ UNCHANGED <<executionVars, scheduleVars, clock, scheduler, occurrence,
                 fired, workerVars, boot, req, historyVars>>

(* A job whose worker died is stalled; with maxStalledCount 0 the next worker
   to look fails it instead of putting it back. *)
StalledJob(e) ==
  /\ job[e] = "active"
  /\ run.pc # "down"
  /\ run.exec # e
  /\ job' = [job EXCEPT ![e] = "failed"]
  /\ UNCHANGED <<executionVars, scheduleVars, clock, scheduler, occurrence,
                 fired, workerVars, boot, req, historyVars>>

(* Time passes: the instant of a one-shot schedule comes, and then the grace
   of 60 seconds is over too. *)
TimePasses(s) ==
  /\ schedule[s] # "absent"
  /\ \/ clock[s] = "future" /\ clock' = [clock EXCEPT ![s] = "due"]
     \/ clock[s] = "due"    /\ clock' = [clock EXCEPT ![s] = "late"]
  /\ UNCHANGED <<executionVars, scheduleVars, queueVars, workerVars, boot, req,
                 historyVars>>

QueueNext ==
  \/ \E e \in Executions : Promote(e) \/ StalledJob(e)
  \/ \E s \in Recurrings : OccurrenceDue(s)
  \/ \E s \in OneShots : TimePasses(s)
=============================================================================
