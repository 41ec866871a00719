--------------------------- MODULE ExecutionRunner ---------------------------
(***************************************************************************)
(* The worker's consumer (apps/worker/src/queue-consumer.ts) and the run   *)
(* it makes of a job (apps/worker/src/runner/run-execution.ts).  The       *)
(* consumer's concurrency is 1: `run` is the one job being processed.      *)
(***************************************************************************)
EXTENDS LifecycleState

RunAt(pc) == run.pc = pc

RunGoto(pc) == run' = [run EXCEPT !.pc = pc]

(* Nothing outside the worker and its history changes. *)
WorkerOnly == UNCHANGED <<executionVars, scheduleVars, clock, queueVars, boot,
                          req>>

wasCancelled == status[run.exec] = "cancelled"

(***************************************************************************)
(* The consumer takes a job.                                               *)
(***************************************************************************)

(* A job that brings its execution row: a manual or a one-shot run. *)
TakeJob(e) ==
  /\ RunAt("idle")
  /\ job[e] = "waiting"
  /\ job' = [job EXCEPT ![e] = "active"]
  /\ run' = [NoRun EXCEPT !.pc = "load", !.exec = e, !.sched = scheduleId[e]]
  /\ UNCHANGED <<executionVars, scheduleVars, clock, scheduler, occurrence,
                 fired, browser, boot, req, historyVars>>

(* An occurrence of a recurrence: taking it makes the scheduler place the
   next one, as long as there is a scheduler. *)
TakeOccurrence(s) ==
  /\ RunAt("idle")
  /\ occurrence[s] = "waiting"
  /\ occurrence' = [occurrence EXCEPT ![s] =
                      IF scheduler[s] THEN "delayed" ELSE "none"]
  /\ run' = [NoRun EXCEPT !.pc = "occurrence", !.sched = s]
  /\ UNCHANGED <<executionVars, scheduleVars, clock, job, scheduler, fired,
                 browser, boot, req, historyVars>>

(* startOccurrence without its refusal. *)
StartOccurrenceUnchecked ==
  /\ RunAt("occurrence")
  /\ RunGoto("createRow")
  /\ WorkerOnly /\ UNCHANGED <<browser, historyVars>>

(* startOccurrence: the refusal.  Reservations count here. *)
StartOccurrence ==
  /\ RunAt("occurrence")
  /\ run' = IF InFlight # {} THEN NoRun ELSE [run EXCEPT !.pc = "createRow"]
  /\ WorkerOnly /\ UNCHANGED <<browser, historyVars>>

(* startOccurrence: the row of this occurrence. *)
CreateOccurrenceRow ==
  /\ RunAt("createRow")
  /\ \E e \in Fresh :
       /\ SetStatus({e}, "queued")
       /\ scheduleId' = [scheduleId EXCEPT ![e] = run.sched]
       /\ run' = [run EXCEPT !.pc = "load", !.exec = e]
  /\ UNCHANGED <<reason, notices, scheduleVars, clock, queueVars, browser,
                 boot, req, historyVars>>

(* The job is over for BullMQ, whatever became of the execution. *)
CompleteJob ==
  job' = [e \in Executions |->
            IF e = run.exec /\ job[e] = "active" THEN "completed" ELSE job[e]]

(***************************************************************************)
(* runExecution: before the browser.                                       *)
(***************************************************************************)

(* The row is read once: a cancelled run is dropped here. *)
Load ==
  /\ RunAt("load")
  /\ IF wasCancelled THEN run' = NoRun /\ CompleteJob
     ELSE RunGoto("starting") /\ UNCHANGED job
  /\ UNCHANGED <<executionVars, scheduleVars, clock, scheduler, occurrence,
                 fired, browser, boot, req, historyVars>>

(* A status written over whatever the row says by now. *)
WriteOver(st) ==
  /\ SetStatus({run.exec}, st)
  /\ overwritten' = overwritten \cup
                      {e \in Executions : e = run.exec /\ status[e] = "cancelled"}
  /\ UNCHANGED <<acted, overran, stopped, disowned, crashes>>

Starting ==
  /\ RunAt("starting")
  /\ WriteOver("starting")
  /\ RunGoto(IF run.sched = None THEN "preflight" ELSE "claim")
  /\ UNCHANGED <<scheduleId, reason, notices, scheduleVars, clock, queueVars,
                 browser, boot, req>>

(* A one-shot schedule leaves `scheduled`, a recurring one stays; the owner is
   told either way. *)
ClaimSchedule ==
  /\ RunAt("claim")
  /\ schedule' = IF run.sched \in OneShots
                 THEN [schedule EXCEPT ![run.sched] = "queued"] ELSE schedule
  /\ Notify({run.exec}, "schedule_started")
  /\ RunGoto("preflight")
  /\ UNCHANGED <<status, scheduleId, reason, queueJobId, clock, queueVars,
                 browser, boot, req, historyVars>>

(* No enabled step, a malformed placeholder, a missing or an empty reference
   ends the run before the site is touched. *)
Preflight ==
  /\ RunAt("preflight")
  /\ \/ RunGoto("open")
     \/ run' = [run EXCEPT !.pc = "finish", !.from = "preflight"]
  /\ WorkerOnly /\ UNCHANGED <<browser, historyVars>>

(***************************************************************************)
(* runExecution: the browser and the steps.                                *)
(***************************************************************************)

(* sessions.create puts the session in the manager, then starts it. *)
OpenSession ==
  /\ RunAt("open")
  /\ \/ browser' = "creating" /\ RunGoto("opening")
     \/ UNCHANGED browser /\ run' = [run EXCEPT !.pc = "aborted", !.cause = "own"]
  /\ WorkerOnly /\ UNCHANGED historyVars

(* Starting it takes seconds.  A session closed meanwhile either fails to
   start or comes up all the same, no longer listed by the manager. *)
SessionStarted ==
  /\ RunAt("opening")
  /\ \/ /\ browser' = IF browser = "closed" THEN "unlisted" ELSE "open"
        /\ RunGoto("running")
     \/ /\ browser' = "none"
        /\ run' = [run EXCEPT !.pc = "aborted",
                     !.cause = IF browser = "closed" THEN "closed" ELSE "own"]
  /\ WorkerOnly /\ UNCHANGED historyVars

(* The status stays at `starting` until the run has an outcome. *)
RunningUnsaid ==
  /\ RunAt("running")
  /\ RunGoto("check")
  /\ WorkerOnly /\ UNCHANGED <<browser, historyVars>>

Running ==
  /\ RunAt("running")
  /\ WriteOver("running")
  /\ RunGoto("check")
  /\ UNCHANGED <<scheduleId, reason, notices, scheduleVars, clock, queueVars,
                 browser, boot, req>>

(* The loop without the question it asks before every step. *)
CheckCancelledNever ==
  /\ RunAt("check")
  /\ RunGoto("step")
  /\ WorkerOnly /\ UNCHANGED <<browser, historyVars>>

(* Asked before every step: a cancelled run leaves the rest alone. *)
CheckCancelled ==
  /\ RunAt("check")
  /\ RunGoto(IF wasCancelled THEN "close" ELSE "step")
  /\ WorkerOnly /\ UNCHANGED <<browser, historyVars>>

(* executeStep and the update of currentUrl after it.  A step needs a living
   browser; it can fail of its own even then, having acted or not. *)
ExecuteStep ==
  /\ RunAt("step")
  /\ IF browser = "closed"
     THEN /\ run' = [run EXCEPT !.pc = "failed", !.cause = "closed"]
          /\ UNCHANGED historyVars
     ELSE /\ acted' = [acted EXCEPT ![run.exec] = @ + 1]
          /\ overran' = IF wasCancelled
                        THEN [overran EXCEPT ![run.exec] = @ + 1] ELSE overran
          /\ \/ run' = [run EXCEPT !.pc = "failed", !.cause = "own"]
             \/ /\ run.step < Steps
                /\ run' = [run EXCEPT !.pc = "check", !.step = @ + 1]
             \/ run.step = Steps /\ RunGoto("last")
          /\ UNCHANGED <<stopped, overwritten, disowned, crashes>>
  /\ WorkerOnly /\ UNCHANGED browser

(* Whose failure is it?  Asked after the row was closed instead of before. *)
StepFailedAssumesOwn ==
  /\ RunAt("failed")
  /\ run' = [run EXCEPT !.pc = "finish", !.from = "step", !.decided = TRUE]
  /\ WorkerOnly /\ UNCHANGED <<browser, historyVars>>

(* The step threw: whether the failure is the run's or the cancellation's is
   decided before the screenshot is taken. *)
StepFailed ==
  /\ RunAt("failed")
  /\ run' = [run EXCEPT !.pc = "finish", !.from = "step",
                        !.decided = ~wasCancelled]
  /\ WorkerOnly /\ UNCHANGED <<browser, historyVars>>

(* The last step has landed: wait for its effect and photograph it.  Without
   its page there is nothing to watch, which either is noticed or throws. *)
LastStep ==
  /\ RunAt("last")
  /\ \/ run' = [run EXCEPT !.pc = "finish", !.from = "success"]
     \/ browser = "closed" /\ run' = [run EXCEPT !.pc = "aborted", !.cause = "closed"]
  /\ WorkerOnly /\ UNCHANGED <<browser, historyVars>>

(* The catch around it all: a failure outside any step. *)
Aborted ==
  /\ RunAt("aborted")
  /\ run' = [run EXCEPT !.pc = "finish", !.from = "catch",
                        !.decided = ~wasCancelled]
  /\ WorkerOnly /\ UNCHANGED <<browser, historyVars>>

(***************************************************************************)
(* runExecution: the outcome.                                              *)
(***************************************************************************)

Succeeded == run.from = "success"

(* finish, its read: what may be written. *)
FinishRead ==
  /\ RunAt("finish")
  /\ run' = [run EXCEPT !.pc = "write",
                        !.write = outcomeWrite(wasCancelled, run.decided)]
  /\ WorkerOnly /\ UNCHANGED <<browser, historyVars>>

(* finish, its write: the row may have changed in between.  A completed run
   has no reason to rescue. *)
FinishWrite ==
  /\ RunAt("write")
  /\ IF run.write = "full"
     THEN /\ SetStatus({run.exec}, IF Succeeded THEN "completed" ELSE "failed")
          /\ SetReason({run.exec}, IF Succeeded THEN "none" ELSE "error")
     ELSE /\ UNCHANGED status
          /\ IF run.write = "reason-only" /\ ~Succeeded
             THEN SetReason({run.exec}, "rescued") ELSE UNCHANGED reason
  /\ RunGoto("notify")
  /\ UNCHANGED <<scheduleId, notices, scheduleVars, clock, queueVars, browser,
                 boot, req, historyVars>>

(* notify, in the success path and in every failure path that speaks up. *)
Announce ==
  Notify({run.exec}, IF Succeeded THEN "workflow_completed" ELSE "workflow_failed")

(* handleFailure keeps quiet about a run somebody cancelled; no other path
   looks at what finish wrote. *)
KeepsQuiet == run.from = "step" /\ run.write # "full"

(* A failed preflight taken for something the user is there to see. *)
NotifyOutcomeWatched ==
  /\ RunAt("notify")
  /\ IF run.from = "preflight" \/ KeepsQuiet THEN UNCHANGED notices ELSE Announce
  /\ RunGoto("settle")
  /\ UNCHANGED <<status, scheduleId, reason, scheduleVars, clock, queueVars,
                 browser, boot, req, historyVars>>

NotifyOutcome ==
  /\ RunAt("notify")
  /\ IF KeepsQuiet THEN UNCHANGED notices ELSE Announce
  /\ RunGoto("settle")
  /\ UNCHANGED <<status, scheduleId, reason, scheduleVars, clock, queueVars,
                 browser, boot, req, historyVars>>

(* The outcome without the schedule it belongs to. *)
SettleScheduleForgotten ==
  /\ RunAt("settle")
  /\ RunGoto("close")
  /\ WorkerOnly /\ UNCHANGED <<browser, historyVars>>

(* settleSchedule: a one-shot schedule ends with its run. *)
SettleSchedule ==
  /\ RunAt("settle")
  /\ schedule' =
       IF run.sched \in OneShots
       THEN [schedule EXCEPT ![run.sched] =
               IF Succeeded THEN "completed" ELSE "failed"]
       ELSE schedule
  /\ RunGoto("close")
  /\ UNCHANGED <<executionVars, queueJobId, clock, queueVars, browser, boot,
                 req, historyVars>>

(* The finally, and BullMQ's end of the job. *)
CloseSession ==
  /\ RunAt("close")
  /\ browser' = "none"
  /\ run' = NoRun
  /\ CompleteJob
  /\ UNCHANGED <<executionVars, scheduleVars, clock, scheduler, occurrence,
                 fired, boot, req, historyVars>>

TakesJob ==
  \/ \E e \in Executions : TakeJob(e)
  \/ \E s \in Recurrings : TakeOccurrence(s)

RunsOn ==
  \/ StartOccurrence \/ CreateOccurrenceRow
  \/ Load \/ Starting \/ ClaimSchedule \/ Preflight
  \/ OpenSession \/ SessionStarted \/ Running
  \/ CheckCancelled \/ ExecuteStep \/ StepFailed \/ LastStep \/ Aborted
  \/ FinishRead \/ FinishWrite \/ NotifyOutcome \/ SettleSchedule \/ CloseSession

RunnerNext == TakesJob \/ RunsOn
=============================================================================
