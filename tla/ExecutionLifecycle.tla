-------------------------- MODULE ExecutionLifecycle --------------------------
(***************************************************************************)
(* The life of an execution across the three processes that write its row: *)
(* the API's handlers, the worker's run and the worker's startup.  The     *)
(* queue carries the jobs between them.                                    *)
(***************************************************************************)
EXTENDS ExecutionApi, ExecutionRunner, WorkerStartup

(* A stack that is up and has nothing to do yet: the worker's startup
   reconciliation is over. *)
Init ==
  /\ status = [e \in Executions |-> "absent"]
  /\ scheduleId = [e \in Executions |-> None]
  /\ reason = [e \in Executions |-> "none"]
  /\ notices = [e \in Executions |-> {}]
  /\ schedule = [s \in Schedules |-> "absent"]
  /\ queueJobId = [s \in Schedules |-> None]
  /\ clock = [s \in OneShots |-> "future"]
  /\ job = [e \in Executions |-> "none"]
  /\ scheduler = [s \in Recurrings |-> FALSE]
  /\ occurrence = [s \in Recurrings |-> "none"]
  /\ fired = 0
  /\ run = NoRun
  /\ browser = "none"
  /\ boot = NoBoot
  /\ req = [r \in Requests |-> NewRequest]
  /\ acted = [e \in Executions |-> 0]
  /\ overran = [e \in Executions |-> 0]
  /\ stopped = {}
  /\ overwritten = {}
  /\ disowned = {}
  /\ crashes = 0

Next == QueueNext \/ ApiNext \/ RunnerNext \/ StartupNext

Spec == Init /\ [][Next]_vars

(***************************************************************************)
(* Fairness.  Node runs a handler it has begun; the consumer takes jobs    *)
(* while it is up; BullMQ's timers fire; the container runtime restarts a  *)
(* worker that died.  Users, crashes and the calendar owe nothing.         *)
(***************************************************************************)
Fairness ==
  /\ WF_vars(TakesJob)
  /\ WF_vars(RunsOn)
  /\ WF_vars(WorkerStart)
  /\ WF_vars(Reconciles)
  /\ \A r \in Requests : WF_vars(Continues(r))
  /\ \A e \in Executions : WF_vars(Promote(e)) /\ WF_vars(StalledJob(e))
  /\ \A s \in OneShots : WF_vars(TimePasses(s))

FairSpec == Spec /\ Fairness

-----------------------------------------------------------------------------
(***************************************************************************)
(* What holds whatever crashes and whoever races.                          *)
(***************************************************************************)

InLoop == {"check", "step"}

(* A workflow acts on a real site, so no step of an execution is ever
   performed twice and none out of order: not after a crash, not by a job that
   stalled, not by a job taken twice (queue-consumer.ts:64-71, attempts: 1). *)
EachStepOnce ==
  [][\A e \in Executions : acted'[e] # acted[e] =>
       run.exec = e /\ acted[e] = run.step - 1 /\ acted'[e] = run.step]_vars

(* A row that says `starting` or `running` is being run, or the worker that
   ran it is down, or its successor is about to close it: none is left "in
   progress" forever (queue-consumer.ts:94-97). *)
StartedRowsAccountedFor ==
  \A e \in Executions : status[e] \in {"starting", "running"} =>
    \/ run.exec = e
    \/ run.pc = "down"
    \/ boot.pc = "readOrphans"
    \/ boot.pc = "failOrphans" /\ e \in boot.orphans

(* Occurrences of a recurrence never pile up: whatever the worker went
   through, at most one row of a recurring schedule is in flight
   (queue-consumer.ts:110-116). *)
OneOccurrenceInFlight ==
  \A s \in Recurrings : \A e, f \in InFlight :
    scheduleId[e] = s /\ scheduleId[f] = s => e = f

(* A schedule a user was told is stopped never starts again: no job of it is
   taken after DELETE /schedules/:id was answered (queue.ts:65-84). *)
StoppedSchedulesStayStopped ==
  [][run.pc = "idle" /\ run'.pc \in {"load", "occurrence"} =>
       run'.sched \notin stopped]_vars

(* The one run of a one-shot schedule that was stopped touches nothing
   (schedules.ts:181-201). *)
StoppedRunsDoNothing ==
  [][\A e \in Executions :
       acted'[e] # acted[e] /\ scheduleId[e] \in OneShots =>
         scheduleId[e] \notin stopped]_vars

-----------------------------------------------------------------------------
(***************************************************************************)
(* What holds as long as no process dies.                                  *)
(*                                                                         *)
(* A schedule whose job was enqueued and whose link to it could not be     *)
(* written is refused, and its row closed, while the job is alive: handler *)
(* and run write that row side by side.  The properties that rest on one   *)
(* of them writing at a time leave those rows (`disowned`) out.            *)
(***************************************************************************)

(* A handler that has not finished with execution e or schedule s. *)
Handling(e) == \E r \in Requests : req[r].exec = e /\ req[r].pc # "done"
HandlingSchedule(s) ==
  \E r \in Requests : req[r].sched = s /\ req[r].pc # "done"

(* A queued row is backed by something that will move it: a job, the run that
   took it, or the handler that is busy with it.  "Left as queued it would
   show up as pending forever" (executions.ts:82-84). *)
QueuedRowsBacked ==
  \A e \in Executions : status[e] = "queued" =>
    \/ job[e] \in {"delayed", "waiting"}
    \/ run.exec = e
    \/ Handling(e)
    \/ scheduleId[e] # None /\ HandlingSchedule(scheduleId[e])

(* A one-shot schedule is `queued` only while its run is on the worker, or a
   cancellation is about to close it (run-execution.ts:151-157, 549-550). *)
QueuedScheduleHasRun ==
  \A s \in OneShots : schedule[s] = "queued" =>
    run.sched = s \/ HandlingSchedule(s)

(* Nobody watches a scheduled run: one the worker failed has said so, once the
   worker is done with it (run-execution.ts:640-689, 418-436). *)
NoSilentFailure ==
  \A e \in Executions :
    /\ status[e] = "failed" /\ scheduleId[e] # None /\ job[e] = "completed"
    /\ e \notin disowned
    => "workflow_failed" \in notices[e]

(* Once a run is in its loop, a cancellation lets at most the step that was
   already decided on be performed (run-execution.ts:310-314). *)
CancelStopsPromptly == \A e \in Executions \ disowned : overran[e] <= 1

(* The reason the row keeps next to a cancellation is the run's own failure,
   never the browser the cancellation closed (run-execution.ts:473-482),
   unless a run wrote over the cancellation before. *)
OwnFailureRescued ==
  \A e \in Executions :
    reason[e] = "rescued" /\ run.exec = e /\ e \notin overwritten \cup disowned =>
      run.cause = "own"

(* Cancellations aside, which may land on a row or be written over at any
   time, rows move as the state table says (states.ts:32-39): one writer never
   finds a row where another has left it unexpectedly.  Not so the row of a
   schedule that was refused with its job queued: its handler and its run
   write it side by side. *)
FollowsTransitions ==
  [][\A e \in Executions \ disowned :
       /\ status'[e] # status[e]
       /\ status[e] \notin {"absent", "cancelled"}
       /\ status'[e] # "cancelled"
       => canTransitionExecution(status[e], status'[e])]_vars

-----------------------------------------------------------------------------
(***************************************************************************)
(* Liveness.                                                               *)
(***************************************************************************)

(* A run that started is over some day, even when the worker dies in the
   middle of it. *)
StartedRunsEnd ==
  \A e \in Executions :
    status[e] \in {"starting", "running"} ~> status[e] \in TerminalExecution

NothingDies == [](crashes = 0)

(* What was asked for and accepted is over some day, as long as no process
   dies: no row is left waiting for a job that does not exist. *)
QueuedRunsEnd ==
  NothingDies =>
    \A e \in Executions :
      status[e] = "queued" ~> status[e] \in TerminalExecution

(* And a one-shot schedule is settled some day (run-execution.ts:549-550). *)
SchedulesSettle ==
  NothingDies =>
    \A s \in OneShots :
      schedule[s] = "queued" ~> schedule[s] \in {"completed", "failed", "cancelled"}
=============================================================================
