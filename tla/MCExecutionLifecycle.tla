------------------------- MODULE MCExecutionLifecycle -------------------------
(***************************************************************************)
(* Small instances of ExecutionLifecycle.  Execution ids are handed out by *)
(* the database and requests are alike, so both are symmetric.             *)
(***************************************************************************)
EXTENDS RunsOnce, TLC

Interchangeable == Permutations(Executions) \cup Permutations(Requests)

-----------------------------------------------------------------------------
(* What comments and tables of the code say of an execution's life, and an
   interleaving or a crash makes untrue.  claim_cancel_sticks.cfg ends in the
   shortest history that contradicts the property it names; any other of the
   following can be put in its place. *)


(* "The status is never rewritten: the user did press it, and a terminal state
   must not move underneath them" (run-execution.ts:484-485): while a run is
   on the worker, its cancellation stands. *)
CancelledStaysCancelled ==
  [][\A e \in Executions :
       status[e] = "cancelled" /\ run.exec = e =>
         status'[e] = "cancelled"]_vars

(* The reason of a run that had already stopped is kept next to the
   cancellation (run-execution.ts:478-482). *)
ReasonSurvivesLateCancel ==
  [][\A e \in Executions :
       status[e] = "failed" /\ reason[e] = "error" /\ run.exec = e =>
         reason'[e] # "user"]_vars

(* A recurrence that keeps firing can be stopped: the row says `scheduled`,
   the only state DELETE accepts (run-execution.ts:549-552). *)
FiringScheduleIsCancellable ==
  \A s \in Recurrings :
    scheduler[s] /\ ~HandlingSchedule(s) => schedule[s] = "scheduled"

(* Only a schedule "whose queue job is gone" is marked as missed
   (queue-consumer.ts:189). *)
MissedMeansJobGone ==
  [][\A s \in OneShots :
       boot.pc = "failMissed" /\ s \in boot.missed \ boot'.missed =>
         \A e \in Executions : queueJobId[s] = e =>
           job[e] \notin {"waiting", "active"}]_vars

(* What the startup closes "belonged to a process that no longer exists"
   (queue-consumer.ts:94-96). *)
OrphansHaveNoRun ==
  [][\A e \in Executions :
       boot.pc = "failOrphans" /\ boot'.pc = "failOrphans"
         /\ e \in boot.orphans \ boot'.orphans => run.exec # e]_vars

(* Two clicks on the run button do not run a workflow twice
   (executions.ts:46-50). *)
OneManualRunAtATime ==
  \A e, f \in InFlight :
    scheduleId[e] = None /\ scheduleId[f] = None => e = f

(* An occurrence is skipped because "the previous run has not finished"
   (queue-consumer.ts:133), not because of a reservation for another day
   (executions.ts:55-57). *)
SkipsOnlyForRuns ==
  [][run.pc = "occurrence" /\ run'.pc = "idle" =>
       \E e \in InFlight : ~Reservation(e)]_vars

(* A schedule refused with "Could not enqueue the scheduled job"
   (schedules.ts:119) does not run, whatever it was that failed. *)
RefusedNeverRuns ==
  [][\A e \in Executions \cap disowned : acted'[e] = acted[e]]_vars

(* A schedule only takes the steps of SCHEDULE_TRANSITIONS (states.ts:24-30). *)
SchedulesFollowTransitions ==
  [][\A s \in Schedules :
       schedule[s] # "absent" /\ schedule'[s] # schedule[s] =>
         canTransitionSchedule(schedule[s], schedule'[s])]_vars

(* "Left as queued it would show up as pending forever, never running and never
   failing, so it is closed here" (executions.ts:82-83). *)
QueuedNeverForever ==
  \A e \in Executions :
    status[e] = "queued" ~> status[e] \in TerminalExecution

(* "A one-shot schedule is finished the moment its run is"
   (run-execution.ts:549): also when the run ends with its worker. *)
SchedulesSettleAfterCrash ==
  \A s \in OneShots :
    schedule[s] = "queued" ~> schedule[s] \in {"completed", "failed", "cancelled"}
=============================================================================
