------------------------------ MODULE RowProofs ------------------------------
(***************************************************************************)
(* What is left behind whatever crashes, on top of RunsOnceInv: a row that *)
(* says it is in progress is accounted for, a recurrence has at most one   *)
(* row in flight, and a schedule that was stopped never starts again.      *)
(* And what holds until the first process dies: a queued row and a queued  *)
(* schedule have somebody at work on them, statuses follow the table, and  *)
(* a run that is over has left the right notice and the right reason.      *)
(***************************************************************************)
EXTENDS RunsOnceProofs

(* A run whose outcome is written, or will not be, has left its row over.  *)
OutcomeIsOver ==
  run.pc \in {"notify", "settle", "close"} \/ (run.pc = "write" /\ run.write # "full")
    => status[run.exec] \in TerminalExecution

RowsInv == OutcomeIsOver /\ StartedRowsAccountedFor

(* Rows come into being queued and otherwise only end.                     *)
RowsBeginOrEnd ==
  \A e \in Executions :
    \/ status'[e] = status[e]
    \/ status'[e] \in TerminalExecution
    \/ status[e] = "absent" /\ status'[e] = "queued"

(* The row of a run is a row.                                               *)
LEMMA RunHasRow ==
  ASSUME RunsOnceInv, run.pc \notin {"down", "idle", "occurrence", "createRow"}
  PROVE  run.exec \in Executions
BY DEF RunsOnceInv, TakenAtMostOnce, RunInStep, TypeOK, RunState

(* Whoever is not the runner begins rows or ends them.                      *)
LEMMA OthersBeginOrEnd ==
  ASSUME RunsOnceInv, QueueNext \/ ApiNext \/ StartupNext
  PROVE  RowsBeginOrEnd
<1> USE DEF RowsBeginOrEnd, executionVars, SetStatus
<1>0. status \in [Executions -> EXECUTION_STATES \cup {"absent"}]
  BY DEF RunsOnceInv, TypeOK
<1>1. CASE QueueNext
  BY <1>1 DEF QueueNext, Promote, StalledJob, OccurrenceDue, TimePasses
<1>2. CASE StartupNext
  <2>1. CASE FailMissedRows
    BY <1>0, <2>1 DEF FailMissedRows, TerminalExecution
  <2>2. ASSUME NEW e \in Executions, FailOrphan(e) PROVE RowsBeginOrEnd
    BY <1>0, <2>2 DEF FailOrphan, TerminalExecution
  <2>3. QED
    BY <1>2, <2>1, <2>2 DEF StartupNext, Reconciles, WorkerCrash, WorkerStart, ReadOrphans,
       ReadMissed, FailMissed, BootDone
<1>3. CASE ApiNext
  <2>1. ASSUME NEW r \in Requests, RunCreate(r) \/ ScheduleReserve(r) PROVE RowsBeginOrEnd
    BY <1>0, <2>1 DEF RunCreate, ScheduleReserve, Fresh
  <2>2. ASSUME NEW r \in Requests,
               RunEnqueueFailed(r) \/ ScheduleRowFailed(r) \/ CancelWrite(r) \/ DeleteRows(r)
        PROVE  RowsBeginOrEnd
    BY <1>0, <2>2 DEF RunEnqueueFailed, ScheduleRowFailed, CancelWrite, DeleteRows,
       TerminalExecution
  <2>3. ASSUME NEW r \in Requests, Starts(r) PROVE UNCHANGED status
    BY <2>3 DEF Starts, RunCheck, CancelRead, ScheduleCreate, DeleteRead
  <2>4. ASSUME NEW r \in Requests, Continues(r) PROVE RowsBeginOrEnd
    BY <2>1, <2>2, <2>4 DEF Continues, RunEnqueue, CancelJob, CancelRemove, CancelClose,
       CancelSchedule, ScheduleEnqueue, ScheduleUpsert, ScheduleLink, LinkFails, ScheduleFailed, DeleteJob,
       DeleteRemove, DeleteScheduler, DeletePending, DeleteWrite
  <2>5. CASE ApiCrash
    BY <2>5 DEF ApiCrash
  <2>6. QED
    BY <1>3, <2>3, <2>4, <2>5 DEF ApiNext
<1>4. QED
  BY <1>1, <1>2, <1>3

(* Beginning and ending rows disturbs nothing.                              *)
LEMMA RowsUndisturbed ==
  ASSUME RunsOnceInv, RowsInv, RowsBeginOrEnd, UNCHANGED <<run, boot>>
  PROVE  RowsInv'
<1>1. OutcomeIsOver'
  BY RunHasRow DEF RowsInv, RowsBeginOrEnd, OutcomeIsOver, TerminalExecution
<1>2. StartedRowsAccountedFor'
  BY DEF RowsInv, RowsBeginOrEnd, StartedRowsAccountedFor, TerminalExecution
<1>3. QED
  BY <1>1, <1>2 DEF RowsInv

(* The queue and the API leave the run and the startup alone.               *)
LEMMA QueueAndApiLeaveRun ==
  ASSUME QueueNext \/ ApiNext
  PROVE  UNCHANGED <<run, boot>>
<1>1. CASE QueueNext
  BY <1>1 DEF QueueNext, Promote, StalledJob, OccurrenceDue, TimePasses, workerVars
<1>2. ASSUME NEW r \in Requests, Starts(r) PROVE UNCHANGED <<run, boot>>
  BY <1>2 DEF Starts, RunCheck, CancelRead, ScheduleCreate, DeleteRead, workerVars
<1>3. ASSUME NEW r \in Requests, Continues(r) PROVE UNCHANGED <<run, boot>>
  BY <1>3 DEF Continues, RunCreate, RunEnqueue, RunEnqueueFailed, CancelWrite, CancelJob,
     CancelRemove, CancelClose, CancelSchedule, ScheduleReserve, ScheduleEnqueue, ScheduleUpsert,
     ScheduleLink, LinkFails, ScheduleFailed, ScheduleRowFailed, DeleteJob, DeleteRemove, DeleteScheduler,
     DeletePending, DeleteWrite, DeleteRows, workerVars
<1>4. CASE ApiCrash
  BY <1>4 DEF ApiCrash, workerVars
<1>5. QED
  BY <1>1, <1>2, <1>3, <1>4 DEF ApiNext

(* So rows only begin and end, which disturbs nothing.                      *)
LEMMA QueueAndApiRows ==
  ASSUME RunsOnceInv, RowsInv, QueueNext \/ ApiNext
  PROVE  RowsInv'
BY QueueAndApiLeaveRun, OthersBeginOrEnd, RowsUndisturbed

(* The startup lists every row in progress and takes each off its list only *)
(* when it has closed it.                                                   *)
LEMMA StartupRows ==
  ASSUME RunsOnceInv, RowsInv, StartupNext
  PROVE  RowsInv'
<1> USE DEF RowsInv, OutcomeIsOver, StartedRowsAccountedFor
<1>0. status \in [Executions -> EXECUTION_STATES \cup {"absent"}] /\ boot \in BootState
  BY DEF RunsOnceInv, TypeOK
<1>1. CASE WorkerCrash
  BY <1>1 DEF WorkerCrash, NoRun, executionVars
<1>2. CASE WorkerStart
  BY <1>2 DEF WorkerStart, NoRun, NoBoot, executionVars
<1>3. CASE ReadOrphans
  BY <1>0, <1>3 DEF ReadOrphans, BootState, BootOnly, workerVars
<1>4. ASSUME NEW e \in Executions, FailOrphan(e) PROVE RowsInv'
  <2>1. UNCHANGED run /\ boot'.pc = boot.pc /\ boot'.orphans = boot.orphans \ {e}
    BY <1>0, <1>4 DEF FailOrphan, BootState, BootOnly, workerVars
  <2>2. boot.pc = "failOrphans" /\ status'[e] = "failed"
    BY <1>0, <1>4 DEF FailOrphan, SetStatus
  <2>3. OutcomeIsOver'
    BY <2>1, RunHasRow, OthersBeginOrEnd DEF RowsBeginOrEnd, TerminalExecution
  <2>4. StartedRowsAccountedFor'
    BY <2>1, <2>2, OthersBeginOrEnd DEF RowsBeginOrEnd, TerminalExecution
  <2>5. QED
    BY <2>3, <2>4
<1>5. CASE ReadMissed
  BY <1>0, <1>5 DEF ReadMissed, BootState, BootOnly, workerVars
<1>6. ASSUME NEW s \in OneShots, FailMissed(s) PROVE RowsInv'
  BY <1>0, <1>6 DEF FailMissed, BootState, BootOnly, workerVars
<1>7. CASE FailMissedRows
  <2>1. UNCHANGED run /\ boot.pc = "failRows"
    BY <1>7 DEF FailMissedRows, BootOnly, workerVars
  <2>2. OutcomeIsOver'
    BY <2>1, RunHasRow, OthersBeginOrEnd DEF RowsBeginOrEnd, TerminalExecution
  <2>3. StartedRowsAccountedFor'
    BY <2>1, OthersBeginOrEnd DEF RowsBeginOrEnd, TerminalExecution
  <2>4. QED
    BY <2>2, <2>3
<1>8. CASE BootDone
  BY <1>0, <1>8 DEF BootDone, BootOnly, workerVars
<1>9. QED
  BY <1>1, <1>2, <1>3, <1>4, <1>5, <1>6, <1>7, <1>8 DEF StartupNext, Reconciles

(* The runner keeps its own row until it is over.                           *)
LEMMA RunnerRows ==
  ASSUME RunsOnceInv, RowsInv, RunnerNext
  PROVE  RowsInv'
<1> USE DEF RowsInv, OutcomeIsOver, StartedRowsAccountedFor
<1> USE DEF WorkerOnly, executionVars, workerVars
<1>0. /\ status \in [Executions -> EXECUTION_STATES \cup {"absent"}]
      /\ run \in RunState
      /\ run.exec = None <=> run.pc \in {"down", "idle", "occurrence", "createRow"}
  BY DEF RunsOnceInv, TypeOK, TakenAtMostOnce, RunInStep
<1>a. None \notin Executions
  BY ConstantsAssumption
<1>1. ASSUME NEW e \in Executions, TakeJob(e) PROVE RowsInv'
  BY <1>0, <1>a, <1>1 DEF TakeJob, RunAt, NoRun
<1>2. ASSUME NEW s \in Recurrings, TakeOccurrence(s) PROVE RowsInv'
  BY <1>0, <1>a, <1>2 DEF TakeOccurrence, RunAt, NoRun
<1>3. CASE StartOccurrence
  BY <1>0, <1>a, <1>3 DEF StartOccurrence, RunAt, NoRun, RunState
<1>4. CASE CreateOccurrenceRow
  BY <1>0, <1>a, <1>4 DEF CreateOccurrenceRow, RunAt, RunState, SetStatus, Fresh
<1>5. CASE Load
  BY <1>0, <1>a, <1>5 DEF Load, RunAt, RunGoto, NoRun, RunState, wasCancelled
<1>6. CASE Starting \/ Running
  BY <1>0, <1>a, <1>6 DEF Starting, Running, RunAt, RunGoto, RunState, WriteOver, SetStatus
<1>7. CASE ClaimSchedule \/ Preflight \/ OpenSession \/ SessionStarted
  BY ZenonT(40), <1>0, <1>7 DEF ClaimSchedule, Preflight, OpenSession, SessionStarted, RunAt,
     RunGoto, RunState
<1>8. CASE CheckCancelled
  BY <1>0, <1>8 DEF CheckCancelled, RunAt, RunGoto, RunState, wasCancelled, TerminalExecution
<1>9. CASE ExecuteStep
  <2>1. run'.exec = run.exec /\ run'.pc \in {"failed", "check", "last"}
    BY <1>0, <1>9 DEF ExecuteStep, RunGoto, RunState
  <2>2. run.pc = "step" /\ UNCHANGED <<status, boot>>
    BY <1>9 DEF ExecuteStep, RunAt
  <2>3. QED
    BY <2>1, <2>2
<1>10. CASE StepFailed \/ LastStep \/ Aborted
  BY ZenonT(40), <1>0, <1>10 DEF StepFailed, LastStep, Aborted, RunAt, RunState
<1>11. CASE FinishRead
  BY <1>0, <1>11 DEF FinishRead, RunAt, RunState, outcomeWrite, wasCancelled, TerminalExecution
<1>12. CASE FinishWrite
  BY <1>0, <1>12 DEF FinishWrite, RunAt, RunGoto, RunState, SetStatus, TerminalExecution
<1>13. CASE NotifyOutcome \/ SettleSchedule
  BY <1>0, <1>13 DEF NotifyOutcome, SettleSchedule, RunAt, RunGoto, RunState
<1>14. CASE CloseSession
  BY <1>0, <1>a, <1>14 DEF CloseSession, RunAt, NoRun, TerminalExecution
<1>15. QED
  BY <1>1, <1>2, <1>3, <1>4, <1>5, <1>6, <1>7, <1>8, <1>9, <1>10, <1>11, <1>12, <1>13, <1>14
  DEF RunnerNext, TakesJob, RunsOn

(* Both hold in every state.                                                *)
LEMMA RowsInvariant == Spec => []RowsInv
<1>1. Init => RowsInv
  BY DEF Init, RowsInv, OutcomeIsOver, StartedRowsAccountedFor, NoRun
<1>2. RunsOnceInv /\ RowsInv /\ [Next]_vars => RowsInv'
  <2>1. RowsInv /\ UNCHANGED vars => RowsInv'
    BY DEF vars, RowsInv, OutcomeIsOver, StartedRowsAccountedFor
  <2>2. QED
    BY <2>1, QueueAndApiRows, StartupRows, RunnerRows DEF Next
<1>3. QED
  BY <1>1, <1>2, RunsOnceInvariant, PTL DEF Spec

(* A row that says it is in progress is being run, or the worker is down,   *)
(* or its successor is about to close it (queue-consumer.ts:94-97): none is *)
(* left "in progress", for any rows, requests and number of crashes.        *)
THEOREM StartedRowsAreAccountedFor == Spec => []StartedRowsAccountedFor
<1>1. RowsInv => StartedRowsAccountedFor
  BY DEF RowsInv
<1>2. QED
  BY <1>1, RowsInvariant, PTL

-----------------------------------------------------------------------------
(* Occurrences of a recurrence.                                            *)

(* A row that does not exist belongs to no schedule.                       *)
AbsentRowsUnowned == \A e \in Executions : status[e] = "absent" => scheduleId[e] = None

(* The row of an occurrence has no job of its own, and nobody gives it one: *)
(* only the run that made it will ever start it.                            *)
OccurrencesHaveNoJob ==
  /\ \A e \in Executions : scheduleId[e] \in Recurrings =>
       /\ job[e] \notin {"delayed", "waiting"}
       /\ \A r \in Requests : Enqueuing(r) => req[r].exec # e
  /\ \A r \in Requests : req[r].pc = "schedule.reserve" => req[r].sched \in OneShots

(* Of one recurrence, a row in flight and the row being run are the same.   *)
OccurrencesAlone ==
  /\ \A s \in Recurrings : \A e, f \in InFlight \cup {run.exec} :
       e \in Executions /\ f \in Executions /\ scheduleId[e] = s /\ scheduleId[f] = s => e = f
  /\ run.pc = "createRow" => \A e \in InFlight : scheduleId[e] \notin Recurrings

OccurrenceInv == AbsentRowsUnowned /\ OccurrencesHaveNoJob /\ OccurrencesAlone

(* A row keeps its schedule; a new one is of no recurrence.                 *)
RowsKeepSchedule ==
  \A e \in Executions :
    \/ scheduleId'[e] = scheduleId[e]
    \/ status[e] = "absent" /\ status'[e] = "queued" /\ scheduleId'[e] \in OneShots

(* What is not the runner's makes no occurrence.                            *)
LEMMA OccurrencesUndisturbed ==
  ASSUME RunsOnceInv, OccurrenceInv, RowsBeginOrEnd, RowsKeepSchedule, UNCHANGED run
  PROVE  AbsentRowsUnowned' /\ OccurrencesAlone'
<1> USE DEF OccurrenceInv, AbsentRowsUnowned, OccurrencesAlone, RowsBeginOrEnd, RowsKeepSchedule
<1>0. /\ status \in [Executions -> EXECUTION_STATES \cup {"absent"}]
      /\ OneShots \cap Recurrings = {} /\ None \notin Recurrings
  BY ConstantsAssumption DEF RunsOnceInv, TypeOK, Schedules
<1>1. ASSUME NEW e \in Executions, scheduleId'[e] \in Recurrings
      PROVE  /\ scheduleId[e] = scheduleId'[e]
             /\ e \in InFlight' => e \in InFlight
  BY <1>0, <1>1 DEF InFlight, InFlightStates, TerminalExecution
<1>2. AbsentRowsUnowned'
  BY <1>0 DEF TerminalExecution
<1>3. OccurrencesAlone'
  <2>1. ASSUME NEW s \in Recurrings, NEW e \in InFlight' \cup {run'.exec},
               NEW f \in InFlight' \cup {run'.exec}, e \in Executions, f \in Executions,
               scheduleId'[e] = s, scheduleId'[f] = s
        PROVE  e = f
    <3>1. /\ scheduleId[e] = s /\ e \in InFlight \cup {run.exec}
          /\ scheduleId[f] = s /\ f \in InFlight \cup {run.exec}
      BY <1>1, <2>1
    <3>2. QED
      BY <2>1, <3>1
  <2>2. ASSUME run'.pc = "createRow", NEW e \in InFlight' PROVE scheduleId'[e] \notin Recurrings
    BY <1>1, <2>2 DEF InFlight
  <2>3. QED
    BY <2>1, <2>2
<1>4. QED
  BY <1>2, <1>3

(* The queue promotes no occurrence, for its row has no job.                *)
LEMMA QueueOccurrences ==
  ASSUME RunsOnceInv, OccurrenceInv, QueueNext
  PROVE  OccurrenceInv'
<1> USE DEF executionVars, workerVars
<1>1. UNCHANGED <<run, status, scheduleId, req>>
  BY DEF QueueNext, Promote, StalledJob, OccurrenceDue, TimePasses
<1>2. AbsentRowsUnowned' /\ OccurrencesAlone'
  BY <1>1, OthersBeginOrEnd, OccurrencesUndisturbed DEF RowsKeepSchedule
<1>3. OccurrencesHaveNoJob'
  <2>0. job \in [Executions -> JobStates]
    BY DEF RunsOnceInv, TypeOK
  <2>1. \A e \in Executions : job[e] \notin {"delayed", "waiting"} =>
                                job'[e] \notin {"delayed", "waiting"}
    BY <2>0 DEF QueueNext, Promote, StalledJob, OccurrenceDue, TimePasses, queueVars
  <2>2. QED
    BY <1>1, <2>1 DEF OccurrenceInv, OccurrencesHaveNoJob, Enqueuing
<1>4. QED
  BY <1>2, <1>3 DEF OccurrenceInv

(* Nor does the startup, which only closes rows.                            *)
LEMMA StartupOccurrences ==
  ASSUME RunsOnceInv, OccurrenceInv, StartupNext
  PROVE  OccurrenceInv'
<1> USE DEF executionVars, workerVars, queueVars, BootOnly
<1>1. UNCHANGED <<scheduleId, job, req>>
  BY DEF StartupNext, Reconciles, WorkerCrash, WorkerStart, ReadOrphans, FailOrphan, ReadMissed,
     FailMissed, FailMissedRows, BootDone
<1>2. OccurrencesHaveNoJob'
  BY <1>1 DEF OccurrenceInv, OccurrencesHaveNoJob, Enqueuing
<1>3. CASE UNCHANGED run
  BY <1>1, <1>2, <1>3, OthersBeginOrEnd, OccurrencesUndisturbed DEF RowsKeepSchedule, OccurrenceInv
<1>4. CASE WorkerCrash \/ WorkerStart
  <2>1. UNCHANGED status /\ run'.exec = None /\ run'.pc # "createRow"
    BY <1>4 DEF WorkerCrash, WorkerStart, NoRun
  <2>2. None \notin Executions
    BY ConstantsAssumption
  <2>3. QED
    BY <1>1, <1>2, <2>1, <2>2 DEF OccurrenceInv, AbsentRowsUnowned, OccurrencesAlone, InFlight
<1>5. QED
  BY <1>3, <1>4 DEF StartupNext, Reconciles, ReadOrphans, FailOrphan, ReadMissed,
     FailMissed, FailMissedRows, BootDone

(* A handler reserves a row for a one-shot schedule or none, and enqueues    *)
(* the row it has made.                                                      *)
LEMMA ApiOccurrences ==
  ASSUME RunsOnceInv, OccurrenceInv, ApiNext
  PROVE  OccurrenceInv'
<1> USE DEF executionVars, workerVars, queueVars, Goto, At, Begins
<1>0. /\ req \in [Requests -> RequestState]
      /\ job \in [Executions -> JobStates]
      /\ status \in [Executions -> EXECUTION_STATES \cup {"absent"}]
      /\ scheduleId \in [Executions -> Schedules \cup {None}]
      /\ OneShots \cap Recurrings = {} /\ None \notin Recurrings
  BY ConstantsAssumption DEF RunsOnceInv, TypeOK, Schedules
<1>a. ASSUME UNCHANGED <<run, scheduleId>> PROVE AbsentRowsUnowned' /\ OccurrencesAlone'
  BY <1>a, OthersBeginOrEnd, OccurrencesUndisturbed DEF RowsKeepSchedule
<1>b. OccurrencesHaveNoJob
  BY DEF OccurrenceInv
<1>1. CASE ApiCrash
  <2>1. OccurrencesHaveNoJob'
    BY <1>0, <1>1, <1>b DEF ApiCrash, OccurrencesHaveNoJob, Enqueuing, RequestState
  <2>2. QED
    BY <1>1, <1>a, <2>1 DEF ApiCrash, OccurrenceInv
<1>2. ASSUME NEW r \in Requests, Starts(r) PROVE OccurrenceInv'
  <2>1. UNCHANGED <<run, scheduleId, job>>
    BY <1>2 DEF Starts, RunCheck, CancelRead, ScheduleCreate, DeleteRead
  <2> DEFINE NothingMade ==
               /\ req'[r].pc \notin {"run.enqueue", "schedule.enqueue"}
               /\ req'[r].pc = "schedule.reserve" => req'[r].sched \in OneShots
               /\ \A q \in Requests \ {r} : req'[q] = req[q]
  <2>2. NothingMade
    <3>1. CASE RunCheck(r)
      BY <1>0, <3>1 DEF RunCheck, RequestState
    <3>2. ASSUME NEW e \in Executions, CancelRead(r, e) PROVE NothingMade
      BY <1>0, <3>2 DEF CancelRead, RequestState
    <3>3. ASSUME NEW s \in Schedules, ScheduleCreate(r, s) PROVE NothingMade
      BY <1>0, <3>3 DEF ScheduleCreate, RequestState
    <3>4. ASSUME NEW s \in Schedules, DeleteRead(r, s) PROVE NothingMade
      BY <1>0, <3>4 DEF DeleteRead, RequestState, Schedules
    <3>5. QED
      BY <1>2, <3>1, <3>2, <3>3, <3>4 DEF Starts
  <2>3. OccurrencesHaveNoJob'
    BY <1>b, <2>1, <2>2 DEF OccurrencesHaveNoJob, Enqueuing
  <2>4. QED
    BY <1>a, <2>1, <2>3 DEF OccurrenceInv
<1>3. ASSUME NEW r \in Requests, RunCreate(r) PROVE OccurrenceInv'
  <2>1. PICK e \in Fresh : req' = [req EXCEPT ![r].pc = "run.enqueue", ![r].exec = e]
    BY <1>3 DEF RunCreate
  <2>2. scheduleId[e] \notin Recurrings
    BY <1>0, <2>1 DEF Fresh, OccurrenceInv, AbsentRowsUnowned
  <2>3. UNCHANGED <<run, scheduleId, job>>
    BY <1>3 DEF RunCreate
  <2>4. OccurrencesHaveNoJob'
    BY <1>0, <1>b, <2>1, <2>2, <2>3 DEF OccurrencesHaveNoJob, Enqueuing, RequestState
  <2>5. QED
    BY <1>a, <2>3, <2>4 DEF OccurrenceInv
<1>4. ASSUME NEW r \in Requests, ScheduleReserve(r) PROVE OccurrenceInv'
  <2>1. PICK e \in Fresh :
          /\ SetStatus({e}, "queued")
          /\ scheduleId' = [scheduleId EXCEPT ![e] = req[r].sched]
          /\ req' = [req EXCEPT ![r].pc = "schedule.enqueue", ![r].exec = e]
    BY <1>4 DEF ScheduleReserve
  <2>2. req[r].sched \in OneShots /\ UNCHANGED <<run, job>>
    BY <1>4, <1>b DEF ScheduleReserve, OccurrencesHaveNoJob
  <2>3. RowsKeepSchedule
    BY <1>0, <2>1, <2>2 DEF RowsKeepSchedule, SetStatus, Fresh
  <2>4. OccurrencesHaveNoJob'
    BY <1>0, <1>b, <2>1, <2>2 DEF OccurrencesHaveNoJob, Enqueuing, RequestState, Fresh
  <2>5. QED
    BY <2>2, <2>3, <2>4, OthersBeginOrEnd, OccurrencesUndisturbed DEF OccurrenceInv
<1>5. ASSUME NEW r \in Requests, Continues(r), ~RunCreate(r), ~ScheduleReserve(r)
      PROVE  OccurrenceInv'
  <2>1. UNCHANGED <<run, scheduleId>>
    BY <1>5 DEF Continues, RunEnqueue, RunEnqueueFailed, CancelWrite, CancelJob,
       CancelRemove, CancelClose, CancelSchedule, ScheduleEnqueue, ScheduleUpsert,
       ScheduleLink, LinkFails, ScheduleFailed, ScheduleRowFailed, DeleteJob, DeleteRemove, DeleteScheduler,
       DeletePending, DeleteWrite, DeleteRows
  <2>2. \E pc \in RequestPcs \ {"run.enqueue", "schedule.enqueue", "schedule.reserve"} :
          req' = [req EXCEPT ![r].pc = pc]
    BY <1>5 DEF Continues, RunEnqueue, RunEnqueueFailed, CancelWrite, CancelJob,
       CancelRemove, CancelClose, CancelSchedule, ScheduleEnqueue, ScheduleUpsert,
       ScheduleLink, LinkFails, ScheduleFailed, ScheduleRowFailed, DeleteJob, DeleteRemove, DeleteScheduler,
       DeletePending, DeleteWrite, DeleteRows, RequestPcs
  <2>3. \A e \in Executions : scheduleId[e] \in Recurrings =>
          job'[e] \notin {"delayed", "waiting"}
    <3>1. CASE RunEnqueue(r) \/ ScheduleEnqueue(r)
      BY <1>0, <1>b, <3>1 DEF RunEnqueue, ScheduleEnqueue, enqueueNow, enqueueDelayed,
         OccurrencesHaveNoJob, Enqueuing
    <3>2. CASE CancelRemove(r) \/ DeleteRemove(r)
      BY <1>0, <1>b, <3>2 DEF CancelRemove, DeleteRemove, removeJob, OccurrencesHaveNoJob
    <3>3. CASE UNCHANGED job
      BY <1>b, <3>3 DEF OccurrencesHaveNoJob
    <3>4. QED
      BY <1>5, <3>1, <3>2, <3>3 DEF Continues, RunEnqueueFailed, CancelWrite, CancelJob,
         CancelClose, CancelSchedule, ScheduleUpsert, ScheduleLink, LinkFails, ScheduleFailed,
         ScheduleRowFailed, DeleteJob, DeleteScheduler, DeletePending, DeleteWrite, DeleteRows
  <2>4. OccurrencesHaveNoJob'
    BY <1>0, <1>b, <2>1, <2>2, <2>3 DEF OccurrencesHaveNoJob, Enqueuing, RequestState
  <2>5. QED
    BY <1>a, <2>1, <2>4 DEF OccurrenceInv
<1>6. QED
  BY <1>1, <1>2, <1>3, <1>4, <1>5 DEF ApiNext

(* The runner works on one row, which it makes when nothing is in flight.    *)
LEMMA RunnerOccurrences ==
  ASSUME RunsOnceInv, OccurrenceInv, RunnerNext
  PROVE  OccurrenceInv'
<1> USE DEF executionVars, workerVars, queueVars
<1>0. /\ status \in [Executions -> EXECUTION_STATES \cup {"absent"}]
      /\ job \in [Executions -> JobStates]
      /\ scheduleId \in [Executions -> Schedules \cup {None}]
      /\ run \in RunState
      /\ run.exec = None <=> run.pc \in {"down", "idle", "occurrence", "createRow"}
      /\ None \notin Executions /\ None \notin Recurrings
  BY ConstantsAssumption DEF RunsOnceInv, TypeOK, TakenAtMostOnce, RunInStep, Schedules
<1>1. ASSUME NEW e \in Executions, TakeJob(e) PROVE OccurrenceInv'
  <2>1. scheduleId[e] \notin Recurrings
    BY <1>1 DEF TakeJob, OccurrenceInv, OccurrencesHaveNoJob
  <2>2. UNCHANGED <<status, scheduleId, req>> /\ run'.exec = e /\ run'.pc = "load"
    BY <1>1 DEF TakeJob, NoRun
  <2>3. OccurrencesHaveNoJob'
    BY <1>0, <1>1, <2>2 DEF TakeJob, OccurrenceInv, OccurrencesHaveNoJob, Enqueuing
  <2>4. QED
    BY <2>1, <2>2, <2>3 DEF OccurrenceInv, AbsentRowsUnowned, OccurrencesAlone, InFlight
<1>2. CASE CreateOccurrenceRow
  <2>1. PICK e \in Fresh :
          /\ SetStatus({e}, "queued")
          /\ scheduleId' = [scheduleId EXCEPT ![e] = run.sched]
          /\ run' = [run EXCEPT !.pc = "load", !.exec = e]
    BY <1>2 DEF CreateOccurrenceRow
  <2>2. UNCHANGED <<job, req>> /\ run.pc = "createRow"
    BY <1>2 DEF CreateOccurrenceRow, RunAt
  <2>3. job[e] = "none" /\ \A r \in Requests : req[r].exec # e
    BY <2>1 DEF RunsOnceInv, TakenAtMostOnce, AbsentRowsUntouched, Fresh
  <2>4. AbsentRowsUnowned' /\ OccurrencesHaveNoJob'
    BY <1>0, <2>1, <2>2, <2>3 DEF OccurrenceInv, AbsentRowsUnowned, OccurrencesHaveNoJob,
       Enqueuing, SetStatus, Fresh
  <2>5. ASSUME NEW f \in Executions, f # e, f \in InFlight' \cup {run'.exec}
        PROVE  scheduleId'[f] \notin Recurrings
    <3>1. f \in InFlight /\ scheduleId'[f] = scheduleId[f]
      BY <1>0, <2>1, <2>5 DEF InFlight, SetStatus, RunState, Fresh
    <3>2. QED
      BY <2>2, <3>1 DEF OccurrenceInv, OccurrencesAlone
  <2>6. run'.pc # "createRow"
    BY <1>0, <2>1 DEF RunState
  <2>7. QED
    BY <2>4, <2>5, <2>6 DEF OccurrenceInv, OccurrencesAlone
<1>3. ASSUME UNCHANGED <<status, scheduleId, req>>, run'.exec \in {run.exec, None},
             run'.pc = "createRow" => InFlight = {},
             \A e \in Executions : job'[e] \in {job[e], "completed"}
      PROVE  OccurrenceInv'
  <2>1. AbsentRowsUnowned' /\ OccurrencesHaveNoJob'
    BY <1>3 DEF OccurrenceInv, AbsentRowsUnowned, OccurrencesHaveNoJob, Enqueuing
  <2>2. OccurrencesAlone'
    BY <1>0, <1>3 DEF OccurrenceInv, OccurrencesAlone, InFlight
  <2>3. QED
    BY <2>1, <2>2 DEF OccurrenceInv
<1>4. ASSUME NEW s \in Recurrings, TakeOccurrence(s) PROVE OccurrenceInv'
  BY <1>0, <1>3, <1>4 DEF TakeOccurrence, RunAt, NoRun
<1>5. CASE StartOccurrence
  BY <1>0, <1>3, <1>5 DEF StartOccurrence, RunAt, NoRun, RunState, WorkerOnly
<1>6. CASE Load \/ CloseSession
  <2>1. UNCHANGED <<status, scheduleId, req>> /\ run'.exec \in {run.exec, None}
        /\ run'.pc # "createRow"
    BY <1>0, <1>6 DEF Load, CloseSession, RunGoto, NoRun, RunState
  <2>2. \A e \in Executions : job'[e] \in {job[e], "completed"}
    BY <1>0, <1>6 DEF Load, CloseSession, CompleteJob
  <2>3. QED
    BY <1>3, <2>1, <2>2
<1>7. CASE Starting \/ Running \/ FinishWrite
  <2>1. /\ run'.exec = run.exec /\ run'.pc # "createRow" /\ UNCHANGED <<scheduleId, job, req>>
        /\ run.exec \in Executions
        /\ \A e \in Executions \ {run.exec} : status'[e] = status[e]
        /\ status'[run.exec] \in EXECUTION_STATES \/ UNCHANGED status
    BY <1>0, <1>7 DEF Starting, Running, FinishWrite, RunAt, RunGoto, RunState, WriteOver,
       SetStatus, EXECUTION_STATES
  <2>2. status[run.exec] # "absent"
    BY <2>1 DEF RunsOnceInv, TakenAtMostOnce, AbsentRowsUntouched
  <2>3. InFlight' \cup {run'.exec} \subseteq InFlight \cup {run.exec}
    BY <2>1 DEF InFlight
  <2>4. OccurrencesAlone'
    BY <2>1, <2>3 DEF OccurrenceInv, OccurrencesAlone
  <2>5. AbsentRowsUnowned' /\ OccurrencesHaveNoJob'
    BY <2>1, <2>2 DEF OccurrenceInv, AbsentRowsUnowned, OccurrencesHaveNoJob, Enqueuing,
       EXECUTION_STATES
  <2>6. QED
    BY <2>4, <2>5 DEF OccurrenceInv
<1>8. CASE \/ ClaimSchedule \/ Preflight \/ OpenSession \/ SessionStarted \/ CheckCancelled
           \/ ExecuteStep \/ StepFailed \/ LastStep \/ Aborted \/ FinishRead \/ NotifyOutcome
           \/ SettleSchedule
  <2>1. UNCHANGED <<status, scheduleId, job, req>>
    BY <1>8 DEF ClaimSchedule, Preflight, OpenSession, SessionStarted, CheckCancelled, ExecuteStep,
       StepFailed, LastStep, Aborted, FinishRead, NotifyOutcome, SettleSchedule, WorkerOnly
  <2>2. run'.exec = run.exec /\ run'.pc # "createRow"
    <3>1. CASE ClaimSchedule \/ Preflight \/ OpenSession \/ SessionStarted
      BY <1>0, <3>1 DEF ClaimSchedule, Preflight, OpenSession, SessionStarted, RunGoto, RunState
    <3>2. CASE CheckCancelled \/ ExecuteStep
      BY <1>0, <3>2 DEF CheckCancelled, ExecuteStep, RunGoto, RunState
    <3>3. CASE StepFailed \/ LastStep \/ Aborted \/ FinishRead
      BY <1>0, <3>3 DEF StepFailed, LastStep, Aborted, FinishRead, RunState
    <3>4. CASE NotifyOutcome \/ SettleSchedule
      BY <1>0, <3>4 DEF NotifyOutcome, SettleSchedule, RunGoto, RunState
    <3>5. QED
      BY <1>8, <3>1, <3>2, <3>3, <3>4
  <2>3. QED
    BY <1>3, <2>1, <2>2
<1>9. QED
  BY <1>1, <1>2, <1>4, <1>5, <1>6, <1>7, <1>8 DEF RunnerNext, TakesJob, RunsOn

(* Those three hold in every state.                                         *)
LEMMA OccurrenceInvariant == Spec => []OccurrenceInv
<1>1. Init => OccurrenceInv
  BY ConstantsAssumption DEF Init, OccurrenceInv, AbsentRowsUnowned, OccurrencesHaveNoJob,
     OccurrencesAlone, Enqueuing, NewRequest, NoRun, InFlight, InFlightStates, Schedules
<1>2. RunsOnceInv /\ OccurrenceInv /\ [Next]_vars => OccurrenceInv'
  <2>1. OccurrenceInv /\ UNCHANGED vars => OccurrenceInv'
    BY DEF vars, OccurrenceInv, AbsentRowsUnowned, OccurrencesHaveNoJob, OccurrencesAlone,
       Enqueuing, InFlight
  <2>2. QED
    BY <2>1, QueueOccurrences, ApiOccurrences, StartupOccurrences, RunnerOccurrences DEF Next
<1>3. QED
  BY <1>1, <1>2, RunsOnceInvariant, PTL DEF Spec

(* At most one row of a recurring schedule is in flight                      *)
(* (queue-consumer.ts:110-116), for any number of schedules, occurrences,    *)
(* requests and crashes.                                                     *)
THEOREM OccurrencesNeverPileUp == Spec => []OneOccurrenceInFlight
<1>1. OccurrenceInv => OneOccurrenceInFlight
  BY DEF OccurrenceInv, OccurrencesAlone, OneOccurrenceInFlight, InFlight
<1>2. QED
  BY <1>1, OccurrenceInvariant, PTL

-----------------------------------------------------------------------------
(* Stopped schedules.                                                      *)

(* A handler that is making a schedule.                                     *)
Creating(r) ==
  req[r].pc \in {"schedule.reserve", "schedule.enqueue", "schedule.upsert", "schedule.link"}

(* A schedule is made by one handler, once, and points at no job meanwhile. *)
CreatedOnce ==
  /\ \A r \in Requests : Creating(r) =>
       /\ req[r].sched \in Schedules
       /\ schedule[req[r].sched] # "absent"
       /\ queueJobId[req[r].sched] = None
       /\ \A q \in Requests : Creating(q) /\ req[q].sched = req[r].sched => q = r
  /\ \A s \in Schedules : schedule[s] = "absent" => queueJobId[s] = None

(* A one-shot schedule has one row, which is what it points at.             *)
Reserved(s, e) == e \in Executions /\ scheduleId[e] = s

OneRowEach ==
  /\ \A s \in OneShots : \A e, f \in Executions : Reserved(s, e) /\ Reserved(s, f) => e = f
  /\ \A s \in OneShots : \A e \in Executions : schedule[s] = "absent" => ~Reserved(s, e)
  /\ \A s \in OneShots : queueJobId[s] # None => Reserved(s, queueJobId[s])
  /\ \A r \in Requests :
       /\ req[r].pc = "schedule.reserve" => \A e \in Executions : ~Reserved(req[r].sched, e)
       /\ req[r].pc = "schedule.upsert" => req[r].sched \in Recurrings
       /\ (\/ req[r].pc = "schedule.enqueue"
           \/ req[r].pc = "schedule.link" /\ req[r].sched \in OneShots) =>
            Reserved(req[r].sched, req[r].exec)
       /\ req[r].pc = "run.enqueue" => scheduleId[req[r].exec] = None
  /\ run.pc \in {"occurrence", "createRow"} => run.sched \in Recurrings

(* A row being run has an active job, unless it is an occurrence's.         *)
TakenIsActive ==
  \A e \in Executions : run.exec = e /\ scheduleId[e] \notin Recurrings => job[e] = "active"

(* Nothing of schedule s will be taken any more.                            *)
Halted(s) ==
  /\ queueJobId[s] # None
  /\ s \in Recurrings => ~scheduler[s] /\ occurrence[s] = "none"
  /\ s \in OneShots => job[queueJobId[s]] \notin {"delayed", "waiting"} /\ run.exec # queueJobId[s]

(* A handler about to answer that a schedule is stopped has halted it.      *)
DeletesHalt ==
  \A r \in Requests : \A s \in req[r].stops :
    /\ req[r].sched = s /\ queueJobId[s] # None
    /\ s \in OneShots => req[r].exec = queueJobId[s]
    /\ req[r].pc \in {"delete.job", "delete.remove"} => s \in OneShots
    /\ req[r].pc = "delete.scheduler" => s \in Recurrings
    /\ req[r].pc = "delete.pending" => s \in Recurrings /\ ~scheduler[s]
    /\ req[r].pc \in {"delete.write", "delete.rows"} => Halted(s)

StoppedIsHalted == \A s \in stopped : Halted(s)

StopInv == CreatedOnce /\ OneRowEach /\ TakenIsActive /\ DeletesHalt /\ StoppedIsHalted

(* The part of the types that matters here.                                 *)
Typed ==
  /\ scheduleId \in [Executions -> Schedules \cup {None}]
  /\ schedule \in [Schedules -> SCHEDULE_STATES \cup {"absent"}]
  /\ queueJobId \in [Schedules -> Executions \cup Recurrings \cup {None}]
  /\ \A s \in OneShots : queueJobId[s] \in Executions \cup {None}
  /\ job \in [Executions -> JobStates]
  /\ scheduler \in [Recurrings -> BOOLEAN]
  /\ occurrence \in [Recurrings -> {"none", "delayed", "waiting"}]
  /\ run \in RunState
  /\ req \in [Requests -> RequestState]
  /\ stopped \subseteq Schedules

(* The types the steps below work with.                                     *)
LEMMA StopsTyped == RunsOnceInv => Typed
BY DEF RunsOnceInv, TypeOK, Typed

(* The queue: no job comes back, and a scheduler that is gone places none.   *)
LEMMA QueueStops ==
  ASSUME RunsOnceInv, StopInv, QueueNext
  PROVE  StopInv'
<1> USE DEF executionVars, scheduleVars, queueVars, workerVars, historyVars
<1>0. Typed
  BY StopsTyped
<1> USE <1>0, ConstantsAssumption DEF Typed, Schedules, StopInv, CreatedOnce, Creating, OneRowEach,
    Reserved, TakenIsActive, DeletesHalt, StoppedIsHalted, Halted
<1>1. ASSUME NEW e \in Executions, Promote(e) PROVE StopInv'
  BY <1>1 DEF Promote
<1>2. ASSUME NEW e \in Executions, StalledJob(e) PROVE StopInv'
  BY <1>2 DEF StalledJob
<1>3. ASSUME NEW s \in Recurrings, OccurrenceDue(s) PROVE StopInv'
  BY <1>3 DEF OccurrenceDue
<1>4. ASSUME NEW s \in OneShots, TimePasses(s) PROVE StopInv'
  BY <1>4 DEF TimePasses
<1>5. QED
  BY <1>1, <1>2, <1>3, <1>4 DEF QueueNext

(* The run going on, or ending, takes no job and makes no row.              *)
LEMMA RunStops ==
  ASSUME RunsOnceInv, StopInv,
         UNCHANGED <<scheduleId, queueJobId, scheduler, req, stopped>>,
         \A s \in Recurrings : occurrence[s] = "none" => occurrence'[s] = "none",
         \A s \in Schedules : schedule'[s] = "absent" => schedule[s] = "absent",
         run'.exec \in {run.exec, None},
         run'.pc \in {"occurrence", "createRow"} => run'.sched \in Recurrings,
         \A e \in Executions : job'[e] = job[e] \/ (job'[e] = "completed" /\ run'.exec = None)
  PROVE  StopInv'
<1>0. Typed /\ None \notin Executions
  BY StopsTyped, ConstantsAssumption
<1>1. CreatedOnce'
  BY <1>0 DEF StopInv, CreatedOnce, Creating, Typed
<1>2. OneRowEach'
  BY <1>0 DEF StopInv, OneRowEach, CreatedOnce, Creating, Reserved, Schedules
<1>3. TakenIsActive'
  BY <1>0 DEF StopInv, TakenIsActive
<1>4. ASSUME NEW s \in Schedules, Halted(s) PROVE Halted(s)'
  BY <1>0, <1>4 DEF Halted, Typed
<1>5. DeletesHalt' /\ StoppedIsHalted'
  BY <1>0, <1>4 DEF StopInv, DeletesHalt, StoppedIsHalted, Typed, RequestState
<1>6. QED
  BY <1>1, <1>2, <1>3, <1>5 DEF StopInv

(* The startup closes rows and schedules.                                   *)
LEMMA StartupStops ==
  ASSUME RunsOnceInv, StopInv, StartupNext
  PROVE  StopInv'
<1> USE DEF executionVars, scheduleVars, queueVars, workerVars, historyVars, BootOnly
<1>0. Typed
  BY StopsTyped
<1>1. UNCHANGED <<scheduleId, queueJobId, job, scheduler, occurrence, req, stopped>>
  BY DEF StartupNext, Reconciles, WorkerCrash, WorkerStart, ReadOrphans, FailOrphan, ReadMissed,
     FailMissed, FailMissedRows, BootDone
<1>2. UNCHANGED run \/ (run'.exec = None /\ run'.pc \notin {"occurrence", "createRow"})
  <2>1. CASE WorkerCrash \/ WorkerStart
    BY <2>1 DEF WorkerCrash, WorkerStart, NoRun
  <2>2. CASE Reconciles
    BY <2>2 DEF Reconciles, ReadOrphans, FailOrphan, ReadMissed, FailMissed, FailMissedRows,
       BootDone
  <2>3. QED
    BY <2>1, <2>2 DEF StartupNext
<1>3. ASSUME NEW t \in Schedules, schedule'[t] = "absent" PROVE schedule[t] = "absent"
  <2>1. ASSUME NEW s \in OneShots, FailMissed(s) PROVE schedule[t] = "absent"
    <3>1. schedule' = [schedule EXCEPT ![s] = "failed"]
      BY <2>1 DEF FailMissed
    <3>2. QED
      BY <1>0, <1>3, <3>1 DEF Typed
  <2>2. CASE UNCHANGED schedule
    BY <1>3, <2>2
  <2>3. QED
    BY <2>1, <2>2 DEF StartupNext, Reconciles, WorkerCrash, WorkerStart, ReadOrphans, FailOrphan,
       ReadMissed, FailMissedRows, BootDone
<1>4. QED
  BY <1>1, <1>2, <1>3, RunStops DEF StopInv, OneRowEach

(* The runner takes a job that waits, which no halted schedule has.         *)
LEMMA RunnerStops ==
  ASSUME RunsOnceInv, OccurrenceInv, StopInv, RunnerNext
  PROVE  StopInv'
<1> USE DEF executionVars, scheduleVars, queueVars, workerVars, historyVars
<1>0. /\ Typed
      /\ run.exec = None <=> run.pc \in {"down", "idle", "occurrence", "createRow"}
      /\ None \notin Executions /\ None \notin Recurrings /\ OneShots \cap Recurrings = {}
  BY StopsTyped, ConstantsAssumption DEF RunsOnceInv, TakenAtMostOnce, RunInStep, Schedules
<1>1. ASSUME NEW e \in Executions, TakeJob(e) PROVE StopInv'
  <2>1. /\ UNCHANGED <<schedule, scheduleId, queueJobId, scheduler, occurrence, req, stopped>>
        /\ run'.exec = e /\ run'.pc = "load"
        /\ job[e] = "waiting" /\ job' = [job EXCEPT ![e] = "active"]
    BY <1>1 DEF TakeJob, NoRun
  <2>2. CreatedOnce' /\ OneRowEach'
    BY <1>0, <2>1 DEF StopInv, CreatedOnce, Creating, OneRowEach, Reserved
  <2>3. TakenIsActive'
    BY <1>0, <2>1 DEF TakenIsActive, Typed
  <2>4. ASSUME NEW s \in Schedules, Halted(s) PROVE Halted(s)'
    BY <1>0, <2>1, <2>4 DEF Halted, Typed
  <2>5. DeletesHalt' /\ StoppedIsHalted'
    BY <1>0, <2>1, <2>4 DEF StopInv, DeletesHalt, StoppedIsHalted, Typed, RequestState
  <2>6. QED
    BY <2>2, <2>3, <2>5 DEF StopInv
<1>2. ASSUME NEW s \in Recurrings, TakeOccurrence(s) PROVE StopInv'
  <2>1. /\ UNCHANGED <<schedule, scheduleId, queueJobId, scheduler, job, req, stopped>>
        /\ run'.exec = None /\ run'.sched = s
        /\ occurrence[s] # "none" /\ \A t \in Recurrings \ {s} : occurrence'[t] = occurrence[t]
    BY <1>0, <1>2 DEF TakeOccurrence, NoRun, Typed
  <2>2. QED
    BY <2>1, RunStops
<1>3. CASE CreateOccurrenceRow
  <2>1. PICK e \in Fresh :
          /\ scheduleId' = [scheduleId EXCEPT ![e] = run.sched]
          /\ run' = [run EXCEPT !.pc = "load", !.exec = e]
    BY <1>3 DEF CreateOccurrenceRow
  <2>2. /\ UNCHANGED <<schedule, queueJobId, job, scheduler, occurrence, req, stopped>>
        /\ run.sched \in Recurrings
    BY <1>3 DEF CreateOccurrenceRow, RunAt, StopInv, OneRowEach
  <2>3. /\ \A r \in Requests : req[r].exec # e
        /\ \A s \in Schedules : queueJobId[s] # e
        /\ run'.exec = e /\ run'.pc = "load"
    BY <1>0, <2>1 DEF RunsOnceInv, TakenAtMostOnce, AbsentRowsUntouched, Fresh, Typed, RunState
  <2>4. CreatedOnce'
    BY <2>2 DEF StopInv, CreatedOnce, Creating
  <2>5. OneRowEach'
    BY <1>0, <2>1, <2>2, <2>3 DEF StopInv, OneRowEach, CreatedOnce, Creating, Reserved, Typed,
       Fresh,
       OccurrenceInv, OccurrencesHaveNoJob, Schedules
  <2>6. TakenIsActive'
    BY <1>0, <2>1, <2>2, <2>3 DEF TakenIsActive, Typed, Fresh
  <2>7. ASSUME NEW s \in Schedules, Halted(s) PROVE Halted(s)'
    BY <2>2, <2>3, <2>7 DEF Halted
  <2>8. DeletesHalt' /\ StoppedIsHalted'
    BY <1>0, <2>2, <2>7 DEF StopInv, DeletesHalt, StoppedIsHalted, Typed, RequestState
  <2>9. QED
    BY <2>4, <2>5, <2>6, <2>8 DEF StopInv
<1>4. CASE StartOccurrence
  BY <1>0, <1>4, RunStops DEF StartOccurrence, RunAt, NoRun, WorkerOnly, Typed, RunState,
     StopInv, OneRowEach
<1>5. CASE Load \/ CloseSession
  <2>1. /\ UNCHANGED <<schedule, scheduleId, queueJobId, scheduler, occurrence, req, stopped>>
        /\ run'.pc \notin {"occurrence", "createRow"}
        /\ \/ run'.exec = run.exec /\ UNCHANGED job
           \/ run'.exec = None /\ CompleteJob
    BY <1>0, <1>5 DEF Load, CloseSession, RunGoto, NoRun, Typed, RunState
  <2>2. QED
    BY <2>1, RunStops DEF CompleteJob
<1>6. CASE \/ Starting \/ ClaimSchedule \/ Preflight \/ OpenSession \/ SessionStarted \/ Running
           \/ CheckCancelled \/ ExecuteStep \/ StepFailed \/ LastStep \/ Aborted \/ FinishRead
           \/ FinishWrite \/ NotifyOutcome \/ SettleSchedule
  <2>1. UNCHANGED <<scheduleId, queueJobId, job, scheduler, occurrence, req, stopped>>
    BY <1>6 DEF Starting, ClaimSchedule, Preflight, OpenSession, SessionStarted, Running,
       CheckCancelled, ExecuteStep, StepFailed, LastStep, Aborted, FinishRead, FinishWrite,
       NotifyOutcome, SettleSchedule, WorkerOnly, WriteOver
  <2>0. run \in RunState
    BY <1>0 DEF Typed
  <2>2. run'.exec = run.exec /\ run'.pc \notin {"occurrence", "createRow"}
    <3>1. CASE Starting \/ ClaimSchedule \/ Preflight \/ OpenSession
      BY <2>0, <3>1 DEF Starting, ClaimSchedule, Preflight, OpenSession, RunGoto, RunState
    <3>2. CASE SessionStarted \/ Running \/ CheckCancelled \/ ExecuteStep
      BY <2>0, <3>2 DEF SessionStarted, Running, CheckCancelled, ExecuteStep, RunGoto, RunState
    <3>3. CASE StepFailed \/ LastStep \/ Aborted \/ FinishRead
      BY <2>0, <3>3 DEF StepFailed, LastStep, Aborted, FinishRead, RunState
    <3>4. CASE FinishWrite \/ NotifyOutcome \/ SettleSchedule
      BY <2>0, <3>4 DEF FinishWrite, NotifyOutcome, SettleSchedule, RunGoto, RunState
    <3>5. QED
      BY <1>6, <3>1, <3>2, <3>3, <3>4
  <2>3. \A s \in Schedules : schedule'[s] = "absent" => schedule[s] = "absent"
    <3>1. CASE ClaimSchedule \/ SettleSchedule
      BY <1>0, <3>1 DEF ClaimSchedule, SettleSchedule, Typed
    <3>2. CASE UNCHANGED schedule
      BY <3>2
    <3>3. QED
      BY <1>6, <3>1, <3>2 DEF Starting, Preflight, OpenSession, SessionStarted, Running,
         CheckCancelled, ExecuteStep, StepFailed, LastStep, Aborted, FinishRead, FinishWrite,
         NotifyOutcome, WorkerOnly
  <2>4. QED
    BY <2>1, <2>2, <2>3, RunStops
<1>7. QED
  BY <1>1, <1>2, <1>3, <1>4, <1>5, <1>6 DEF RunnerNext, TakesJob, RunsOn

(* The API: a handler gives a job to the schedule it is making only, before *)
(* it links the two, and a deletion says so only once the schedule is halted. *)
LEMMA ApiStops ==
  ASSUME RunsOnceInv, OccurrenceInv, StopInv, ApiNext
  PROVE  StopInv'
<1> USE DEF executionVars, scheduleVars, queueVars, workerVars, historyVars, Goto, At, Begins
<1>0. Typed
  BY StopsTyped
<1>a. /\ AbsentRowsUntouched /\ EnqueuedOnce /\ RemovesSeenJobs
      /\ AbsentRowsUnowned /\ OccurrencesHaveNoJob
  BY DEF RunsOnceInv, TakenAtMostOnce, OccurrenceInv
<1> USE <1>0, ConstantsAssumption DEF Typed, Schedules, StopInv, CreatedOnce, Creating, OneRowEach,
    Reserved, TakenIsActive, DeletesHalt, StoppedIsHalted, Halted, RequestState
<1>1. CASE ApiCrash
  BY <1>1 DEF ApiCrash
<1>2. ASSUME NEW r \in Requests, RunCheck(r) PROVE StopInv'
  BY <1>2 DEF RunCheck
<1>3. ASSUME NEW r \in Requests, NEW e \in Executions, CancelRead(r, e) PROVE StopInv'
  BY <1>3 DEF CancelRead
<1>4. ASSUME NEW r \in Requests, NEW s \in Schedules, ScheduleCreate(r, s) PROVE StopInv'
  BY <1>4 DEF ScheduleCreate
<1>5. ASSUME NEW r \in Requests, NEW s \in Schedules, DeleteRead(r, s) PROVE StopInv'
  <2>1. /\ UNCHANGED <<executionVars, scheduleVars, clock, queueVars, workerVars, boot,
                       historyVars>>
        /\ \A q \in Requests : q # r => req'[q] = req[q]
    BY <1>5 DEF DeleteRead
  <2>2. /\ req'[r].sched = s /\ req'[r].stops = IF queueJobId[s] # None THEN {s} ELSE {}
        /\ req'[r].exec = IF s \in OneShots THEN queueJobId[s] ELSE None
        /\ s \in Recurrings => req'[r].pc = "delete.scheduler"
        /\ s \in OneShots => req'[r].pc \in {"delete.job", "delete.write"}
        /\ queueJobId[s] # None => req'[r].pc # "delete.write"
    BY <1>5 DEF DeleteRead
  <2>3. CreatedOnce'
    <3>1. \A q \in Requests : Creating(q)' => Creating(q) /\ req'[q] = req[q]
      BY <2>1, <2>2
    <3>2. QED
      BY <2>1, <3>1
  <2>4. OneRowEach' /\ TakenIsActive' /\ StoppedIsHalted'
    BY <2>1, <2>2
  <2>5. DeletesHalt'
    BY <2>1, <2>2
  <2>6. QED
    BY <2>3, <2>4, <2>5
<1>6. ASSUME NEW r \in Requests, RunCreate(r) PROVE StopInv'
  BY <1>a, <1>6 DEF RunCreate, Fresh, SetStatus, AbsentRowsUntouched, AbsentRowsUnowned, Enqueuing
<1>7. ASSUME NEW r \in Requests, RunEnqueueFailed(r) PROVE StopInv'
  BY <1>a, <1>7 DEF RunEnqueueFailed, SetStatus, AbsentRowsUntouched, AbsentRowsUnowned, Enqueuing
<1>8. ASSUME NEW r \in Requests, CancelWrite(r) PROVE StopInv'
  BY <1>a, <1>8 DEF CancelWrite, SetStatus, AbsentRowsUntouched, AbsentRowsUnowned, Enqueuing
<1>9. ASSUME NEW r \in Requests, CancelJob(r) PROVE StopInv'
  BY <1>a, <1>9 DEF CancelJob, CancellableJob, AbsentRowsUntouched, AbsentRowsUnowned, Enqueuing
<1>10. ASSUME NEW r \in Requests, CancelRemove(r) PROVE StopInv'
  BY <1>a, <1>10 DEF CancelRemove, RemovableJob, removeJob, AbsentRowsUntouched,
     AbsentRowsUnowned, Enqueuing
<1>11. ASSUME NEW r \in Requests, CancelClose(r) PROVE StopInv'
  BY <1>a, <1>11 DEF CancelClose, AbsentRowsUntouched, AbsentRowsUnowned, Enqueuing
<1>12. ASSUME NEW r \in Requests, CancelSchedule(r) PROVE StopInv'
  BY <1>a, <1>12 DEF CancelSchedule, AbsentRowsUntouched, AbsentRowsUnowned, Enqueuing
<1>13. ASSUME NEW r \in Requests, ScheduleReserve(r) PROVE StopInv'
  BY <1>a, <1>13 DEF ScheduleReserve, Fresh, SetStatus, AbsentRowsUntouched, AbsentRowsUnowned,
     Enqueuing
<1>14. ASSUME NEW r \in Requests, ScheduleLink(r) PROVE StopInv'
  <2>1. /\ UNCHANGED <<scheduleId, schedule, job, scheduler, occurrence, run, stopped>>
        /\ req[r].pc = "schedule.link"
        /\ \E pc \in {"done", "schedule.failed"} : req' = [req EXCEPT ![r].pc = pc]
        /\ \/ queueJobId' = queueJobId
           \/ queueJobId' = [queueJobId EXCEPT ![req[r].sched] = QueueId(r)]
    BY <1>14 DEF ScheduleLink, LinkFails, PointsAt
  <2>2. req[r].sched \in Schedules /\ queueJobId[req[r].sched] = None
    BY <2>1
  <2>3. /\ \A q \in Requests : (/\ req'[q].exec = req[q].exec /\ req'[q].sched = req[q].sched
                              /\ req'[q].stops = req[q].stops
                              /\ (q # r => req'[q] = req[q]))
        /\ req'[r].pc \in {"done", "schedule.failed"}
    BY <2>1
  <2>4. \A s \in Schedules : queueJobId'[s] = queueJobId[s] \/ (s = req[r].sched /\ queueJobId'[s] = QueueId(r))
    BY <2>1
  <2>5. CreatedOnce'
    <3>1. ASSUME NEW q \in Requests, Creating(q)' PROVE Creating(q) /\ q # r
      <4>1. q # r
        BY <2>3, <3>1
      <4>2. QED
        BY <2>3, <3>1, <4>1
    <3>2. \A q \in Requests : Creating(q)' => req[q].sched # req[r].sched
      BY <2>1, <3>1
    <3>3. QED
      BY <2>1, <2>2, <2>3, <2>4, <3>1, <3>2
  <2>6. OneRowEach'
    <3>1. req[r].sched \in OneShots => Reserved(req[r].sched, QueueId(r))
      BY <2>1 DEF QueueId
    <3>2. QED
      BY <2>1, <2>2, <2>3, <2>4, <3>1
  <2>7. \A s \in Schedules : queueJobId[s] # None => queueJobId'[s] = queueJobId[s]
    BY <2>2, <2>4
  <2>8. TakenIsActive' /\ StoppedIsHalted'
    BY <2>1, <2>7
  <2>9. DeletesHalt'
    BY <2>1, <2>3, <2>7
  <2>10. QED
    BY <2>5, <2>6, <2>8, <2>9
<1>15. ASSUME NEW r \in Requests, ScheduleFailed(r) PROVE StopInv'
  BY <1>a, <1>15 DEF ScheduleFailed, AbsentRowsUntouched, AbsentRowsUnowned, Enqueuing
<1>16. ASSUME NEW r \in Requests, ScheduleRowFailed(r) PROVE StopInv'
  BY <1>a, <1>16 DEF ScheduleRowFailed, SetStatus, AbsentRowsUntouched, AbsentRowsUnowned,
     Enqueuing
<1>17. ASSUME NEW r \in Requests, DeleteJob(r) PROVE StopInv'
  BY <1>a, <1>17 DEF DeleteJob, CancellableJob, AbsentRowsUntouched, AbsentRowsUnowned, Enqueuing
<1>18. ASSUME NEW r \in Requests, DeleteScheduler(r) PROVE StopInv'
  BY <1>a, <1>18 DEF DeleteScheduler, removeJobScheduler, AbsentRowsUntouched,
     AbsentRowsUnowned, Enqueuing
<1>19. ASSUME NEW r \in Requests, DeletePending(r) PROVE StopInv'
  BY <1>a, <1>19 DEF DeletePending, removePending, AbsentRowsUntouched, AbsentRowsUnowned,
     Enqueuing
<1>20. ASSUME NEW r \in Requests, DeleteWrite(r) PROVE StopInv'
  BY <1>a, <1>20 DEF DeleteWrite, AbsentRowsUntouched, AbsentRowsUnowned, Enqueuing
<1>21. ASSUME NEW r \in Requests, DeleteRows(r) PROVE StopInv'
  BY <1>a, <1>21 DEF DeleteRows, SetStatus, AbsentRowsUntouched, AbsentRowsUnowned, Enqueuing
<1>22. ASSUME NEW r \in Requests, RunEnqueue(r) PROVE StopInv'
  <2>1. CASE enqueueNow(req[r].exec) /\ Goto(r, "done")
    BY <1>a, <1>22, <2>1 DEF RunEnqueue, enqueueNow, AbsentRowsUntouched, EnqueuedOnce, Enqueuing
  <2>2. CASE Goto(r, "run.failed") /\ UNCHANGED job
    BY <1>a, <1>22, <2>2 DEF RunEnqueue, AbsentRowsUntouched, EnqueuedOnce, Enqueuing
  <2>3. QED
    BY <1>22, <2>1, <2>2 DEF RunEnqueue, RemovableJob
<1>23. ASSUME NEW r \in Requests, ScheduleEnqueue(r) PROVE StopInv'
  <2>1. CASE enqueueDelayed(req[r].exec) /\ Goto(r, "schedule.link")
    BY <1>a, <1>23, <2>1 DEF ScheduleEnqueue, enqueueDelayed, AbsentRowsUntouched,
       EnqueuedOnce, Enqueuing
  <2>2. CASE Goto(r, "schedule.failed") /\ UNCHANGED job
    BY <1>a, <1>23, <2>2 DEF ScheduleEnqueue, AbsentRowsUntouched, EnqueuedOnce, Enqueuing
  <2>3. QED
    BY <1>23, <2>1, <2>2 DEF ScheduleEnqueue, RemovableJob
<1>24. ASSUME NEW r \in Requests, ScheduleUpsert(r) PROVE StopInv'
  <2>1. CASE upsertRecurring(req[r].sched) /\ Goto(r, "schedule.link")
    BY <1>a, <1>24, <2>1 DEF ScheduleUpsert, upsertRecurring, AbsentRowsUntouched,
       EnqueuedOnce, Enqueuing
  <2>2. CASE Goto(r, "schedule.failed") /\ UNCHANGED <<scheduler, occurrence>>
    BY <1>a, <1>24, <2>2 DEF ScheduleUpsert, AbsentRowsUntouched, EnqueuedOnce, Enqueuing
  <2>3. QED
    BY <1>24, <2>1, <2>2 DEF ScheduleUpsert, RemovableJob
<1>25. ASSUME NEW r \in Requests, DeleteRemove(r) PROVE StopInv'
  <2>1. CASE RemovableJob(req[r].exec) /\ removeJob(req[r].exec) /\ Goto(r, "delete.write")
    BY <1>a, <1>25, <2>1 DEF DeleteRemove, RemovableJob, removeJob, AbsentRowsUntouched,
       EnqueuedOnce, Enqueuing
  <2>2. CASE UNCHANGED job /\ Goto(r, "done")
    BY <1>a, <1>25, <2>2 DEF DeleteRemove, AbsentRowsUntouched, EnqueuedOnce, Enqueuing
  <2>3. QED
    BY <1>25, <2>1, <2>2 DEF DeleteRemove, RemovableJob
<1>26. QED
  BY <1>1, <1>2, <1>3, <1>4, <1>5, <1>6, <1>7, <1>8, <1>9, <1>10, <1>11, <1>12, <1>13, <1>14,
     <1>15, <1>16, <1>17, <1>18, <1>19, <1>20, <1>21, <1>22, <1>23, <1>24, <1>25 DEF ApiNext, Starts, Continues

(* A stopped schedule has halted, in every state.                            *)
LEMMA StopInvariant == Spec => []StopInv
<1>1. Init => StopInv
  BY ConstantsAssumption DEF Init, StopInv, CreatedOnce, Creating, OneRowEach, Reserved,
     TakenIsActive, DeletesHalt, StoppedIsHalted, NewRequest, NoRun, Schedules
<1>2. RunsOnceInv /\ OccurrenceInv /\ StopInv /\ [Next]_vars => StopInv'
  <2>1. StopInv /\ UNCHANGED vars => StopInv'
    BY DEF vars, StopInv, CreatedOnce, Creating, OneRowEach, Reserved, TakenIsActive, DeletesHalt,
       StoppedIsHalted, Halted
  <2>2. QED
    BY <2>1, QueueStops, ApiStops, StartupStops, RunnerStops DEF Next
<1>3. QED
  BY <1>1, <1>2, RunsOnceInvariant, OccurrenceInvariant, PTL DEF Spec

(* The job of a schedule that was stopped is not there to be taken.         *)
LEMMA NoStoppedJob ==
  ASSUME RunsOnceInv, OccurrenceInv, StopInv, NEW e \in Executions, scheduleId[e] \in stopped,
         job[e] = "waiting" \/ (run.exec = e /\ scheduleId[e] \in OneShots)
  PROVE  FALSE
<1>1. scheduleId[e] \in OneShots
  BY DEF OccurrenceInv, OccurrencesHaveNoJob, RunsOnceInv, TypeOK, Schedules
<1>2. Halted(scheduleId[e])
  BY DEF StopInv, StoppedIsHalted
<1>3. queueJobId[scheduleId[e]] = e
  BY <1>1, <1>2 DEF Halted, StopInv, OneRowEach, Reserved
<1>4. QED
  BY <1>1, <1>2, <1>3 DEF Halted

(* No job of a schedule a user was told is stopped is taken: neither its one *)
(* job nor the occurrence its scheduler keeps ahead (queue.ts:65-84), for    *)
(* any interleaving of handlers, worker, queue and crashes.                  *)
THEOREM StoppedSchedulesStay == Spec => StoppedSchedulesStayStopped
<1> DEFINE Stays == run.pc = "idle" /\ run'.pc \in {"load", "occurrence"} => run'.sched \notin stopped
<1>1. RunsOnceInv /\ OccurrenceInv /\ StopInv /\ [Next]_vars => [Stays]_vars
  <2> SUFFICES ASSUME RunsOnceInv, OccurrenceInv, StopInv, Next,
                      run.pc = "idle", run'.pc \in {"load", "occurrence"}
               PROVE  run'.sched \notin stopped
    OBVIOUS
  <2>1. ASSUME NEW e \in Executions, TakeJob(e) PROVE run'.sched \notin stopped
    <3>1. job[e] = "waiting" /\ run'.sched = scheduleId[e]
      BY <2>1 DEF TakeJob, NoRun
    <3>2. QED
      BY <3>1, NoStoppedJob
  <2>2. ASSUME NEW s \in Recurrings, TakeOccurrence(s) PROVE run'.sched \notin stopped
    <3>1. occurrence[s] = "waiting" /\ run'.sched = s
      BY <2>2 DEF TakeOccurrence, NoRun
    <3>2. QED
      BY <3>1 DEF StopInv, StoppedIsHalted, Halted
  <2>3. CASE RunsOn
    BY <2>3 DEF RunsOn, RunAt, StartOccurrence, CreateOccurrenceRow, Load, Starting, ClaimSchedule,
       Preflight, OpenSession, SessionStarted, Running, CheckCancelled, ExecuteStep, StepFailed,
       LastStep, Aborted, FinishRead, FinishWrite, NotifyOutcome, SettleSchedule, CloseSession
  <2>4. CASE StartupNext
    BY <2>4 DEF StartupNext, WorkerCrash, WorkerStart, NoRun, Reconciles, BootOnly, workerVars,
       ReadOrphans, FailOrphan, ReadMissed, FailMissed, FailMissedRows, BootDone
  <2>5. CASE QueueNext \/ ApiNext
    BY <2>5, QueueAndApiLeaveRun
  <2>6. QED
    BY <2>1, <2>2, <2>3, <2>4, <2>5 DEF Next, RunnerNext, TakesJob
<1>2. QED
  BY <1>1, RunsOnceInvariant, OccurrenceInvariant, StopInvariant, PTL DEF Spec,
     StoppedSchedulesStayStopped

(* The run of a one-shot schedule that was stopped performs no step          *)
(* (schedules.ts:181-201): when the answer went out its job was gone and no  *)
(* run was on it.                                                            *)
THEOREM StoppedRunsAreDone == Spec => StoppedRunsDoNothing
<1> DEFINE Quiet == \A e \in Executions :
              acted'[e] # acted[e] /\ scheduleId[e] \in OneShots => scheduleId[e] \notin stopped
<1>1. RunsOnceInv /\ OccurrenceInv /\ StopInv /\ [Next]_vars => [Quiet]_vars
  <2> SUFFICES ASSUME RunsOnceInv, OccurrenceInv, StopInv, Next PROVE Quiet
    OBVIOUS
  <2>1. CASE acted' = acted
    BY <2>1
  <2>2. CASE ExecuteStep /\ acted' = [acted EXCEPT ![run.exec] = @ + 1]
    <3>1. acted \in [Executions -> Nat]
      BY DEF RunsOnceInv, TypeOK
    <3>2. ASSUME NEW e \in Executions, acted'[e] # acted[e] PROVE run.exec = e
      BY <2>2, <3>1, <3>2
    <3>3. QED
      BY <3>2, NoStoppedJob
  <2>3. QED
    BY <2>1, <2>2, OnlyStepsAct, StepActs
<1>2. QED
  BY <1>1, RunsOnceInvariant, OccurrenceInvariant, StopInvariant, PTL DEF Spec,
     StoppedRunsDoNothing

-----------------------------------------------------------------------------
(* Refused schedules.                                                      *)

(* A request has no execution before it has made or found one, and the row  *)
(* a handler is about to link has a job and belongs to a one-shot schedule. *)
LinksOwnRow(r) ==
  /\ req[r].pc \in {"new", "run.create", "schedule.reserve", "schedule.upsert"} => req[r].exec = None
  /\ req[r].exec # None =>
       /\ req[r].pc = "schedule.link" => job[req[r].exec] # "none"
       /\ req[r].pc \in {"schedule.enqueue", "schedule.link", "schedule.failed", "schedule.rowFailed"}
            => req[r].sched \in OneShots

(* What was disowned has a job.                                             *)
LinksJobs ==
  /\ \A e \in Executions \cap disowned : job[e] # "none"
  /\ \A r \in Requests : LinksOwnRow(r)

(* Only a handler refuses a schedule.                                       *)
LEMMA RefusedByApi ==
  ASSUME QueueNext \/ RunnerNext \/ StartupNext
  PROVE  UNCHANGED <<req, disowned>>
<1> USE DEF executionVars, scheduleVars, queueVars, workerVars, historyVars
<1>1. CASE QueueNext
  BY <1>1 DEF QueueNext, Promote, StalledJob, OccurrenceDue, TimePasses
<1>2. CASE RunnerNext
  BY <1>2 DEF RunnerNext, TakesJob, TakeJob, TakeOccurrence, RunsOn, StartOccurrence,
     CreateOccurrenceRow, Load, Starting, ClaimSchedule, Preflight, OpenSession, SessionStarted,
     Running, WriteOver, CheckCancelled, ExecuteStep, StepFailed, LastStep, Aborted, FinishRead,
     FinishWrite, NotifyOutcome, SettleSchedule, CloseSession, WorkerOnly
<1>3. CASE StartupNext
  BY <1>3 DEF StartupNext, WorkerCrash, WorkerStart, Reconciles, ReadOrphans, FailOrphan,
     ReadMissed, FailMissed, FailMissedRows, BootDone, BootOnly
<1>4. QED
  BY <1>1, <1>2, <1>3

LEMMA OthersLinks ==
  ASSUME RunsOnceInv, LinksJobs, QueueNext \/ RunnerNext \/ StartupNext
  PROVE  LinksJobs'
<1> USE DEF executionVars, scheduleVars, queueVars, workerVars, historyVars
<1>0. job \in [Executions -> JobStates]
  BY DEF RunsOnceInv, TypeOK
<1>1. UNCHANGED <<req, disowned>>
  BY RefusedByApi
<1>2. \A e \in Executions : job[e] # "none" => job'[e] # "none"
  <2>1. CASE QueueNext
    BY <1>0, <2>1 DEF QueueNext, Promote, StalledJob, OccurrenceDue, TimePasses
  <2>2. CASE RunnerNext
    BY <1>0, <2>2 DEF RunnerNext, TakesJob, TakeJob, TakeOccurrence, RunsOn, StartOccurrence,
       CreateOccurrenceRow, Load, Starting, ClaimSchedule, Preflight, OpenSession, SessionStarted,
       Running, WriteOver, CheckCancelled, ExecuteStep, StepFailed, LastStep, Aborted, FinishRead,
       FinishWrite, NotifyOutcome, SettleSchedule, CloseSession, CompleteJob, WorkerOnly
  <2>3. CASE StartupNext
    BY <2>3 DEF StartupNext, WorkerCrash, WorkerStart, Reconciles, ReadOrphans, FailOrphan,
       ReadMissed, FailMissed, FailMissedRows, BootDone, BootOnly
  <2>4. QED
    BY <2>1, <2>2, <2>3
<1>3. QED
  BY <1>1, <1>2 DEF LinksJobs, LinksOwnRow, RunsOnceInv, TypeOK, RequestState

(* The API: a handler links what it has enqueued.                           *)
LEMMA ApiLinks ==
  ASSUME RunsOnceInv, OccurrenceInv, LinksJobs, ApiNext
  PROVE  LinksJobs'
<1> USE DEF executionVars, scheduleVars, queueVars, workerVars, historyVars, Goto, At, Begins
<1>0. /\ req \in [Requests -> RequestState] /\ job \in [Executions -> JobStates]
      /\ None \notin Executions /\ None \notin Schedules /\ Executions \cap Schedules = {}
      /\ \A q \in Requests : req[q].pc = "schedule.reserve" => req[q].sched \in OneShots
  BY ConstantsAssumption DEF RunsOnceInv, TypeOK, OccurrenceInv, OccurrencesHaveNoJob
<1>1. CASE ApiCrash
  BY <1>0, <1>1 DEF ApiCrash, LinksJobs, LinksOwnRow, RequestState
<1>2. ASSUME NEW r \in Requests, Starts(r) \/ Continues(r) PROVE LinksJobs'
  <2>1. \A q \in Requests : q # r => req'[q] = req[q]
    BY <1>0, <1>2 DEF Starts, RunCheck, CancelRead, ScheduleCreate, DeleteRead, Continues, RunCreate,
       RunEnqueue, RunEnqueueFailed, CancelWrite, CancelJob, CancelRemove, CancelClose,
       CancelSchedule, ScheduleReserve, ScheduleEnqueue, ScheduleUpsert, ScheduleLink, LinkFails,
       ScheduleFailed, ScheduleRowFailed, DeleteJob, DeleteRemove, DeleteScheduler, DeletePending,
       DeleteWrite, DeleteRows
  <2>2. \A e \in Executions : job[e] # "none" => job'[e] # "none"
    <3>1. CASE RunEnqueue(r) \/ ScheduleEnqueue(r)
      BY <1>0, <3>1 DEF RunEnqueue, ScheduleEnqueue, enqueueNow, enqueueDelayed
    <3>2. CASE CancelRemove(r) \/ DeleteRemove(r)
      BY <1>0, <3>2 DEF CancelRemove, DeleteRemove, removeJob
    <3>3. CASE job' = job
      BY <3>3
    <3>4. QED
      BY <1>2, <3>1, <3>2, <3>3 DEF Starts, RunCheck, CancelRead, ScheduleCreate, DeleteRead, Continues,
         RunCreate, RunEnqueueFailed, CancelWrite, CancelJob, CancelClose, CancelSchedule,
         ScheduleReserve, ScheduleUpsert, ScheduleLink, ScheduleFailed, ScheduleRowFailed, DeleteJob,
         DeleteScheduler, DeletePending, DeleteWrite, DeleteRows
  <2>3. \A e \in Executions \cap disowned' : e \in disowned \/ job[e] # "none"
    <3>1. CASE ScheduleLink(r)
      <4>1. QueueId(r) \in Executions => QueueId(r) = req[r].exec
        BY <1>0 DEF QueueId, RequestState, Schedules
      <4>2. disowned' \subseteq disowned \cup {QueueId(r)} /\ req[r].pc = "schedule.link"
        BY <3>1 DEF ScheduleLink, LinkFails
      <4>3. QED
        BY <1>0, <4>1, <4>2 DEF LinksJobs, LinksOwnRow
    <3>2. CASE disowned' = disowned
      BY <3>2
    <3>3. QED
      BY <1>2, <3>1, <3>2 DEF Starts, RunCheck, CancelRead, ScheduleCreate, DeleteRead, Continues,
         RunCreate, RunEnqueue, RunEnqueueFailed, CancelWrite, CancelJob, CancelRemove, CancelClose,
         CancelSchedule, ScheduleReserve, ScheduleEnqueue, ScheduleUpsert, ScheduleFailed,
         ScheduleRowFailed, DeleteJob, DeleteRemove, DeleteScheduler, DeletePending, DeleteWrite,
         DeleteRows
  <2>4. LinksOwnRow(r)'
    <3>1. CASE Starts(r)
      <4>1. CASE RunCheck(r)
        BY <1>0, <4>1 DEF RunCheck, LinksJobs, LinksOwnRow, RequestState
      <4>2. ASSUME NEW e \in Executions, CancelRead(r, e) PROVE LinksOwnRow(r)'
        BY <1>0, <4>2 DEF CancelRead, LinksOwnRow, RequestState
      <4>3. ASSUME NEW s \in Schedules, ScheduleCreate(r, s) PROVE LinksOwnRow(r)'
        BY <1>0, <4>3 DEF ScheduleCreate, LinksJobs, LinksOwnRow, RequestState
      <4>4. ASSUME NEW s \in Schedules, DeleteRead(r, s) PROVE LinksOwnRow(r)'
        <5>1. req'[r].pc \in {"delete.scheduler", "delete.job", "delete.write"}
          BY <1>0, <4>4 DEF DeleteRead, Schedules, RequestState
        <5>2. QED
          BY <5>1 DEF LinksOwnRow
      <4>5. QED
        BY <3>1, <4>1, <4>2, <4>3, <4>4 DEF Starts
    <3>2. CASE ScheduleReserve(r)
      BY <1>0, <3>2 DEF ScheduleReserve, LinksOwnRow, RequestState
    <3>3. CASE ScheduleEnqueue(r) \/ ScheduleUpsert(r)
      BY <1>0, <3>3 DEF ScheduleEnqueue, ScheduleUpsert, enqueueDelayed, LinksJobs, LinksOwnRow,
         RequestState
    <3>4. CASE ScheduleLink(r) \/ ScheduleFailed(r)
      <4>1. /\ req[r].pc \in {"schedule.link", "schedule.failed"} /\ UNCHANGED job
            /\ \E pc \in {"done", "schedule.failed", "schedule.rowFailed"} : req' = [req EXCEPT ![r].pc = pc]
        BY <3>4 DEF ScheduleLink, LinkFails, ScheduleFailed
      <4>2. /\ req'[r].exec = req[r].exec /\ req'[r].sched = req[r].sched
            /\ req'[r].pc \in {"done", "schedule.failed", "schedule.rowFailed"}
        BY <1>0, <4>1 DEF RequestState
      <4>3. QED
        BY <4>1, <4>2 DEF LinksJobs, LinksOwnRow
    <3>5. CASE RunCreate(r) \/ RunEnqueue(r) \/ RunEnqueueFailed(r) \/ ScheduleRowFailed(r)
      <4>1. req'[r].pc \in {"run.enqueue", "run.failed", "done"}
        <5>1. CASE RunCreate(r)
          BY <1>0, <5>1 DEF RunCreate, RequestState
        <5>2. QED
          BY <1>0, <3>5, <5>1 DEF RunEnqueue, RunEnqueueFailed, ScheduleRowFailed, RequestState
      <4>2. QED
        BY <4>1 DEF LinksOwnRow
    <3>6. CASE \/ CancelWrite(r) \/ CancelJob(r) \/ CancelRemove(r) \/ CancelClose(r)
               \/ CancelSchedule(r)
      <4>1. req'[r].pc \in {"cancel.job", "cancel.remove", "cancel.close", "cancel.schedule", "done"}
        BY <1>0, <3>6 DEF CancelWrite, CancelJob, CancelRemove, CancelClose, CancelSchedule,
           RequestState
      <4>2. QED
        BY <4>1 DEF LinksOwnRow
    <3>7. CASE \/ DeleteJob(r) \/ DeleteRemove(r) \/ DeleteScheduler(r) \/ DeletePending(r)
               \/ DeleteWrite(r) \/ DeleteRows(r)
      <4>1. req'[r].pc \in {"delete.remove", "delete.pending", "delete.write", "delete.rows", "done"}
        BY <1>0, <3>7 DEF DeleteJob, DeleteRemove, DeleteScheduler, DeletePending, DeleteWrite,
           DeleteRows, RequestState
      <4>2. QED
        BY <4>1 DEF LinksOwnRow
    <3>8. QED
      BY <1>2, <3>1, <3>2, <3>3, <3>4, <3>5, <3>6, <3>7 DEF Continues
  <2>5. QED
    BY <1>0, <2>1, <2>2, <2>3, <2>4 DEF LinksJobs, LinksOwnRow, RequestState
<1>3. QED
  BY <1>1, <1>2 DEF ApiNext

LEMMA LinksInvariant == Spec => []LinksJobs
<1>1. Init => LinksJobs
  BY DEF Init, LinksJobs, LinksOwnRow, NewRequest
<1>2. RunsOnceInv /\ OccurrenceInv /\ LinksJobs /\ [Next]_vars => LinksJobs'
  <2>1. LinksJobs /\ UNCHANGED vars => LinksJobs'
    BY DEF vars, LinksJobs, LinksOwnRow
  <2>2. QED
    BY <2>1, OthersLinks, ApiLinks DEF Next
<1>3. QED
  BY <1>1, <1>2, RunsOnceInvariant, OccurrenceInvariant, PTL DEF Spec

-----------------------------------------------------------------------------
(* While no process has died.                                              *)

(* A handler that has made a row and neither handed it to the queue nor     *)
(* closed it.                                                              *)
Opening(r) ==
  /\ req[r].pc \in {"run.enqueue", "run.failed", "schedule.enqueue", "schedule.failed",
                    "schedule.rowFailed"}
  /\ req[r].exec # None
  /\ req[r].exec \notin disowned

NotBegun(e) == status[e] \in {"queued", "cancelled"}

(* Nobody but its handler deals with such a row.                           *)
OpenedByOne ==
  \A r \in Requests : Opening(r) =>
    /\ req[r].exec \in Executions
    /\ NotBegun(req[r].exec)
    /\ job[req[r].exec] = "none"
    /\ run.exec # req[r].exec
    /\ req[r].pc \in {"schedule.enqueue", "schedule.failed"} => req[r].sched \in OneShots
    /\ \A q \in Requests : Opening(q) /\ req[q].exec = req[r].exec => q = r

(* A job that waits belongs to a row that waits, or was cancelled, unless   *)
(* the row was closed for want of a job.                                    *)
JobsNotBegun == \A e \in Executions \ disowned : job[e] \in {"delayed", "waiting"} => NotBegun(e)

(* The row of a run that has begun is not queued any more.                  *)
RunHasBegun ==
  run.exec # None /\ run.pc \notin {"load", "starting"} => status[run.exec] \notin {"absent", "queued"}

(* The row says how far the run is, unless it was cancelled or disowned.    *)
RunIsWhereRowSays ==
  run.exec \notin disowned =>
    /\ run.pc \in {"load", "starting"} => NotBegun(run.exec)
    /\ run.pc \in {"claim", "preflight", "open", "opening", "running"} =>
         status[run.exec] \in {"starting", "cancelled"}
    /\ run.pc \in {"check", "step", "failed", "last"} =>
         status[run.exec] \in {"running", "cancelled"}
    /\ run.pc \in {"aborted", "finish", "write"} =>
         status[run.exec] \in {"starting", "running", "cancelled"}
    /\ run.pc \in {"finish", "write"} /\ run.from = "success" =>
         status[run.exec] \in {"running", "cancelled"}

(* What a handler removes from the queue is of a row it closes.            *)
RemovesOwn ==
  \A r \in Requests :
    /\ req[r].pc \in {"cancel.write", "cancel.job", "cancel.remove"} => req[r].exec \in Executions
    /\ req[r].pc \in {"cancel.job", "cancel.remove"} => status[req[r].exec] # "queued"
    /\ req[r].pc \in {"delete.job", "delete.remove"} =>
         /\ req[r].exec \in Executions
         /\ req[r].sched # None
         /\ scheduleId[req[r].exec] = req[r].sched

(* A queued row has a job, a run, or a handler that will give it one or     *)
(* close it.                                                               *)
Backed ==
  \A e \in Executions : status[e] = "queued" =>
    \/ job[e] \in {"delayed", "waiting"}
    \/ run.exec = e
    \/ \E r \in Requests : Opening(r) /\ req[r].exec = e
    \/ \E r \in Requests : /\ req[r].pc \in {"schedule.failed", "schedule.rowFailed"}
                           /\ req[r].exec = e
    \/ \E r \in Requests : /\ req[r].pc \in {"delete.write", "delete.rows"}
                           /\ req[r].sched = scheduleId[e] /\ scheduleId[e] # None

Calm ==
  /\ boot.pc = "off" /\ run.pc # "down"
  /\ OpenedByOne /\ JobsNotBegun /\ RunHasBegun /\ RunIsWhereRowSays /\ RemovesOwn /\ Backed

CalmInv == crashes = 0 => Calm

(* The invariants of the sections before.                                   *)
RowsKnown == RunsOnceInv /\ RowsInv /\ OccurrenceInv /\ StopInv /\ LinksJobs

(* The queue.                                                              *)
LEMMA QueueCalm ==
  ASSUME RowsKnown, Calm, QueueNext
  PROVE  Calm'
<1> USE DEF executionVars, scheduleVars, queueVars, workerVars, historyVars
<1>0. Typed
  BY StopsTyped DEF RowsKnown
<1> USE <1>0, ConstantsAssumption DEF Typed, Schedules, Calm, OpenedByOne, Opening,
    NotBegun, JobsNotBegun, RunHasBegun, RunIsWhereRowSays, RemovesOwn, Backed
<1>1. ASSUME NEW e \in Executions, Promote(e) PROVE Calm'
  BY <1>1 DEF Promote
<1>2. ASSUME NEW e \in Executions, StalledJob(e) PROVE Calm'
  BY <1>2 DEF StalledJob
<1>3. ASSUME NEW s \in Recurrings, OccurrenceDue(s) PROVE Calm'
  BY <1>3 DEF OccurrenceDue
<1>4. ASSUME NEW s \in OneShots, TimePasses(s) PROVE Calm'
  BY <1>4 DEF TimePasses
<1>5. QED
  BY <1>1, <1>2, <1>3, <1>4 DEF QueueNext

(* No handler lets go of a queued row.                                     *)
LEMMA ApiCalm ==
  ASSUME RowsKnown, Calm, ApiNext, ~ApiCrash
  PROVE  Calm'
<1> USE DEF executionVars, scheduleVars, queueVars, workerVars, historyVars, Goto, At, Begins
<1>0. Typed /\ status \in [Executions -> EXECUTION_STATES \cup {"absent"}]
  BY StopsTyped DEF RowsKnown, RunsOnceInv, TypeOK
<1>a. AbsentRowsUntouched /\ RemovesSeenJobs /\ OneRowEach /\ OccurrencesHaveNoJob /\ LinksJobs
  BY DEF RowsKnown, RunsOnceInv, TakenAtMostOnce, StopInv, OccurrenceInv
<1>b. run.pc \notin {"down", "idle", "occurrence", "createRow"} => run.exec \in Executions
  BY RunHasRow DEF RowsKnown
<1> USE <1>0, ConstantsAssumption DEF Typed, Schedules, RequestState, Calm, OpenedByOne,
    Opening, LinksJobs, LinksOwnRow, NotBegun, JobsNotBegun, RunHasBegun, RunIsWhereRowSays,
    RemovesOwn, Backed
<1>h. ASSUME UNCHANGED run, \A e \in Executions : status'[e] \in {status[e], "failed", "cancelled"}
      PROVE  RunHasBegun'
  <2>1. run.exec \in Executions \cup {None}
    BY DEF RunState
  <2>2. QED
    BY <1>h, <2>1
<1>1. ASSUME NEW r \in Requests, RunCheck(r) PROVE Calm'
  BY <1>a, <1>1 DEF RunCheck
<1>2. ASSUME NEW r \in Requests, NEW e \in Executions, CancelRead(r, e) PROVE Calm'
  BY <1>a, <1>2 DEF CancelRead
<1>3. ASSUME NEW r \in Requests, NEW s \in Schedules, ScheduleCreate(r, s) PROVE Calm'
  BY <1>a, <1>3 DEF ScheduleCreate
<1>4. ASSUME NEW r \in Requests, NEW s \in Schedules, DeleteRead(r, s) PROVE Calm'
  <2>1. OpenedByOne'
    BY SMTT(30), <1>a, <1>4 DEF DeleteRead, OneRowEach, Reserved
  <2>2. JobsNotBegun' /\ RunHasBegun'
    BY <1>a, <1>4 DEF DeleteRead, OneRowEach, Reserved
  <2>3. RunIsWhereRowSays'
    BY <1>b, <1>a, <1>4 DEF DeleteRead, OneRowEach, Reserved
  <2>4. RemovesOwn'
    BY <1>a, <1>4 DEF DeleteRead, OneRowEach, Reserved
  <2>5. Backed'
    BY <1>a, <1>4 DEF DeleteRead, OneRowEach, Reserved
  <2>6. QED
    BY <1>4, <2>1, <2>2, <2>3, <2>4, <2>5 DEF DeleteRead, OneRowEach, Reserved
<1>5. ASSUME NEW r \in Requests, RunCreate(r) PROVE Calm'
  BY <1>a, <1>5 DEF RunCreate, Fresh, SetStatus, AbsentRowsUntouched
<1>6. ASSUME NEW r \in Requests, RunEnqueue(r) PROVE Calm'
  <2>1. CASE enqueueNow(req[r].exec) /\ Goto(r, "done")
    <3>1. OpenedByOne'
      BY <1>a, <1>6, <2>1 DEF RunEnqueue, enqueueNow
    <3>2. JobsNotBegun' /\ RunHasBegun' /\ RunIsWhereRowSays' /\ RemovesOwn'
      BY <1>a, <1>6, <2>1 DEF RunEnqueue, enqueueNow
    <3>3. Backed'
      BY <1>a, <1>6, <2>1 DEF RunEnqueue, enqueueNow
    <3>4. QED
      BY <1>6, <3>1, <3>2, <3>3 DEF RunEnqueue, enqueueNow
  <2>2. CASE Goto(r, "run.failed") /\ UNCHANGED job
    <3>1. OpenedByOne'
      BY <1>a, <1>6, <2>2 DEF RunEnqueue, enqueueNow
    <3>2. JobsNotBegun' /\ RunHasBegun' /\ RunIsWhereRowSays' /\ RemovesOwn'
      BY <1>a, <1>6, <2>2 DEF RunEnqueue, enqueueNow
    <3>3. Backed'
      BY <1>a, <1>6, <2>2 DEF RunEnqueue, enqueueNow
    <3>4. QED
      BY <1>6, <3>1, <3>2, <3>3 DEF RunEnqueue, enqueueNow
  <2>3. QED
    BY <1>6, <2>1, <2>2 DEF RunEnqueue, enqueueNow
<1>7. ASSUME NEW r \in Requests, RunEnqueueFailed(r) PROVE Calm'
  <2>1. OpenedByOne'
    BY <1>a, <1>7 DEF RunEnqueueFailed, SetStatus
  <2>2. JobsNotBegun'
    BY <1>a, <1>7 DEF RunEnqueueFailed, SetStatus
  <2>3. RunIsWhereRowSays'
    BY <1>b, <1>a, <1>7 DEF RunEnqueueFailed, SetStatus
  <2>4. RemovesOwn'
    BY <1>a, <1>7 DEF RunEnqueueFailed, SetStatus
  <2>5. Backed'
    BY <1>a, <1>7 DEF RunEnqueueFailed, SetStatus
  <2>6. RunHasBegun'
    BY <1>h, <1>7 DEF RunEnqueueFailed, SetStatus
  <2>7. QED
    BY <1>7, <2>1, <2>2, <2>3, <2>4, <2>5, <2>6 DEF RunEnqueueFailed, SetStatus
<1>8. ASSUME NEW r \in Requests, CancelWrite(r) PROVE Calm'
  <2>1. OpenedByOne'
    BY <1>a, <1>8 DEF CancelWrite, SetStatus, AbsentRowsUntouched
  <2>2. JobsNotBegun'
    BY <1>a, <1>8 DEF CancelWrite, SetStatus, AbsentRowsUntouched
  <2>3. RunIsWhereRowSays'
    BY <1>b, <1>a, <1>8 DEF CancelWrite, SetStatus, AbsentRowsUntouched
  <2>4. RemovesOwn'
    BY <1>a, <1>8 DEF CancelWrite, SetStatus, AbsentRowsUntouched
  <2>5. Backed'
    BY <1>a, <1>8 DEF CancelWrite, SetStatus, AbsentRowsUntouched
  <2>6. RunHasBegun'
    BY <1>h, <1>8 DEF CancelWrite, SetStatus
  <2>7. QED
    BY <1>8, <2>1, <2>2, <2>3, <2>4, <2>5, <2>6 DEF CancelWrite, SetStatus, AbsentRowsUntouched
<1>9. ASSUME NEW r \in Requests, CancelJob(r) PROVE Calm'
  BY <1>a, <1>9 DEF CancelJob, CancellableJob
<1>10. ASSUME NEW r \in Requests, CancelRemove(r) PROVE Calm'
  <2>1. OpenedByOne'
    BY <1>a, <1>10 DEF CancelRemove, RemovableJob, removeJob, RemovesSeenJobs
  <2>2. JobsNotBegun' /\ RunHasBegun' /\ RunIsWhereRowSays' /\ RemovesOwn'
    BY <1>a, <1>10 DEF CancelRemove, RemovableJob, removeJob, RemovesSeenJobs
  <2>3. Backed'
    BY <1>a, <1>10 DEF CancelRemove, RemovableJob, removeJob, RemovesSeenJobs
  <2>4. QED
    BY <1>10, <2>1, <2>2, <2>3 DEF CancelRemove, RemovableJob, removeJob, RemovesSeenJobs
<1>11. ASSUME NEW r \in Requests, CancelClose(r) PROVE Calm'
  BY <1>a, <1>11 DEF CancelClose
<1>12. ASSUME NEW r \in Requests, CancelSchedule(r) PROVE Calm'
  <2>1. OpenedByOne'
    BY <1>a, <1>12 DEF CancelSchedule
  <2>2. JobsNotBegun' /\ RunHasBegun' /\ RunIsWhereRowSays' /\ RemovesOwn'
    BY <1>a, <1>12 DEF CancelSchedule
  <2>3. Backed'
    BY <1>a, <1>12 DEF CancelSchedule
  <2>4. QED
    BY <1>12, <2>1, <2>2, <2>3 DEF CancelSchedule
<1>13. ASSUME NEW r \in Requests, ScheduleReserve(r) PROVE Calm'
  BY <1>a, <1>13 DEF ScheduleReserve, Fresh, SetStatus, AbsentRowsUntouched, OccurrencesHaveNoJob
<1>14. ASSUME NEW r \in Requests, ScheduleEnqueue(r) PROVE Calm'
  <2>1. CASE enqueueDelayed(req[r].exec) /\ Goto(r, "schedule.link")
    <3>1. OpenedByOne'
      BY <1>a, <1>14, <2>1 DEF ScheduleEnqueue, enqueueDelayed
    <3>2. JobsNotBegun' /\ RunHasBegun' /\ RunIsWhereRowSays' /\ RemovesOwn'
      BY <1>a, <1>14, <2>1 DEF ScheduleEnqueue, enqueueDelayed
    <3>3. Backed'
      BY <1>a, <1>14, <2>1 DEF ScheduleEnqueue, enqueueDelayed
    <3>4. QED
      BY <1>14, <3>1, <3>2, <3>3 DEF ScheduleEnqueue, enqueueDelayed
  <2>2. CASE Goto(r, "schedule.failed") /\ UNCHANGED job
    <3>1. OpenedByOne'
      BY <1>a, <1>14, <2>2 DEF ScheduleEnqueue, enqueueDelayed
    <3>2. JobsNotBegun' /\ RunHasBegun' /\ RunIsWhereRowSays' /\ RemovesOwn'
      BY <1>a, <1>14, <2>2 DEF ScheduleEnqueue, enqueueDelayed
    <3>3. Backed'
      BY <1>a, <1>14, <2>2 DEF ScheduleEnqueue, enqueueDelayed
    <3>4. QED
      BY <1>14, <3>1, <3>2, <3>3 DEF ScheduleEnqueue, enqueueDelayed
  <2>3. QED
    BY <1>14, <2>1, <2>2 DEF ScheduleEnqueue, enqueueDelayed
<1>15. ASSUME NEW r \in Requests, ScheduleUpsert(r) PROVE Calm'
  <2>1. CASE Goto(r, "schedule.link")
    <3>1. OpenedByOne'
      BY <1>a, <1>15, <2>1 DEF ScheduleUpsert
    <3>2. JobsNotBegun' /\ RunHasBegun'
      BY <1>a, <1>15, <2>1 DEF ScheduleUpsert
    <3>3. RunIsWhereRowSays'
      BY <1>b, <1>a, <1>15, <2>1 DEF ScheduleUpsert
    <3>4. RemovesOwn'
      BY <1>a, <1>15, <2>1 DEF ScheduleUpsert
    <3>5. Backed'
      BY <1>a, <1>15, <2>1 DEF ScheduleUpsert
    <3>6. QED
      BY <1>15, <3>1, <3>2, <3>3, <3>4, <3>5 DEF ScheduleUpsert
  <2>2. CASE Goto(r, "schedule.failed")
    <3>1. OpenedByOne'
      BY <1>a, <1>15, <2>2 DEF ScheduleUpsert
    <3>2. JobsNotBegun' /\ RunHasBegun'
      BY <1>a, <1>15, <2>2 DEF ScheduleUpsert
    <3>3. RunIsWhereRowSays'
      BY <1>b, <1>a, <1>15, <2>2 DEF ScheduleUpsert
    <3>4. RemovesOwn'
      BY <1>a, <1>15, <2>2 DEF ScheduleUpsert
    <3>5. Backed'
      BY <1>a, <1>15, <2>2 DEF ScheduleUpsert
    <3>6. QED
      BY <1>15, <3>1, <3>2, <3>3, <3>4, <3>5 DEF ScheduleUpsert
  <2>3. QED
    BY <1>15, <2>1, <2>2 DEF ScheduleUpsert
<1>16. ASSUME NEW r \in Requests, ScheduleLink(r) PROVE Calm'
  <2>1. /\ UNCHANGED <<executionVars, schedule, clock, queueVars, workerVars, boot>>
        /\ req[r].pc = "schedule.link" /\ disowned \subseteq disowned'
        /\ \/ req' = [req EXCEPT ![r].pc = "done"] /\ disowned' = disowned
           \/ req' = [req EXCEPT ![r].pc = "schedule.failed"] /\ disowned' = disowned \cup {QueueId(r)}
    BY <1>16 DEF ScheduleLink, LinkFails
  <2>2. /\ \A q \in Requests : q # r => req'[q] = req[q]
        /\ req'[r].exec = req[r].exec /\ req'[r].sched = req[r].sched
        /\ req'[r].pc \in {"done", "schedule.failed"}
        /\ req'[r].pc = "done" => disowned' = disowned
        /\ req'[r].pc = "schedule.failed" => disowned' = disowned \cup {QueueId(r)}
    BY <2>1
  <2>3. /\ req[r].exec # None => QueueId(r) = req[r].exec /\ job[req[r].exec] # "none"
        /\ QueueId(r) \in Executions => QueueId(r) = req[r].exec
    BY <1>a, <2>1 DEF QueueId
  <2>4. ~Opening(r)' /\ \A q \in Requests : Opening(q)' => q # r /\ Opening(q)
    BY <2>1, <2>2, <2>3
  <2>5. OpenedByOne'
    BY <2>1, <2>2, <2>4
  <2>6. JobsNotBegun' /\ RunHasBegun' /\ RunIsWhereRowSays' /\ RemovesOwn'
    BY <2>1, <2>2
  <2>7. Backed'
    <3>1. ASSUME NEW e \in Executions, NEW q \in Requests, Opening(q), req[q].exec = e
          PROVE  Opening(q)' /\ req'[q].exec = e
      BY <2>1, <2>2, <2>3, <3>1
    <3>2. \A q \in Requests : req[q].pc \in {"schedule.failed", "schedule.rowFailed", "delete.write",
                                            "delete.rows"} => req'[q] = req[q]
      BY <2>1, <2>2
    <3>3. QED
      BY <2>1, <3>1, <3>2
  <2>8. QED
    BY <2>1, <2>5, <2>6, <2>7
<1>17. ASSUME NEW r \in Requests, ScheduleFailed(r) PROVE Calm'
  <2>1. OpenedByOne'
    BY <1>a, <1>17 DEF ScheduleFailed
  <2>2. JobsNotBegun' /\ RunHasBegun'
    BY <1>a, <1>17 DEF ScheduleFailed
  <2>3. RunIsWhereRowSays'
    BY <1>b, <1>a, <1>17 DEF ScheduleFailed
  <2>4. RemovesOwn'
    BY <1>a, <1>17 DEF ScheduleFailed
  <2>5. Backed'
    BY <1>a, <1>17 DEF ScheduleFailed
  <2>6. QED
    BY <1>17, <2>1, <2>2, <2>3, <2>4, <2>5 DEF ScheduleFailed
<1>18. ASSUME NEW r \in Requests, ScheduleRowFailed(r) PROVE Calm'
  <2>1. OpenedByOne'
    BY <1>a, <1>18 DEF ScheduleRowFailed, SetStatus
  <2>2. JobsNotBegun'
    BY <1>a, <1>18 DEF ScheduleRowFailed, SetStatus
  <2>3. RunIsWhereRowSays'
    BY <1>b, <1>a, <1>18 DEF ScheduleRowFailed, SetStatus
  <2>4. RemovesOwn'
    BY <1>a, <1>18 DEF ScheduleRowFailed, SetStatus
  <2>5. Backed'
    BY <1>a, <1>18 DEF ScheduleRowFailed, SetStatus
  <2>6. RunHasBegun'
    BY <1>h, <1>18 DEF ScheduleRowFailed, SetStatus
  <2>7. QED
    BY <1>18, <2>1, <2>2, <2>3, <2>4, <2>5, <2>6 DEF ScheduleRowFailed, SetStatus
<1>19. ASSUME NEW r \in Requests, DeleteJob(r) PROVE Calm'
  <2>1. OpenedByOne'
    BY <1>a, <1>19 DEF DeleteJob, CancellableJob
  <2>2. JobsNotBegun' /\ RunHasBegun'
    BY <1>a, <1>19 DEF DeleteJob, CancellableJob
  <2>3. RunIsWhereRowSays'
    BY <1>b, <1>a, <1>19 DEF DeleteJob, CancellableJob
  <2>4. RemovesOwn'
    BY <1>a, <1>19 DEF DeleteJob, CancellableJob
  <2>5. Backed'
    BY <1>a, <1>19 DEF DeleteJob, CancellableJob
  <2>6. QED
    BY <1>19, <2>1, <2>2, <2>3, <2>4, <2>5 DEF DeleteJob, CancellableJob
<1>20. ASSUME NEW r \in Requests, DeleteRemove(r) PROVE Calm'
  <2>1. CASE RemovableJob(req[r].exec) /\ removeJob(req[r].exec) /\ Goto(r, "delete.write")
    <3>1. OpenedByOne'
      BY <1>a, <1>20, <2>1 DEF DeleteRemove, RemovableJob, removeJob, RemovesSeenJobs
    <3>2. JobsNotBegun' /\ RunHasBegun' /\ RunIsWhereRowSays' /\ RemovesOwn'
      BY <1>a, <1>20, <2>1 DEF DeleteRemove, RemovableJob, removeJob, RemovesSeenJobs
    <3>3. Backed'
      BY <1>a, <1>20, <2>1 DEF DeleteRemove, RemovableJob, removeJob, RemovesSeenJobs
    <3>4. QED
      BY <1>20, <3>1, <3>2, <3>3 DEF DeleteRemove, RemovableJob, removeJob, RemovesSeenJobs
  <2>2. CASE UNCHANGED job /\ Goto(r, "done")
    <3>1. OpenedByOne'
      BY <1>a, <1>20, <2>2 DEF DeleteRemove, RemovableJob, removeJob, RemovesSeenJobs
    <3>2. JobsNotBegun' /\ RunHasBegun' /\ RunIsWhereRowSays' /\ RemovesOwn'
      BY <1>a, <1>20, <2>2 DEF DeleteRemove, RemovableJob, removeJob, RemovesSeenJobs
    <3>3. Backed'
      BY <1>a, <1>20, <2>2 DEF DeleteRemove, RemovableJob, removeJob, RemovesSeenJobs
    <3>4. QED
      BY <1>20, <3>1, <3>2, <3>3 DEF DeleteRemove, RemovableJob, removeJob, RemovesSeenJobs
  <2>3. QED
    BY <1>20, <2>1, <2>2 DEF DeleteRemove, RemovableJob, removeJob, RemovesSeenJobs
<1>21. ASSUME NEW r \in Requests, DeleteScheduler(r) PROVE Calm'
  BY <1>a, <1>21 DEF DeleteScheduler
<1>22. ASSUME NEW r \in Requests, DeletePending(r) PROVE Calm'
  BY <1>a, <1>22 DEF DeletePending
<1>23. ASSUME NEW r \in Requests, DeleteWrite(r) PROVE Calm'
  <2>1. OpenedByOne'
    BY <1>a, <1>23 DEF DeleteWrite
  <2>2. JobsNotBegun' /\ RunHasBegun' /\ RunIsWhereRowSays' /\ RemovesOwn'
    BY <1>a, <1>23 DEF DeleteWrite
  <2>3. Backed'
    BY <1>a, <1>23 DEF DeleteWrite
  <2>4. QED
    BY <1>23, <2>1, <2>2, <2>3 DEF DeleteWrite
<1>24. ASSUME NEW r \in Requests, DeleteRows(r) PROVE Calm'
  <2>1. OpenedByOne'
    BY <1>a, <1>24 DEF DeleteRows, SetStatus, QueuedOf
  <2>2. JobsNotBegun'
    BY <1>a, <1>24 DEF DeleteRows, SetStatus, QueuedOf
  <2>3. RunIsWhereRowSays'
    BY <1>b, <1>a, <1>24 DEF DeleteRows, SetStatus, QueuedOf
  <2>4. RemovesOwn'
    BY <1>a, <1>24 DEF DeleteRows, SetStatus, QueuedOf
  <2>5. Backed'
    BY <1>a, <1>24 DEF DeleteRows, SetStatus, QueuedOf
  <2>6. RunHasBegun'
    BY <1>h, <1>24 DEF DeleteRows, SetStatus, QueuedOf
  <2>7. QED
    BY <1>24, <2>1, <2>2, <2>3, <2>4, <2>5, <2>6 DEF DeleteRows, SetStatus, QueuedOf
<1>25. QED
  BY <1>1, <1>2, <1>3, <1>4, <1>5, <1>6, <1>7, <1>8, <1>9, <1>10, <1>11, <1>12, <1>13, <1>14,
     <1>15, <1>16, <1>17, <1>18, <1>19, <1>20, <1>21, <1>22, <1>23, <1>24
  DEF ApiNext, Starts, Continues

(* What dies, or comes back, has died.                                     *)
LEMMA DeathsCount ==
  ASSUME RunsOnceInv, Calm, crashes = 0, StartupNext \/ ApiCrash
  PROVE  crashes' # 0
BY DEF Calm, StartupNext, ApiCrash, WorkerCrash, WorkerStart, Reconciles, ReadOrphans, FailOrphan,
   ReadMissed, FailMissed, FailMissedRows, BootDone

(* The runner takes what waits, says how far it is, and leaves a row that is over. *)
LEMMA RunnerCalm ==
  ASSUME RowsKnown, Calm, RunnerNext
  PROVE  Calm'
<1> USE DEF executionVars, scheduleVars, queueVars, workerVars, historyVars, RunAt, RunGoto, WorkerOnly
<1>0. /\ job \in [Executions -> JobStates] /\ run \in RunState /\ req \in [Requests -> RequestState]
      /\ status \in [Executions -> EXECUTION_STATES \cup {"absent"}]
      /\ scheduleId \in [Executions -> Schedules \cup {None}]
  BY DEF RowsKnown, RunsOnceInv, TypeOK
<1>a. AbsentRowsUntouched /\ WaitingJobsUnacted /\ OutcomeIsOver
      /\ (run.exec = None <=> run.pc \in {"down", "idle", "occurrence", "createRow"})
  BY DEF RowsKnown, RunsOnceInv, TakenAtMostOnce, RowsInv, RunInStep
<1>b. run.pc \notin {"down", "idle", "occurrence", "createRow"} => run.exec \in Executions
  BY RunHasRow DEF RowsKnown
<1>c. None \notin Executions
  BY ConstantsAssumption
<1> USE DEF Calm, OpenedByOne, Opening, NotBegun, JobsNotBegun, RunHasBegun, RunIsWhereRowSays,
    RemovesOwn, Backed
<1>1. ASSUME NEW e \in Executions, TakeJob(e) PROVE Calm'
  <2>1. /\ UNCHANGED <<status, scheduleId, req, boot, disowned>> /\ run'.exec = e /\ run'.pc = "load"
        /\ job[e] = "waiting" /\ job' = [job EXCEPT ![e] = "active"] /\ run.exec = None
    BY <1>a, <1>1 DEF TakeJob, NoRun
  <2>2. OpenedByOne'
    BY <1>0, <1>c, <2>1
  <2>3. JobsNotBegun' /\ RunHasBegun' /\ RunIsWhereRowSays' /\ RemovesOwn'
    BY <1>0, <2>1
  <2>4. Backed'
    BY <1>0, <1>c, <2>1
  <2>5. QED
    BY <2>1, <2>2, <2>3, <2>4
<1>2. ASSUME NEW s \in Recurrings, TakeOccurrence(s) PROVE Calm'
  BY <1>0, <1>a, <1>c, <1>2 DEF TakeOccurrence, NoRun
<1>3. CASE StartOccurrence
  BY <1>0, <1>a, <1>c, <1>3 DEF StartOccurrence, NoRun, RunState
<1>4. CASE CreateOccurrenceRow
  BY <1>0, <1>a, <1>c, <1>4 DEF CreateOccurrenceRow, RunState, SetStatus, Fresh, AbsentRowsUntouched
<1>5. CASE Load
  BY <1>0, <1>a, <1>b, <1>c, <1>5 DEF Load, NoRun, RunState, wasCancelled, CompleteJob
<1>6. CASE Starting \/ Running
  BY <1>0, <1>a, <1>b, <1>6 DEF Starting, Running, RunState, WriteOver, SetStatus, WaitingJobsUnacted
<1>d. ASSUME UNCHANGED <<status, scheduleId, job, req, boot, disowned>>, run'.exec = run.exec,
             run'.pc # "down", RunHasBegun', RunIsWhereRowSays'
      PROVE  Calm'
  BY <1>d
<1>7. CASE ClaimSchedule \/ Preflight \/ OpenSession \/ SessionStarted
  <2>1. UNCHANGED <<status, scheduleId, job, req, boot, disowned>>
    BY <1>7 DEF ClaimSchedule, Preflight, OpenSession, SessionStarted
  <2>2. run'.exec = run.exec /\ run'.pc # "down"
    BY <1>0, <1>7 DEF ClaimSchedule, Preflight, OpenSession, SessionStarted, RunState
  <2>3. RunHasBegun' /\ RunIsWhereRowSays'
    <3>1. CASE ClaimSchedule \/ Preflight
      BY ZenonT(40), <1>0, <2>1, <2>2, <3>1 DEF ClaimSchedule, Preflight, RunState
    <3>2. CASE OpenSession
      BY ZenonT(40), <1>0, <2>1, <2>2, <3>2 DEF OpenSession, RunState
    <3>3. CASE SessionStarted
      BY ZenonT(40), <1>0, <2>1, <2>2, <3>3 DEF SessionStarted, RunState
    <3>4. QED
      BY <1>7, <3>1, <3>2, <3>3
  <2>4. QED
    BY <1>d, <2>1, <2>2, <2>3
<1>8. CASE CheckCancelled \/ ExecuteStep
  <2>1. UNCHANGED <<status, scheduleId, job, req, boot, disowned>>
    BY <1>8 DEF CheckCancelled, ExecuteStep
  <2>2. /\ run'.exec = run.exec /\ run.pc \in {"check", "step"}
        /\ run'.pc \in {"close", "step", "failed", "check", "last"}
    BY ZenonT(40), <1>0, <1>8 DEF CheckCancelled, ExecuteStep, RunState
  <2>3. RunHasBegun' /\ RunIsWhereRowSays'
    BY <2>1, <2>2
  <2>4. QED
    BY <1>d, <2>1, <2>2, <2>3
<1>9. CASE StepFailed \/ LastStep \/ Aborted \/ FinishRead
  <2>1. UNCHANGED <<status, scheduleId, job, req, boot, disowned>>
    BY <1>9 DEF StepFailed, LastStep, Aborted, FinishRead
  <2>2. run'.exec = run.exec /\ run'.pc # "down"
    BY <1>0, <1>9 DEF StepFailed, LastStep, Aborted, FinishRead, RunState
  <2>3. RunHasBegun' /\ RunIsWhereRowSays'
    <3>1. CASE StepFailed \/ LastStep
      BY ZenonT(40), <1>0, <2>1, <2>2, <3>1 DEF StepFailed, LastStep, RunState
    <3>2. CASE Aborted \/ FinishRead
      BY ZenonT(40), <1>0, <2>1, <2>2, <3>2 DEF Aborted, FinishRead, RunState
    <3>3. QED
      BY <1>9, <3>1, <3>2
  <2>4. QED
    BY <1>d, <2>1, <2>2, <2>3
<1>10. CASE FinishWrite
  BY <1>0, <1>a, <1>b, <1>10 DEF FinishWrite, RunState, SetStatus, WaitingJobsUnacted
<1>11. CASE NotifyOutcome \/ SettleSchedule
  BY <1>0, <1>11 DEF NotifyOutcome, SettleSchedule, RunState
<1>12. CASE CloseSession
  BY <1>0, <1>a, <1>b, <1>c, <1>12 DEF CloseSession, NoRun, CompleteJob, OutcomeIsOver, TerminalExecution
<1>13. QED
  BY <1>1, <1>2, <1>3, <1>4, <1>5, <1>6, <1>7, <1>8, <1>9, <1>10, <1>11, <1>12
  DEF RunnerNext, TakesJob, RunsOn

(* Deaths are only ever counted up.                                         *)
LEMMA CrashesCount ==
  Next => UNCHANGED crashes \/ (crashes < MaxCrashes /\ crashes' = crashes + 1)
<1> USE DEF historyVars
<1>1. QueueNext => UNCHANGED crashes
  BY DEF QueueNext, Promote, StalledJob, OccurrenceDue, TimePasses
<1>2. StartupNext => UNCHANGED crashes \/ (crashes < MaxCrashes /\ crashes' = crashes + 1)
  BY DEF StartupNext, WorkerCrash, WorkerStart, Reconciles, BootOnly, ReadOrphans, FailOrphan,
     ReadMissed, FailMissed, FailMissedRows, BootDone
<1>3. ASSUME NEW r \in Requests, Starts(r) PROVE UNCHANGED crashes
  BY <1>3 DEF Starts, RunCheck, CancelRead, ScheduleCreate, DeleteRead
<1>4. ASSUME NEW r \in Requests, Continues(r) PROVE UNCHANGED crashes
  BY <1>4 DEF Continues, RunCreate, RunEnqueue, RunEnqueueFailed, CancelWrite, CancelJob,
     CancelRemove, CancelClose, CancelSchedule, ScheduleReserve, ScheduleEnqueue, ScheduleUpsert,
     ScheduleLink, LinkFails, ScheduleFailed, ScheduleRowFailed, DeleteJob, DeleteRemove, DeleteScheduler,
     DeletePending, DeleteWrite, DeleteRows
<1>5. TakesJob => UNCHANGED crashes
  BY DEF TakesJob, TakeJob, TakeOccurrence
<1>6. RunsOn => UNCHANGED crashes
  BY DEF RunsOn, StartOccurrence, CreateOccurrenceRow, Load, Starting, WriteOver, ClaimSchedule,
     Preflight, OpenSession, SessionStarted, Running, CheckCancelled, ExecuteStep, StepFailed,
     LastStep, Aborted, FinishRead, FinishWrite, NotifyOutcome, SettleSchedule, CloseSession
<1>7. QED
  BY <1>1, <1>2, <1>3, <1>4, <1>5, <1>6 DEF Next, ApiNext, RunnerNext, ApiCrash

(* Calm lasts as long as nothing dies.                                     *)
LEMMA CalmInvariant == Spec => []CalmInv
<1>1. Init => CalmInv
  BY ConstantsAssumption DEF Init, CalmInv, Calm, OpenedByOne, Opening, NotBegun,
     JobsNotBegun, RunHasBegun, RunIsWhereRowSays, RemovesOwn, Backed, NewRequest, NoRun, NoBoot
<1>2. RowsKnown /\ CalmInv /\ [Next]_vars => CalmInv'
  <2> SUFFICES ASSUME RowsKnown, CalmInv, [Next]_vars, crashes' = 0 PROVE Calm'
    BY DEF CalmInv
  <2>1. CASE UNCHANGED vars
    BY <2>1 DEF CalmInv, vars, Calm, OpenedByOne, Opening, NotBegun, JobsNotBegun, RunHasBegun,
       RunIsWhereRowSays, RemovesOwn, Backed
  <2>2. CASE Next
    <3>1. crashes = 0
      <4>1. crashes \in Nat /\ crashes' \in {crashes, crashes + 1}
        BY <2>2, CrashesCount DEF RowsKnown, RunsOnceInv, TypeOK
      <4>2. QED
        BY <4>1
    <3>2. Calm /\ ~StartupNext /\ ~ApiCrash
      BY <3>1, DeathsCount DEF CalmInv, RowsKnown
    <3>3. QED
      BY <2>2, <3>2, QueueCalm, ApiCalm, RunnerCalm DEF Next
  <2>3. QED
    BY <2>1, <2>2
<1>3. QED
  BY <1>1, <1>2, RunsOnceInvariant, RowsInvariant, OccurrenceInvariant, StopInvariant, LinksInvariant,
     PTL
  DEF Spec, RowsKnown

(* "Left as queued it would show up as pending forever" (executions.ts:82-84): *)
(* as long as no process has died, a queued row has a job, a run or a handler  *)
(* busy with it, for any number of executions, schedules and requests.         *)
THEOREM QueuedRowsAreBacked == Spec => [](crashes = 0 => QueuedRowsBacked)
<1>1. Calm => QueuedRowsBacked
  BY DEF Calm, Backed, Opening, QueuedRowsBacked, Handling, HandlingSchedule
<1>2. QED
  BY <1>1, CalmInvariant, PTL DEF CalmInv

(* The table of states.ts:32-39, row by row, as far as a run or a handler uses it. *)
LEMMA TableAllows ==
  /\ canTransitionExecution("queued", "starting")
  /\ canTransitionExecution("queued", "failed")
  /\ canTransitionExecution("starting", "running")
  /\ canTransitionExecution("starting", "failed")
  /\ canTransitionExecution("running", "completed")
  /\ canTransitionExecution("running", "failed")
BY DEF canTransitionExecution, EXECUTION_TRANSITIONS

(* Nothing has died, and nothing ever will. *)
Undying == MaxCrashes = 0 /\ crashes = 0

(* Where nothing dies rows move as states.ts:32-39 says, cancellations aside, *)
(* for any number of executions, schedules, requests and steps.               *)
THEOREM RowsFollowTable == MaxCrashes = 0 => (Spec => FollowsTransitions)
<1> DEFINE Follows ==
      \A e \in Executions \ disowned :
        /\ status'[e] # status[e]
        /\ status[e] \notin {"absent", "cancelled"}
        /\ status'[e] # "cancelled"
        => canTransitionExecution(status[e], status'[e])
<1>1. MaxCrashes = 0 /\ Spec => []Undying
  <2>1. MaxCrashes = 0 /\ Init => Undying
    BY DEF Init, Undying
  <2>2. Undying /\ [Next]_vars => Undying'
    BY CrashesCount DEF Undying, vars
  <2>3. QED
    BY <2>1, <2>2, PTL DEF Spec
<1>2. RunsOnceInv /\ RowsInv /\ CalmInv /\ Undying /\ Undying' /\ [Next]_vars => [Follows]_vars
  <2> SUFFICES ASSUME RunsOnceInv, Calm, crashes = 0, crashes' = 0, Next PROVE Follows
    BY DEF CalmInv, Undying
  <2> USE DEF executionVars, SetStatus, RunAt, At
  <2>0. status \in [Executions -> EXECUTION_STATES \cup {"absent"}]
    BY DEF RunsOnceInv, TypeOK
  <2>1. CASE UNCHANGED status
    BY <2>1
  <2>2. ASSUME NEW r \in Requests, RunEnqueueFailed(r) \/ ScheduleRowFailed(r) PROVE Follows
    <3>1. \A e \in Executions : e # req[r].exec => status'[e] = status[e]
      BY <2>2 DEF RunEnqueueFailed, ScheduleRowFailed
    <3>2. req[r].exec \in Executions \ disowned =>
            status'[req[r].exec] = "failed" /\ status[req[r].exec] \in {"queued", "cancelled"}
      BY <2>2, ConstantsAssumption DEF RunEnqueueFailed, ScheduleRowFailed, Calm, OpenedByOne,
         Opening, NotBegun
    <3>3. QED
      BY <3>1, <3>2, TableAllows
  <2>3. ASSUME NEW r \in Requests, RunCreate(r) \/ ScheduleReserve(r) PROVE Follows
    BY <2>3 DEF RunCreate, ScheduleReserve, Fresh
  <2>4. ASSUME NEW r \in Requests, CancelWrite(r) \/ DeleteRows(r) PROVE Follows
    BY <2>4 DEF CancelWrite, DeleteRows
  <2>5. CASE CreateOccurrenceRow
    BY <2>5 DEF CreateOccurrenceRow, Fresh
  <2>6. CASE Starting \/ Running \/ FinishWrite
    <3>1. \A e \in Executions : e # run.exec => status'[e] = status[e]
      BY <2>6 DEF Starting, Running, FinishWrite, WriteOver
    <3>2. run.exec \in Executions
      BY <2>6, RunHasRow DEF Starting, Running, FinishWrite
    <3>3. CASE Starting
      BY <3>1, <3>2, <3>3, TableAllows DEF Starting, WriteOver, Calm, RunIsWhereRowSays, NotBegun
    <3>4. CASE Running
      BY <3>1, <3>2, <3>4, TableAllows DEF Running, WriteOver, Calm, RunIsWhereRowSays
    <3>5. CASE FinishWrite
      BY <3>1, <3>2, <3>5, TableAllows DEF FinishWrite, Succeeded, Calm, RunIsWhereRowSays
    <3>6. QED
      BY <2>6, <3>3, <3>4, <3>5
  <2>7. CASE QueueNext
    BY <2>1, <2>7 DEF QueueNext, Promote, StalledJob, OccurrenceDue, TimePasses
  <2>8. ASSUME NEW r \in Requests, Starts(r) PROVE Follows
    BY <2>1, <2>8 DEF Starts, RunCheck, CancelRead, ScheduleCreate, DeleteRead
  <2>9. ASSUME NEW r \in Requests, Continues(r) PROVE Follows
    BY <2>1, <2>2, <2>3, <2>4, <2>9 DEF Continues, RunEnqueue, CancelJob, CancelRemove, CancelClose,
       CancelSchedule, ScheduleEnqueue, ScheduleUpsert, ScheduleLink, LinkFails, ScheduleFailed, DeleteJob,
       DeleteRemove, DeleteScheduler, DeletePending, DeleteWrite
  <2>10. CASE RunnerNext
    BY <2>1, <2>5, <2>6, <2>10 DEF RunnerNext, TakesJob, TakeJob, TakeOccurrence, RunsOn,
       StartOccurrence, Load, ClaimSchedule, Preflight, OpenSession, SessionStarted, CheckCancelled,
       ExecuteStep, StepFailed, LastStep, Aborted, FinishRead, NotifyOutcome, SettleSchedule,
       CloseSession, WorkerOnly
  <2>11. QED
    BY <2>7, <2>8, <2>9, <2>10, DeathsCount DEF Next, ApiNext
<1>3. QED
  BY <1>1, <1>2, RunsOnceInvariant, RowsInvariant, CalmInvariant, PTL
  DEF Spec, FollowsTransitions

-----------------------------------------------------------------------------
(* What a run leaves to be read, while no process has died.                 *)

Late == {"notify", "settle", "close"}

(* The row of the run is cancelled, or was before the run wrote over it.    *)
Excused == status[run.exec] = "cancelled" \/ run.exec \in overwritten \cup disowned

(* A handler that closes a browser has said so in the row before.           *)
CancelsTold ==
  \A r \in Requests : req[r].pc \in {"cancel.job", "cancel.remove", "cancel.close"} =>
    status[req[r].exec] \in TerminalExecution \/ req[r].exec \in overwritten \cup disowned

(* So a browser closed under a run is a cancelled run's.                    *)
BrowserClosed ==
  /\ run.pc \in {"idle", "occurrence", "createRow", "load", "starting", "claim", "preflight",
                 "open"} => browser = "none"
  /\ browser = "closed" /\ run.pc \notin Late => Excused

(* A failure that is decided to be the run's own is.                        *)
CauseKnown ==
  /\ run.pc \in {"failed", "aborted"} =>
       run.cause \in {"own", "closed"} /\ (run.cause = "closed" => Excused)
  /\ run.decided =>
       run.pc \in {"finish", "write"} \cup Late
       /\ (run.cause = "own" \/ run.exec \in overwritten \cup disowned)
  /\ run.pc = "write" /\ run.write = "reason-only" => run.decided

(* A reason is rescued as the run's last word.                              *)
RescuedLast ==
  \A e \in Executions : reason[e] = "rescued" =>
    /\ status[e] # "absent" /\ job[e] \notin {"delayed", "waiting"}
    /\ \A r \in Requests : Opening(r) => req[r].exec # e
    /\ run.exec = e => run.pc \in Late /\ (run.cause = "own" \/ e \in overwritten \cup disowned)

(* A run that acted after its cancellation is about to find out.            *)
OverrunOnce ==
  \A e \in Executions \ disowned :
    /\ overran[e] \in {0, 1}
    /\ overran[e] # 0 => acted[e] # 0
    /\ overran[e] # 0 /\ run.exec = e =>
         \/ run.pc = "check" /\ status[e] = "cancelled"
         \/ run.pc \in {"failed", "last", "aborted", "finish", "write"} \cup Late

(* Who wrote `failed` for a run is about to announce it.                    *)
FailureAnnounced ==
  \A e \in Executions \ disowned : status[e] = "failed" /\ job[e] \in {"active", "completed"} =>
    \/ "workflow_failed" \in notices[e]
    \/ run.exec = e /\ run.pc = "notify" /\ run.write = "full" /\ ~Succeeded

(* The job of a run is not over before the run is.                          *)
RunsJobOpen == \A e \in Executions : run.exec = e => job[e] # "completed"

(* A cancellation and a run know the schedule of their row.                 *)
CancelsKnow ==
  \A r \in Requests :
    req[r].pc \in {"cancel.write", "cancel.job", "cancel.remove", "cancel.close",
                   "cancel.schedule"} =>
      req[r].exec \in Executions /\ req[r].sched = scheduleId[req[r].exec]

RunKnows == run.exec # None => run.sched = scheduleId[run.exec]

(* A schedule its run claimed is left to the run, or to who cancelled it.   *)
ScheduleClaimed ==
  \A s \in OneShots : schedule[s] = "queued" =>
    \/ /\ run.sched = s
       /\ run.pc \in {"preflight", "open", "opening", "running", "aborted", "finish", "write",
                      "notify", "settle"}
    \/ /\ run.sched = s /\ run.pc \in {"check", "step", "failed", "last"}
       /\ status[run.exec] # "cancelled"
    \/ \E r \in Requests :
         /\ req[r].pc \in {"cancel.job", "cancel.remove", "cancel.close", "cancel.schedule"}
         /\ req[r].sched = s

ReasonsTrue == CancelsTold /\ BrowserClosed /\ CauseKnown /\ RescuedLast
Claims == CancelsKnow /\ RunKnows /\ ScheduleClaimed

(* The part of the types that matters here.                                 *)
RunsTyped ==
  /\ status \in [Executions -> EXECUTION_STATES \cup {"absent"}]
  /\ scheduleId \in [Executions -> Schedules \cup {None}]
  /\ reason \in [Executions -> {"none", "error", "user", "rescued"}]
  /\ notices \in [Executions -> SUBSET NOTIFICATION_TYPES]
  /\ schedule \in [Schedules -> SCHEDULE_STATES \cup {"absent"}]
  /\ job \in [Executions -> JobStates]
  /\ run \in RunState /\ req \in [Requests -> RequestState]
  /\ acted \in [Executions -> Nat] /\ overran \in [Executions -> Nat]

(* What a handler can do to the row and the job of a run.                   *)
ApiLeaves ==
  /\ UNCHANGED <<run, notices, acted, overran, overwritten>>
  /\ disowned \subseteq disowned'
  /\ \A e \in Executions :
       /\ \/ status'[e] \in {status[e], "cancelled"}
          \/ status[e] = "absent" /\ status'[e] = "queued"
          \/ status'[e] = "failed" /\ job' = job
             /\ (e \in disowned \/ (job[e] = "none" /\ run.exec # e))
       /\ reason'[e] \in {reason[e], "error", "user"}
       /\ job'[e] \in {"active", "completed"} => job'[e] = job[e]
       /\ job'[e] \in {"delayed", "waiting"} =>
            job'[e] = job[e] \/ \E r \in Requests : Opening(r) /\ req[r].exec = e

LEMMA ApiLeavesRuns ==
  ASSUME RowsKnown, Calm, NEW r \in Requests, Starts(r) \/ Continues(r)
  PROVE  ApiLeaves
<1> USE DEF executionVars, scheduleVars, queueVars, workerVars, historyVars, ApiLeaves, At, Goto
<1>0. RunsTyped
  BY DEF RowsKnown, RunsOnceInv, TypeOK, RunsTyped
<1>1. CASE Starts(r)
  BY <1>0, <1>1 DEF Starts, RunCheck, CancelRead, ScheduleCreate, DeleteRead, RunsTyped
<1>2. CASE CancelJob(r) \/ CancelClose(r) \/ CancelSchedule(r) \/ ScheduleUpsert(r)
           \/ ScheduleLink(r) \/ ScheduleFailed(r) \/ DeleteJob(r) \/ DeleteScheduler(r)
           \/ DeletePending(r) \/ DeleteWrite(r)
  BY <1>0, <1>2 DEF CancelJob, CancelClose, CancelSchedule, ScheduleUpsert, ScheduleLink,
     LinkFails, ScheduleFailed, DeleteJob, DeleteScheduler, DeletePending, DeleteWrite, RunsTyped
<1>3. CASE RunEnqueue(r) \/ ScheduleEnqueue(r)
  <2>1. UNCHANGED <<status, reason, run, notices, acted, overran, overwritten, disowned>>
    BY <1>3 DEF RunEnqueue, ScheduleEnqueue
  <2>2. /\ req[r].exec \in Executions /\ Opening(r)
        /\ \A e \in Executions : job'[e] = job[e] \/ e = req[r].exec
        /\ job' = job \/ job'[req[r].exec] \in {"delayed", "waiting"}
    BY <1>0, <1>3, ConstantsAssumption DEF RunEnqueue, ScheduleEnqueue, enqueueNow, enqueueDelayed,
       RowsKnown, LinksJobs, RunsOnceInv, TakenAtMostOnce, EnqueuedOnce, Enqueuing, Opening, RunsTyped
  <2>3. QED
    BY <1>0, <2>1, <2>2 DEF RunsTyped
<1>4. CASE RunEnqueueFailed(r) \/ ScheduleRowFailed(r)
  <2>1. /\ UNCHANGED <<run, notices, acted, overran, overwritten, disowned, job>>
        /\ \A e \in Executions : IF e = req[r].exec
              THEN status'[e] = "failed" /\ reason'[e] = "error"
              ELSE status'[e] = status[e] /\ reason'[e] = reason[e]
    BY <1>4 DEF RunEnqueueFailed, ScheduleRowFailed, SetStatus, SetReason
  <2>2. req[r].exec \in Executions \ disowned => job[req[r].exec] = "none" /\ run.exec # req[r].exec
    BY <1>4, ConstantsAssumption DEF RunEnqueueFailed, ScheduleRowFailed, Calm, OpenedByOne, Opening
  <2>3. QED
    BY <1>0, <2>1, <2>2 DEF RunsTyped
<1>5. CASE CancelRemove(r) \/ DeleteRemove(r)
  BY <1>0, <1>5 DEF CancelRemove, DeleteRemove, RemovableJob, removeJob, RunsTyped
<1>6. CASE ScheduleReserve(r)
  BY <1>0, <1>6 DEF ScheduleReserve, RunsTyped, SetStatus, Fresh
<1>7. CASE RunCreate(r) \/ CancelWrite(r) \/ DeleteRows(r)
  BY <1>0, <1>7 DEF RunCreate, CancelWrite, DeleteRows, RunsTyped, SetStatus, SetReason, Fresh
<1>8. QED
  BY <1>1, <1>2, <1>3, <1>4, <1>5, <1>6, <1>7 DEF Continues

(* What the queue does to them.                                             *)
QueueLeaves ==
  /\ UNCHANGED <<executionVars, scheduleVars, workerVars, req, historyVars>>
  /\ \A e \in Executions :
       /\ job'[e] \in {"active", "completed"} => job'[e] = job[e]
       /\ job'[e] \in {"delayed", "waiting"} => job[e] \in {"delayed", "waiting"}

LEMMA QueueLeavesRuns ==
  ASSUME RowsKnown, Calm, QueueNext
  PROVE  QueueLeaves
<1>0. RunsTyped
  BY DEF RowsKnown, RunsOnceInv, TypeOK, RunsTyped
<1>1. QED
  BY <1>0 DEF QueueNext, Promote, StalledJob, OccurrenceDue, TimePasses, QueueLeaves, RunsTyped,
     executionVars, scheduleVars, queueVars, workerVars, historyVars

(* Once a run is in its loop, a cancellation lets at most one step through. *)
LEMMA OverrunStep ==
  ASSUME RowsKnown, Calm, OverrunOnce, Next, ~StartupNext, ~ApiCrash
  PROVE  OverrunOnce'
<1> USE DEF executionVars, scheduleVars, queueVars, workerVars, historyVars, RunAt, RunGoto,
    WorkerOnly, Late
<1>0. RunsTyped
  BY DEF RowsKnown, RunsOnceInv, TypeOK, RunsTyped
<1>c. None \notin Executions
  BY ConstantsAssumption
<1>1. CASE QueueNext
  BY <1>1, QueueLeavesRuns DEF QueueLeaves, OverrunOnce
<1>2. ASSUME NEW r \in Requests, Starts(r) \/ Continues(r) PROVE OverrunOnce'
  BY <1>0, <1>2, ApiLeavesRuns, ConstantsAssumption DEF ApiLeaves, OverrunOnce, RunsTyped, Calm,
     RunIsWhereRowSays
<1>3. CASE RunnerNext
  <2>a. /\ run.exec \in Executions /\ run.pc \in {"load", "starting", "claim", "preflight", "open",
            "opening", "running", "check", "step"} => acted[run.exec] = run.step - 1
        /\ run.pc \in {"load", "starting", "claim", "preflight", "open", "opening", "running"} =>
             run.step = 1
        /\ \A e \in Executions : job[e] = "waiting" => acted[e] = 0
        /\ \A e \in Executions : status[e] = "absent" => acted[e] = 0
        /\ run.exec = None <=> run.pc \in {"down", "idle", "occurrence", "createRow"}
    BY DEF RowsKnown, RunsOnceInv, TakenAtMostOnce, RunInStep, WaitingJobsUnacted,
       AbsentRowsUntouched
  <2>r. UNCHANGED disowned
    BY <1>3, RefusedByApi
  <2>b. ASSUME UNCHANGED <<acted, overran>>,
               \A e \in Executions : run'.exec = e => acted[e] = 0
        PROVE  OverrunOnce'
    BY <2>r, <2>b DEF OverrunOnce
  <2>1. CASE TakesJob
    <3>1. ASSUME NEW e \in Executions, TakeJob(e) PROVE OverrunOnce'
      BY <2>a, <2>b, <3>1 DEF TakeJob, NoRun
    <3>2. ASSUME NEW s \in Recurrings, TakeOccurrence(s) PROVE OverrunOnce'
      BY <1>c, <2>b, <3>2 DEF TakeOccurrence, NoRun
    <3>3. QED
      BY <2>1, <3>1, <3>2 DEF TakesJob
  <2>2. CASE StartOccurrence
    <3>1. run \in RunState /\ run.exec = None
      BY <1>0, <2>a, <2>2 DEF StartOccurrence, RunsTyped
    <3>2. run'.exec = None
      BY <2>2, <3>1 DEF StartOccurrence, NoRun, RunState
    <3>3. QED
      BY <1>c, <2>b, <2>2, <3>2 DEF StartOccurrence
  <2>11. CASE CreateOccurrenceRow
    BY <1>0, <2>a, <2>b, <2>11 DEF CreateOccurrenceRow, RunsTyped, RunState, Fresh
  <2>12. CASE Load
    <3>1. run'.exec = None \/ (run'.exec = run.exec /\ run.pc = "load")
      BY <1>0, <2>12 DEF Load, NoRun, RunsTyped, RunState
    <3>2. QED
      BY <1>c, <2>a, <2>b, <2>12, <3>1 DEF Load
  <2>3. CASE Starting \/ ClaimSchedule \/ Preflight
    <3>1. UNCHANGED <<acted, overran>> /\ run'.exec = run.exec
          /\ run.pc \in {"starting", "claim", "preflight"}
      BY <1>0, <2>3 DEF Starting, ClaimSchedule, Preflight, WriteOver, RunsTyped, RunState
    <3>2. QED
      BY <2>a, <2>b, <3>1
  <2>4. CASE OpenSession \/ SessionStarted \/ Running
    <3>1. UNCHANGED <<acted, overran>> /\ run'.exec = run.exec
          /\ run.pc \in {"open", "opening", "running"}
      BY <1>0, <2>4 DEF OpenSession, SessionStarted, Running, WriteOver, RunsTyped, RunState
    <3>2. QED
      BY <2>a, <2>b, <3>1
  <2>5. CASE CheckCancelled
    BY <1>0, <2>5 DEF CheckCancelled, wasCancelled, OverrunOnce, RunsTyped, RunState
  <2>6. CASE ExecuteStep
    <3>1. run.exec \in Executions
      BY <2>6, RunHasRow DEF ExecuteStep, RowsKnown
    <3>2. run.exec \notin disowned => overran[run.exec] = 0
      BY <2>6, <3>1 DEF ExecuteStep, OverrunOnce
    <3>3. /\ UNCHANGED status
          /\ run'.exec = run.exec
          /\ run'.pc \in {"failed", "last", "check"}
      BY ZenonT(40), <1>0, <2>6 DEF ExecuteStep, RunsTyped, RunState
    <3>4. CASE UNCHANGED <<acted, overran>>
      BY <1>0, <2>r, <2>6, <3>3, <3>4, <3>2 DEF OverrunOnce, ExecuteStep, RunsTyped, RunState
    <3>5. CASE /\ acted' = [acted EXCEPT ![run.exec] = @ + 1]
               /\ overran' = IF wasCancelled
                             THEN [overran EXCEPT ![run.exec] = @ + 1] ELSE overran
      <4>1. acted'[run.exec] # 0
        BY <1>0, <3>1, <3>5 DEF RunsTyped
      <4>2. run.exec \notin disowned => overran'[run.exec] = (IF wasCancelled THEN 1 ELSE 0)
        BY <1>0, <3>1, <3>2, <3>5 DEF RunsTyped
      <4>3. \A e \in Executions : e # run.exec => overran'[e] = overran[e] /\ acted'[e] = acted[e]
        BY <1>0, <3>1, <3>5 DEF RunsTyped
      <4>4. QED
        BY <2>r, <3>3, <4>1, <4>2, <4>3 DEF OverrunOnce, wasCancelled
    <3>6. QED
      BY <2>6, <3>4, <3>5 DEF ExecuteStep
  <2>7. CASE StepFailed \/ LastStep \/ Aborted \/ FinishRead
    BY ZenonT(40), <1>0, <2>7 DEF StepFailed, LastStep, Aborted, FinishRead, OverrunOnce,
       RunsTyped, RunState
  <2>8. CASE FinishWrite \/ NotifyOutcome \/ SettleSchedule
    BY <1>0, <2>8 DEF FinishWrite, NotifyOutcome, SettleSchedule, OverrunOnce, RunsTyped, RunState,
       SetStatus, Late
  <2>9. CASE CloseSession
    BY <1>0, <2>9, ConstantsAssumption DEF CloseSession, NoRun, OverrunOnce, RunsTyped
  <2>10. QED
    BY <1>3, <2>1, <2>2, <2>3, <2>4, <2>5, <2>6, <2>7, <2>8, <2>9, <2>11, <2>12
    DEF RunnerNext, RunsOn
<1>4. QED
  BY <1>1, <1>2, <1>3 DEF Next, ApiNext

(* A failure the worker wrote is announced before the job is over.          *)
LEMMA AnnouncedStep ==
  ASSUME RowsKnown, Calm, FailureAnnounced, Next, ~StartupNext, ~ApiCrash
  PROVE  FailureAnnounced'
<1> USE DEF executionVars, scheduleVars, queueVars, workerVars, historyVars, RunAt, RunGoto,
    WorkerOnly, Succeeded
<1>0. RunsTyped
  BY DEF RowsKnown, RunsOnceInv, TypeOK, RunsTyped
<1>1. CASE QueueNext
  BY <1>1, QueueLeavesRuns DEF QueueLeaves, FailureAnnounced
<1>2. ASSUME NEW r \in Requests, Starts(r) \/ Continues(r) PROVE FailureAnnounced'
  BY <1>2, ApiLeavesRuns DEF ApiLeaves, FailureAnnounced
<1>3. CASE RunnerNext
  <2>r. UNCHANGED disowned
    BY <1>3, RefusedByApi
  <2>a. ASSUME UNCHANGED notices, run.pc # "notify",
               \A e \in Executions \ disowned :
                 status'[e] = "failed" /\ job'[e] \in {"active", "completed"} =>
                   status[e] = "failed" /\ job[e] \in {"active", "completed"}
        PROVE  FailureAnnounced'
    BY <2>r, <2>a DEF FailureAnnounced
  <2>1. ASSUME NEW e \in Executions, TakeJob(e) PROVE FailureAnnounced'
    <3>1. /\ UNCHANGED <<status, notices>> /\ run.pc = "idle"
          /\ \A f \in Executions : f # e => job'[f] = job[f]
          /\ e \notin disowned => status[e] # "failed"
      BY <1>0, <2>1 DEF TakeJob, RunsTyped, Calm, JobsNotBegun, NotBegun
    <3>2. QED
      BY <2>a, <3>1
  <2>2. ASSUME NEW s \in Recurrings, TakeOccurrence(s) PROVE FailureAnnounced'
    BY <2>2, <2>a DEF TakeOccurrence
  <2>3. CASE StartOccurrence \/ ClaimSchedule
    <3>1. CASE StartOccurrence
      BY <3>1, <2>a DEF StartOccurrence
    <3>2. CASE ClaimSchedule
      BY <1>0, <3>2 DEF ClaimSchedule, Notify, FailureAnnounced, RunsTyped
    <3>3. QED
      BY <2>3, <3>1, <3>2
  <2>4. CASE CreateOccurrenceRow
    BY <1>0, <2>4, <2>a DEF CreateOccurrenceRow, SetStatus
  <2>5. CASE Load
    BY <1>0, <2>5, <2>a DEF Load, CompleteJob
  <2>6. CASE Starting \/ Running
    BY <2>6, <2>a DEF Starting, Running, WriteOver, SetStatus
  <2>7. CASE Preflight \/ OpenSession \/ SessionStarted \/ CheckCancelled \/ ExecuteStep
             \/ StepFailed \/ LastStep \/ Aborted \/ FinishRead \/ SettleSchedule
    <3>1. UNCHANGED <<status, notices, job>> /\ run.pc # "notify"
      BY <2>7 DEF Preflight, OpenSession, SessionStarted, CheckCancelled, ExecuteStep, StepFailed,
         LastStep, Aborted, FinishRead, SettleSchedule
    <3>2. QED
      BY <2>a, <3>1
  <2>8. CASE FinishWrite
    <3>1. run'.pc = "notify" /\ run'.exec = run.exec /\ run'.write = run.write
          /\ run'.from = run.from /\ UNCHANGED <<job, notices>> /\ run.pc = "write"
      BY <1>0, <2>8 DEF FinishWrite, RunsTyped, RunState
    <3>2. \A e \in Executions : e # run.exec => status'[e] = status[e]
      BY <2>8 DEF FinishWrite, SetStatus
    <3>3. CASE run.write = "full"
      <4>1. run.exec \in Executions => (status'[run.exec] = "failed" => run.from # "success")
        BY <2>8, <3>3 DEF FinishWrite, SetStatus
      <4>2. QED
        BY <2>r, <3>1, <3>2, <3>3, <4>1 DEF FailureAnnounced
    <3>4. CASE run.write # "full"
      BY <2>r, <2>8, <3>1, <3>4 DEF FinishWrite, FailureAnnounced
    <3>5. QED
      BY <3>3, <3>4
  <2>9. CASE NotifyOutcome
    <3>1. UNCHANGED <<status, job>> /\ \A e \in Executions : notices[e] \subseteq notices'[e]
      BY <1>0, <2>9 DEF NotifyOutcome, Announce, Notify, RunsTyped
    <3>2. run.exec \in Executions /\ run.write = "full" /\ run.from # "success" =>
            "workflow_failed" \in notices'[run.exec]
      BY <1>0, <2>9 DEF NotifyOutcome, KeepsQuiet, Announce, Notify, RunsTyped
    <3>3. QED
      BY <2>r, <3>1, <3>2 DEF FailureAnnounced
  <2>10. CASE CloseSession
    BY <2>10, <2>a DEF CloseSession, CompleteJob
  <2>11. QED
    BY <1>3, <2>1, <2>2, <2>3, <2>4, <2>5, <2>6, <2>7, <2>8, <2>9, <2>10
    DEF RunnerNext, TakesJob, RunsOn
<1>4. QED
  BY <1>1, <1>2, <1>3 DEF Next, ApiNext

LEMMA OpenJobStep ==
  ASSUME RowsKnown, Calm, RunsJobOpen, Next, ~StartupNext, ~ApiCrash
  PROVE  RunsJobOpen'
<1> USE DEF executionVars, scheduleVars, queueVars, workerVars, historyVars, RunAt, RunGoto,
    WorkerOnly
<1>0. RunsTyped /\ None \notin Executions
  BY ConstantsAssumption DEF RowsKnown, RunsOnceInv, TypeOK, RunsTyped
<1>1. CASE QueueNext
  BY <1>1, QueueLeavesRuns DEF QueueLeaves, RunsJobOpen
<1>2. ASSUME NEW r \in Requests, Starts(r) \/ Continues(r) PROVE RunsJobOpen'
  BY <1>2, ApiLeavesRuns DEF ApiLeaves, RunsJobOpen
<1>3. CASE RunnerNext
  <2>1. ASSUME NEW e \in Executions, TakeJob(e) PROVE RunsJobOpen'
    BY <1>0, <2>1 DEF TakeJob, NoRun, RunsJobOpen, RunsTyped
  <2>2. ASSUME NEW s \in Recurrings, TakeOccurrence(s) PROVE RunsJobOpen'
    BY <1>0, <2>2 DEF TakeOccurrence, NoRun, RunsJobOpen
  <2>3. CASE StartOccurrence
    BY <1>0, <2>3 DEF StartOccurrence, NoRun, RunsJobOpen, RunsTyped, RunState
  <2>4. CASE CreateOccurrenceRow
    BY <1>0, <2>4 DEF CreateOccurrenceRow, Fresh, RunsJobOpen, RunsTyped, RunState, RowsKnown,
       RunsOnceInv, TakenAtMostOnce, AbsentRowsUntouched
  <2>5. CASE Load
    BY <1>0, <2>5 DEF Load, NoRun, RunsJobOpen, RunsTyped, RunState
  <2>6. CASE CloseSession
    BY <1>0, <2>6 DEF CloseSession, NoRun, RunsJobOpen
  <2>7. CASE Starting \/ ClaimSchedule \/ Preflight \/ OpenSession \/ SessionStarted \/ Running
             \/ CheckCancelled \/ ExecuteStep \/ StepFailed \/ LastStep \/ Aborted
             \/ FinishRead \/ FinishWrite \/ NotifyOutcome \/ SettleSchedule
    <3>1. CASE Starting \/ ClaimSchedule
      BY <1>0, <3>1 DEF Starting, ClaimSchedule, WriteOver, RunsJobOpen, RunsTyped, RunState
    <3>2. CASE Preflight \/ OpenSession \/ SessionStarted
      BY ZenonT(40), <1>0, <3>2 DEF Preflight, OpenSession, SessionStarted, RunsJobOpen,
         RunsTyped, RunState
    <3>3. CASE Running
      BY <1>0, <3>3 DEF Running, WriteOver, RunsJobOpen, RunsTyped, RunState
    <3>4. CASE CheckCancelled \/ ExecuteStep \/ StepFailed \/ LastStep
      <4>1. job' = job
        BY <3>4 DEF CheckCancelled, ExecuteStep, StepFailed, LastStep
      <4>2. run'.exec = run.exec
        <5>1. CASE CheckCancelled
          BY <1>0, <5>1 DEF CheckCancelled, RunsTyped, RunState
        <5>2. CASE ExecuteStep
          BY ZenonT(40), <1>0, <5>2 DEF ExecuteStep, RunsTyped, RunState
        <5>3. CASE StepFailed
          BY <1>0, <5>3 DEF StepFailed, RunsTyped, RunState
        <5>4. CASE LastStep
          BY <1>0, <5>4 DEF LastStep, RunsTyped, RunState
        <5>5. QED
          BY <3>4, <5>1, <5>2, <5>3, <5>4
      <4>3. QED
        BY <4>1, <4>2 DEF RunsJobOpen
    <3>5. CASE Aborted \/ FinishRead \/ FinishWrite \/ NotifyOutcome \/ SettleSchedule
      BY ZenonT(40), <1>0, <3>5 DEF Aborted, FinishRead, FinishWrite, NotifyOutcome, SettleSchedule,
         RunsJobOpen, RunsTyped, RunState
    <3>6. QED
      BY <2>7, <3>1, <3>2, <3>3, <3>4, <3>5
  <2>8. QED
    BY <1>3, <2>1, <2>2, <2>3, <2>4, <2>5, <2>6, <2>7 DEF RunnerNext, TakesJob, RunsOn
<1>4. QED
  BY <1>1, <1>2, <1>3 DEF Next, ApiNext

(* A handler moves alone, and a cancellation goes on from its write.        *)
LEMMA HandlersAlone ==
  ASSUME RowsKnown, NEW r \in Requests, Starts(r) \/ Continues(r)
  PROVE  \A q \in Requests : q # r => req'[q] = req[q]
<1> USE DEF executionVars, scheduleVars, queueVars, workerVars, historyVars, At, Goto, Begins
<1>0. RunsTyped
  BY DEF RowsKnown, RunsOnceInv, TypeOK, RunsTyped
<1>1. CASE Starts(r)
  BY ZenonT(40), <1>0, <1>1 DEF Starts, RunCheck, CancelRead, ScheduleCreate, DeleteRead, RunsTyped
<1>2. CASE Continues(r)
  BY <1>0, <1>2 DEF Continues, RunCreate, RunEnqueue, RunEnqueueFailed, CancelWrite, CancelJob,
     CancelRemove, CancelClose, CancelSchedule, ScheduleReserve, ScheduleEnqueue,
     ScheduleUpsert, ScheduleLink, LinkFails, ScheduleFailed, ScheduleRowFailed, DeleteJob, DeleteRemove,
     DeleteScheduler, DeletePending, DeleteWrite, DeleteRows, RunsTyped
<1>3. QED
  BY <1>1, <1>2

Cancels(q) == req[q].pc \in {"cancel.job", "cancel.remove", "cancel.close", "cancel.schedule"}

LEMMA CancelsGoOn ==
  ASSUME RowsKnown, NEW r \in Requests, Starts(r) \/ Continues(r)
  PROVE  /\ req'[r].pc = "cancel.write" =>
              /\ req'[r].exec \in Executions /\ status[req'[r].exec] # "absent"
              /\ req'[r].sched = scheduleId[req'[r].exec]
         /\ Cancels(r)' => /\ Cancels(r) \/ CancelWrite(r)
                           /\ req'[r].exec = req[r].exec /\ req'[r].sched = req[r].sched
         /\ req'[r].pc \in {"cancel.job", "cancel.remove", "cancel.close"} =>
              req[r].pc \in {"cancel.job", "cancel.remove"} \/ CancelWrite(r)
<1> USE DEF executionVars, scheduleVars, queueVars, workerVars, historyVars, At, Goto, Begins,
    Cancels
<1>0. RunsTyped
  BY DEF RowsKnown, RunsOnceInv, TypeOK, RunsTyped
<1> DEFINE Elsewhere ==
      req'[r].pc \notin {"cancel.write", "cancel.job", "cancel.remove", "cancel.close",
                         "cancel.schedule"}
<1>r. /\ req \in [Requests -> RequestState]
      /\ \A q \in Requests : req[q] = [pc |-> req[q].pc, exec |-> req[q].exec,
                                       sched |-> req[q].sched, stops |-> req[q].stops]
  BY <1>0 DEF RunsTyped, RequestState
<1>1. CASE Starts(r)
  <2>1. ASSUME NEW e \in Executions, CancelRead(r, e)
        PROVE  /\ req'[r].pc = "cancel.write" /\ req'[r].exec = e
               /\ req'[r].sched = scheduleId[e] /\ status[e] # "absent"
    BY <1>0, <2>1 DEF CancelRead, RunsTyped, RequestState, EXECUTION_STATES
  <2>2. RunCheck(r) => Elsewhere
    BY <1>r DEF RunCheck
  <2>3. ASSUME NEW s \in Schedules, ScheduleCreate(r, s) PROVE Elsewhere
    BY <1>r, <2>3 DEF ScheduleCreate
  <2>4. ASSUME NEW s \in Schedules, DeleteRead(r, s) PROVE Elsewhere
    <3>1. req'[r].pc \in {"delete.scheduler", "delete.job", "delete.write"}
      BY <1>r, <2>4 DEF DeleteRead, Schedules
    <3>2. QED
      BY <3>1
  <2>5. QED
    BY <1>1, <2>1, <2>2, <2>3, <2>4 DEF Starts
<1>2. CASE CancelWrite(r) \/ CancelJob(r) \/ CancelRemove(r) \/ CancelClose(r)
  BY <1>0, <1>2 DEF CancelWrite, CancelJob, CancelRemove, CancelClose, RunsTyped, RequestState
<1>3. CASE Continues(r) /\ ~(CancelWrite(r) \/ CancelJob(r) \/ CancelRemove(r) \/ CancelClose(r))
  <2>1. Elsewhere
    <3>1. CASE RunCreate(r) \/ RunEnqueue(r) \/ RunEnqueueFailed(r) \/ CancelSchedule(r)
      BY ZenonT(40), <1>r, <3>1 DEF RunCreate, RunEnqueue, RunEnqueueFailed, CancelSchedule
    <3>2. CASE ScheduleReserve(r) \/ ScheduleEnqueue(r) \/ ScheduleUpsert(r)
      BY ZenonT(40), <1>r, <3>2 DEF ScheduleReserve, ScheduleEnqueue, ScheduleUpsert
    <3>3. CASE ScheduleLink(r) \/ ScheduleFailed(r) \/ ScheduleRowFailed(r)
      BY <1>r, <3>3 DEF ScheduleLink, LinkFails, ScheduleFailed, ScheduleRowFailed
    <3>4. CASE DeleteJob(r) \/ DeleteRemove(r) \/ DeleteScheduler(r) \/ DeletePending(r)
      BY <1>r, <3>4 DEF DeleteJob, DeleteRemove, DeleteScheduler, DeletePending
    <3>5. CASE DeleteWrite(r) \/ DeleteRows(r)
      BY <1>r, <3>5 DEF DeleteWrite, DeleteRows
    <3>6. QED
      BY <1>3, <3>1, <3>2, <3>3, <3>4, <3>5 DEF Continues
  <2>2. QED
    BY <2>1
<1>4. QED
  BY <1>1, <1>2, <1>3

(* The handlers of the API keep what was claimed.                           *)
LEMMA ApiClaims ==
  ASSUME RowsKnown, Calm, Claims, NEW r \in Requests, Starts(r) \/ Continues(r)
  PROVE  Claims'
<1> USE DEF executionVars, scheduleVars, queueVars, workerVars, historyVars, At, Goto, Begins,
    Cancels
<1>0. RunsTyped
  BY DEF RowsKnown, RunsOnceInv, TypeOK, RunsTyped
<1>c. None \notin Executions /\ None \notin OneShots
  BY ConstantsAssumption DEF Schedules
<1>1. UNCHANGED run /\ \A q \in Requests : q # r => req'[q] = req[q]
  BY HandlersAlone, ApiLeavesRuns DEF ApiLeaves
<1>2. \A e \in Executions : status[e] # "absent" => scheduleId'[e] = scheduleId[e]
  <2>1. CASE Starts(r)
    BY <2>1 DEF Starts, RunCheck, CancelRead, ScheduleCreate, DeleteRead
  <2>2. CASE ScheduleReserve(r)
    BY <1>0, <2>2 DEF ScheduleReserve, Fresh, RunsTyped
  <2>3. CASE Continues(r) /\ ~ScheduleReserve(r)
    BY <2>3 DEF Continues, RunCreate, RunEnqueue, RunEnqueueFailed, CancelWrite, CancelJob,
       CancelRemove, CancelClose, CancelSchedule, ScheduleEnqueue,
       ScheduleUpsert, ScheduleLink, LinkFails, ScheduleFailed, ScheduleRowFailed, DeleteJob, DeleteRemove,
       DeleteScheduler, DeletePending, DeleteWrite, DeleteRows
  <2>4. QED
    BY <2>1, <2>2, <2>3
<1>3. /\ \A q \in Requests : req[q].exec \in Executions => status[req[q].exec] # "absent"
      /\ run.exec \in Executions => status[run.exec] # "absent"
  BY DEF RowsKnown, RunsOnceInv, TakenAtMostOnce, AbsentRowsUntouched
<1>4. RunKnows'
  BY <1>0, <1>1, <1>2, <1>3 DEF RunKnows, Claims, RunsTyped, RunState
<1>5. CancelsKnow'
  <2>1. \A q \in Requests : q # r => req'[q] = req[q]
    BY <1>1
  <2>2. CancelWrite(r) => req[r].pc = "cancel.write"
    BY DEF CancelWrite
  <2>3. Cancels(r)' => /\ req'[r].exec \in Executions /\ status[req'[r].exec] # "absent"
                       /\ req'[r].sched = scheduleId[req'[r].exec]
    BY <1>3, <2>2, CancelsGoOn DEF CancelsKnow, Claims
  <2>4. CancelsKnow
    BY DEF Claims
  <2>5. QED
    BY <1>2, <1>3, <2>1, <2>3, <2>4, CancelsGoOn DEF CancelsKnow
<1>6. \A s \in Schedules : schedule'[s] = "queued" => schedule[s] = "queued"
  <2>1. CASE Starts(r)
    BY <1>0, <2>1 DEF Starts, RunCheck, CancelRead, ScheduleCreate, DeleteRead, RunsTyped
  <2>2. CASE CancelSchedule(r) \/ ScheduleFailed(r) \/ DeleteWrite(r)
    BY <1>0, <2>2 DEF CancelSchedule, ScheduleFailed, DeleteWrite, RunsTyped
  <2>3. CASE Continues(r) /\ ~(CancelSchedule(r) \/ ScheduleFailed(r) \/ DeleteWrite(r))
    BY <2>3 DEF Continues, RunCreate, RunEnqueue, RunEnqueueFailed, CancelWrite, CancelJob,
       CancelRemove, CancelClose, ScheduleReserve, ScheduleEnqueue,
       ScheduleUpsert, ScheduleLink, LinkFails, ScheduleRowFailed, DeleteJob, DeleteRemove,
       DeleteScheduler, DeletePending, DeleteRows
  <2>4. QED
    BY <2>1, <2>2, <2>3
<1>7. ScheduleClaimed'
  <2> SUFFICES ASSUME NEW s \in OneShots, schedule'[s] = "queued"
               PROVE  \/ /\ run.sched = s
                         /\ run.pc \in {"preflight", "open", "opening", "running", "aborted",
                                        "finish", "write", "notify", "settle"}
                      \/ /\ run.sched = s /\ run.pc \in {"check", "step", "failed", "last"}
                         /\ status'[run.exec] # "cancelled"
                      \/ \E q \in Requests : Cancels(q)' /\ req'[q].sched = s
    BY <1>1 DEF ScheduleClaimed
  <2>1. schedule[s] = "queued" /\ s \in Schedules
    BY <1>6 DEF Schedules
  <2>2. ASSUME NEW q \in Requests, Cancels(q), req[q].sched = s
        PROVE  Cancels(q)' /\ req'[q].sched = s
    <3>1. CASE q # r
      BY <1>1, <2>2, <3>1
    <3>2. CASE q = r
      <4>1. ~CancelSchedule(r)
        BY <1>0, <2>1, <2>2, <3>2 DEF CancelSchedule, RunsTyped
      <4>2. CancelJob(r) \/ CancelRemove(r) \/ CancelClose(r)
        <5>1. ~Starts(r)
          BY <2>2, <3>2 DEF Starts, RunCheck, CancelRead, ScheduleCreate, DeleteRead
        <5>2. QED
          BY <2>2, <3>2, <4>1, <5>1 DEF Continues, RunCreate, RunEnqueue, RunEnqueueFailed,
             CancelWrite, ScheduleReserve, ScheduleEnqueue, ScheduleUpsert, ScheduleLink,
             ScheduleFailed, ScheduleRowFailed, DeleteJob, DeleteRemove, DeleteScheduler,
             DeletePending, DeleteWrite, DeleteRows
      <4>3. QED
        BY <1>0, <1>c, <2>2, <3>2, <4>2 DEF CancelJob, CancelRemove, CancelClose, RunsTyped,
           RequestState
    <3>3. QED
      BY <3>1, <3>2
  <2>3. CASE /\ run.sched = s /\ run.pc \in {"check", "step", "failed", "last"}
             /\ status[run.exec] # "cancelled" /\ status'[run.exec] = "cancelled"
    <3>1. status[run.exec] \notin {"absent", "queued"} /\ run.exec \in Executions
      BY <1>c, <2>3, RunHasRow DEF Calm, RunHasBegun, RowsKnown
    <3>2. CancelWrite(r) /\ req[r].exec = run.exec
      <4>1. ~Starts(r)
        BY <2>3 DEF Starts, RunCheck, CancelRead, ScheduleCreate, DeleteRead
      <4>2. CASE RunCreate(r) \/ ScheduleReserve(r) \/ RunEnqueueFailed(r) \/ ScheduleRowFailed(r)
                 \/ DeleteRows(r)
        BY <1>0, <2>3, <3>1, <4>2 DEF RunCreate, ScheduleReserve, RunEnqueueFailed,
           ScheduleRowFailed, DeleteRows, SetStatus, QueuedOf
      <4>3. CASE CancelWrite(r)
        BY <1>0, <2>3, <3>1, <4>3 DEF CancelWrite, SetStatus
      <4>4. QED
        BY <2>3, <4>1, <4>2, <4>3 DEF Continues, RunEnqueue, CancelJob, CancelRemove, CancelClose,
           CancelSchedule, ScheduleEnqueue, ScheduleUpsert, ScheduleLink, LinkFails, ScheduleFailed,
           DeleteJob, DeleteRemove, DeleteScheduler, DeletePending, DeleteWrite
    <3>3. req[r].sched = s
      BY <1>c, <2>3, <3>1, <3>2 DEF Claims, CancelsKnow, RunKnows, CancelWrite
    <3>4. Cancels(r)' /\ req'[r].sched = s
      BY <1>0, <3>2, <3>3 DEF CancelWrite, RunsTyped, RequestState
    <3>5. QED
      BY <3>4
  <2>4. QED
    BY <2>1, <2>2, <2>3 DEF Claims, ScheduleClaimed
<1>8. QED
  BY <1>4, <1>5, <1>7 DEF Claims

(* And so does the run, which claims a schedule once and settles it.        *)
LEMMA RunnerClaims ==
  ASSUME RowsKnown, Calm, Claims, RunnerNext
  PROVE  Claims'
<1> USE DEF executionVars, scheduleVars, queueVars, workerVars, historyVars, RunAt, RunGoto,
    WorkerOnly
<1>0. RunsTyped
  BY DEF RowsKnown, RunsOnceInv, TypeOK, RunsTyped
<1>r. run \in RunState
  BY <1>0 DEF RunsTyped
<1>c. None \notin Executions /\ None \notin OneShots
  BY ConstantsAssumption DEF Schedules
<1>n. run.exec = None <=> run.pc \in {"down", "idle", "occurrence", "createRow"}
  BY DEF RowsKnown, RunsOnceInv, TakenAtMostOnce, RunInStep
<1> DEFINE Before == {"down", "idle", "occurrence", "createRow", "load", "starting", "claim", "close"}
<1> DEFINE Claimed == {"preflight", "open", "opening", "running", "aborted", "finish", "write",
                       "notify", "settle"}
<1> DEFINE Looping == {"check", "step", "failed", "last"}
<1>a. ASSUME UNCHANGED <<scheduleId, req>> PROVE CancelsKnow'
  BY <1>a DEF Claims, CancelsKnow
<1>b. ASSUME UNCHANGED <<schedule, req>>, run.pc \in Before PROVE ScheduleClaimed'
  BY <1>b DEF Claims, ScheduleClaimed
<1>d. ASSUME UNCHANGED <<scheduleId, schedule, req>>, run'.exec = run.exec, run'.sched = run.sched,
             \/ run.pc \in Claimed \cup Looping /\ run'.pc \in Claimed
             \/ run.pc \in Looping /\ run'.pc \in Looping /\ UNCHANGED status
             \/ run.pc \in Claimed /\ run'.pc \in Looping /\ status'[run.exec] # "cancelled"
      PROVE  Claims'
  BY <1>a, <1>d DEF Claims, RunKnows, ScheduleClaimed
<1>1. ASSUME NEW e \in Executions, TakeJob(e) PROVE Claims'
  BY <1>a, <1>b, <1>1 DEF TakeJob, NoRun, Claims, RunKnows
<1>2. ASSUME NEW s \in Recurrings, TakeOccurrence(s) PROVE Claims'
  BY <1>a, <1>b, <1>2 DEF TakeOccurrence, NoRun, Claims, RunKnows
<1>3. CASE StartOccurrence
  <2>1. run'.exec = None
    BY <1>r, <1>n, <1>3 DEF StartOccurrence, NoRun, RunState
  <2>2. QED
    BY <1>a, <1>b, <1>3, <2>1 DEF StartOccurrence, Claims, RunKnows
<1>4. CASE CreateOccurrenceRow
  <2>1. PICK e \in Fresh : /\ scheduleId' = [scheduleId EXCEPT ![e] = run.sched]
                           /\ run'.exec = e /\ run'.sched = run.sched
    BY <1>r, <1>4 DEF CreateOccurrenceRow, RunState
  <2>2. \A q \in Requests : req[q].exec # e
    BY <2>1 DEF Fresh, RowsKnown, RunsOnceInv, TakenAtMostOnce, AbsentRowsUntouched
  <2>3. CancelsKnow' /\ RunKnows'
    <3>1. UNCHANGED req /\ e \in Executions
      BY <1>4, <2>1 DEF CreateOccurrenceRow, Fresh
    <3>2. scheduleId'[e] = run.sched /\ \A f \in Executions : f # e => scheduleId'[f] = scheduleId[f]
      BY <1>0, <2>1, <3>1 DEF RunsTyped
    <3>3. QED
      BY <2>1, <2>2, <3>1, <3>2 DEF Claims, CancelsKnow, RunKnows
  <2>4. QED
    BY <1>b, <1>4, <2>3 DEF CreateOccurrenceRow, Claims
<1>5. CASE Load
  <2>1. run'.exec = None \/ (run'.exec = run.exec /\ run'.sched = run.sched)
    BY <1>r, <1>5 DEF Load, NoRun, RunState
  <2>2. QED
    <3>1. run.pc = "load" /\ UNCHANGED <<scheduleId, schedule, req>>
      BY <1>5 DEF Load
    <3>2. QED
      BY <1>a, <1>b, <2>1, <3>1 DEF Claims, RunKnows
<1>6. CASE Starting
  <2>1. run'.exec = run.exec /\ run'.sched = run.sched
    BY <1>r, <1>6 DEF Starting, RunState
  <2>2. QED
    BY <1>a, <1>b, <1>6, <2>1 DEF Starting, Claims, RunKnows
<1>7. CASE ClaimSchedule
  <2>1. /\ run.pc = "claim" /\ run'.pc = "preflight"
        /\ run'.exec = run.exec /\ run'.sched = run.sched
        /\ UNCHANGED <<scheduleId, req>>
    BY <1>r, <1>7 DEF ClaimSchedule, RunState
  <2>2. \A s \in OneShots : schedule'[s] = "queued" => schedule[s] = "queued" \/ run.sched = s
    BY <1>0, <1>7 DEF ClaimSchedule, RunsTyped
  <2>3. QED
    BY <1>a, <2>1, <2>2 DEF Claims, RunKnows, ScheduleClaimed
<1>8. CASE Preflight \/ OpenSession
  BY <1>r, <1>d, <1>8 DEF Preflight, OpenSession, RunState
<1>9. CASE SessionStarted
  BY <1>r, <1>d, <1>9 DEF SessionStarted, RunState
<1>10. CASE Running
  <2>1. run.exec \in Executions
    BY <1>10, RunHasRow DEF Running, RowsKnown
  <2>2. status'[run.exec] = "running"
    BY <1>10, <2>1 DEF Running, WriteOver, SetStatus
  <2>3. QED
    BY <1>r, <1>d, <1>10, <2>2 DEF Running, RunState
<1>11. CASE CheckCancelled
  <2>1. /\ run'.exec = run.exec /\ run'.sched = run.sched /\ run.pc = "check"
        /\ UNCHANGED <<scheduleId, schedule, req, status>>
    BY <1>r, <1>11 DEF CheckCancelled, RunState
  <2>2. CASE status[run.exec] = "cancelled"
    BY <1>a, <2>1, <2>2 DEF Claims, RunKnows, ScheduleClaimed
  <2>3. CASE status[run.exec] # "cancelled"
    BY <1>r, <1>d, <1>11, <2>1, <2>3 DEF CheckCancelled, wasCancelled, RunState
  <2>4. QED
    BY <2>2, <2>3
<1>12. CASE ExecuteStep
  BY <1>r, <1>d, <1>12 DEF ExecuteStep, RunState
<1>13. CASE StepFailed \/ LastStep \/ Aborted
  BY <1>r, <1>d, <1>13 DEF StepFailed, LastStep, Aborted, RunState
<1>14. CASE FinishRead \/ FinishWrite \/ NotifyOutcome
  BY <1>r, <1>d, <1>14 DEF FinishRead, FinishWrite, NotifyOutcome, RunState
<1>15. CASE SettleSchedule
  <2>1. /\ run'.exec = run.exec /\ run'.sched = run.sched
        /\ run.pc = "settle" /\ UNCHANGED <<scheduleId, req>>
    BY <1>r, <1>15 DEF SettleSchedule, RunState
  <2>2. \A s \in OneShots : schedule'[s] = "queued" => schedule[s] = "queued" /\ run.sched # s
    BY <1>0, <1>15 DEF SettleSchedule, RunsTyped, Schedules
  <2>3. QED
    BY <1>a, <2>1, <2>2 DEF Claims, RunKnows, ScheduleClaimed
<1>16. CASE CloseSession
  BY <1>a, <1>b, <1>16 DEF CloseSession, NoRun, Claims, RunKnows
<1>17. QED
  BY <1>1, <1>2, <1>3, <1>4, <1>5, <1>6, <1>7, <1>8, <1>9, <1>10, <1>11, <1>12, <1>13, <1>14, <1>15,
     <1>16 DEF RunnerNext, TakesJob, RunsOn

(* A handler opens what it opened before, or a row that was not there.      *)
LEMMA OpensFresh ==
  ASSUME RowsKnown, Calm, NEW r \in Requests, Starts(r) \/ Continues(r), Opening(r)'
  PROVE  \/ Opening(r) /\ req'[r].exec = req[r].exec
         \/ req'[r].exec \in Fresh
<1> USE DEF At, Goto, Begins
<1>r. /\ req \in [Requests -> RequestState]
      /\ \A q \in Requests : req[q] = [pc |-> req[q].pc, exec |-> req[q].exec,
                                       sched |-> req[q].sched, stops |-> req[q].stops]
  BY DEF RowsKnown, RunsOnceInv, TypeOK, RequestState
<1>d. disowned \subseteq disowned'
  BY ApiLeavesRuns DEF ApiLeaves
<1> DEFINE Unopened ==
      req'[r].pc \notin {"run.enqueue", "run.failed", "schedule.enqueue", "schedule.failed",
                         "schedule.rowFailed"}
<1>1. ~Unopened /\ req'[r].exec # None
  BY DEF Opening
<1>2. CASE Starts(r)
  <2>1. ASSUME NEW e \in Executions, CancelRead(r, e) PROVE Unopened
    BY <1>r, <2>1 DEF CancelRead
  <2>2. RunCheck(r) => Unopened
    BY <1>r DEF RunCheck
  <2>3. ASSUME NEW s \in Schedules, ScheduleCreate(r, s) PROVE Unopened
    BY <1>r, <2>3 DEF ScheduleCreate
  <2>4. ASSUME NEW s \in Schedules, DeleteRead(r, s) PROVE Unopened
    <3>1. req'[r].pc \in {"delete.scheduler", "delete.job", "delete.write"}
      BY <1>r, <2>4 DEF DeleteRead, Schedules
    <3>2. QED
      BY <3>1
  <2>5. QED
    BY <1>1, <1>2, <2>1, <2>2, <2>3, <2>4 DEF Starts
<1>3. CASE CancelWrite(r) \/ CancelJob(r) \/ CancelRemove(r) \/ CancelClose(r) \/ CancelSchedule(r)
  <2>1. Unopened
    BY <1>r, <1>3 DEF CancelWrite, CancelJob, CancelRemove, CancelClose, CancelSchedule
  <2>2. QED
    BY <1>1, <2>1
<1>4. CASE DeleteJob(r) \/ DeleteRemove(r) \/ DeleteScheduler(r) \/ DeletePending(r)
           \/ DeleteWrite(r) \/ DeleteRows(r)
  <2>1. Unopened
    BY <1>r, <1>4 DEF DeleteJob, DeleteRemove, DeleteScheduler, DeletePending, DeleteWrite,
       DeleteRows
  <2>2. QED
    BY <1>1, <2>1
<1>5. CASE RunCreate(r) \/ ScheduleReserve(r)
  BY <1>r, <1>5 DEF RunCreate, ScheduleReserve
<1>6. CASE ScheduleUpsert(r)
  <2>1. req'[r].exec = None
    BY <1>r, <1>6 DEF ScheduleUpsert, Calm, RowsKnown, LinksJobs, LinksOwnRow
  <2>2. QED
    BY <1>1, <2>1
<1>7. CASE RunEnqueue(r) \/ RunEnqueueFailed(r) \/ ScheduleEnqueue(r) \/ ScheduleFailed(r)
           \/ ScheduleRowFailed(r)
  <2>1. req'[r].exec = req[r].exec
    BY <1>r, <1>7 DEF RunEnqueue, RunEnqueueFailed, ScheduleEnqueue, ScheduleFailed,
       ScheduleRowFailed
  <2>2. req[r].pc \in {"run.enqueue", "run.failed", "schedule.enqueue", "schedule.failed",
                       "schedule.rowFailed"} \/ Unopened
    BY <1>r, <1>7 DEF RunEnqueue, RunEnqueueFailed, ScheduleEnqueue, ScheduleFailed,
       ScheduleRowFailed
  <2>3. QED
    BY <1>1, <1>d, <2>1, <2>2 DEF Opening
<1>8. CASE ScheduleLink(r)
  <2>1. \/ Unopened
        \/ /\ req'[r].pc = "schedule.failed" /\ req'[r].exec = req[r].exec /\ QueueId(r) \in disowned'
           /\ req[r].pc = "schedule.link"
    BY <1>r, <1>8 DEF ScheduleLink, LinkFails
  <2>2. CASE req[r].pc = "schedule.link" /\ req[r].exec # None
    BY <1>1, <2>1, <2>2 DEF Opening, QueueId, RowsKnown, LinksJobs, LinksOwnRow
  <2>3. QED
    BY <1>1, <2>1, <2>2
<1>9. QED
  BY <1>2, <1>3, <1>4, <1>5, <1>6, <1>7, <1>8 DEF Continues

(* A handler closes the browser of a run only after cancelling its row.     *)
LEMMA ApiReasons ==
  ASSUME RowsKnown, Calm, Claims, ReasonsTrue, NEW r \in Requests, Starts(r) \/ Continues(r)
  PROVE  ReasonsTrue'
<1>0. RunsTyped
  BY DEF RowsKnown, RunsOnceInv, TypeOK, RunsTyped
<1>1. ApiLeaves /\ \A q \in Requests : q # r => req'[q] = req[q]
  BY ApiLeavesRuns, HandlersAlone
<1>2. /\ \A q \in Requests : req[q].exec \in Executions => status[req[q].exec] # "absent"
      /\ run.exec \in Executions => status[run.exec] # "absent"
      /\ run.exec = None <=> run.pc \in {"down", "idle", "occurrence", "createRow"}
      /\ run.exec \in Executions \cup {None} /\ run.pc # "down"
  BY <1>0 DEF RowsKnown, RunsOnceInv, TakenAtMostOnce, AbsentRowsUntouched, RunInStep, Calm,
     RunsTyped, RunState
<1>3. \A e \in Executions : status[e] \in TerminalExecution => status'[e] \in TerminalExecution
  BY <1>1 DEF ApiLeaves, TerminalExecution
<1>4. CancelsTold'
  <2>1. ASSUME req'[r].pc \in {"cancel.job", "cancel.remove", "cancel.close"}
        PROVE  /\ req'[r].exec = req[r].exec /\ req[r].exec \in Executions
               /\ status'[req[r].exec] \in TerminalExecution \/ req[r].exec \in overwritten \cup disowned
    <3>1. /\ req'[r].exec = req[r].exec
          /\ req[r].pc \in {"cancel.job", "cancel.remove"} \/ CancelWrite(r)
      BY <2>1, CancelsGoOn DEF Cancels
    <3>2. CASE CancelWrite(r)
      <4>1. req[r].exec \in Executions
        BY <3>2 DEF CancelWrite, At, Calm, RemovesOwn
      <4>2. status'[req[r].exec] = "cancelled"
        BY <3>2, <4>1 DEF CancelWrite, SetStatus
      <4>3. QED
        BY <3>1, <4>1, <4>2 DEF TerminalExecution
    <3>3. CASE req[r].pc \in {"cancel.job", "cancel.remove"}
      <4>1. req[r].exec \in Executions
        BY <3>3 DEF Calm, RemovesOwn
      <4>2. status[req[r].exec] \in TerminalExecution \/ req[r].exec \in overwritten \cup disowned
        BY <3>3 DEF ReasonsTrue, CancelsTold
      <4>3. QED
        BY <1>3, <3>1, <4>1, <4>2
    <3>4. QED
      BY <3>1, <3>2, <3>3
  <2>2. ASSUME NEW q \in Requests, q # r,
               req'[q].pc \in {"cancel.job", "cancel.remove", "cancel.close"}
        PROVE  status'[req'[q].exec] \in TerminalExecution
               \/ req'[q].exec \in overwritten \cup disowned
    <3>1. req[q].pc \in {"cancel.job", "cancel.remove", "cancel.close"} /\ req'[q] = req[q]
      BY <1>1, <2>2
    <3>2. req[q].exec \in Executions
      BY <3>1 DEF Claims, CancelsKnow
    <3>3. QED
      BY <1>3, <3>1, <3>2 DEF ReasonsTrue, CancelsTold
  <2>3. overwritten' = overwritten /\ disowned \subseteq disowned'
    BY <1>1 DEF ApiLeaves
  <2>4. QED
    BY <2>1, <2>2, <2>3 DEF CancelsTold
<1>5. run.exec \in Executions /\ Excused => Excused'
  BY <1>1 DEF ApiLeaves, Excused
<1>6. BrowserClosed'
  <2>1. CASE browser' = browser
    BY <1>1, <1>2, <1>5, <2>1 DEF ApiLeaves, ReasonsTrue, BrowserClosed, Late
  <2>2. CASE browser' # browser
    <3>1. /\ CancelClose(r) /\ run.exec = req[r].exec /\ browser \in {"creating", "open"}
          /\ req[r].pc = "cancel.close" /\ browser' = "closed"
      BY <2>2 DEF Starts, RunCheck, CancelRead, ScheduleCreate, DeleteRead, Continues, RunCreate,
         RunEnqueue, RunEnqueueFailed, CancelWrite, CancelJob, CancelRemove, CancelClose,
         CancelSchedule, ScheduleReserve, ScheduleEnqueue, ScheduleUpsert, ScheduleLink,
         ScheduleFailed, ScheduleRowFailed, DeleteJob, DeleteRemove, DeleteScheduler,
         DeletePending, DeleteWrite, DeleteRows, workerVars, At
    <3>2. run.exec \in Executions
      BY <3>1 DEF Claims, CancelsKnow
    <3>3. status[run.exec] \in TerminalExecution \/ run.exec \in overwritten \cup disowned
      BY <3>1 DEF ReasonsTrue, CancelsTold
    <3>4. run.pc \notin {"idle", "occurrence", "createRow", "load", "starting", "claim",
                         "preflight", "open"}
      BY <3>1 DEF ReasonsTrue, BrowserClosed
    <3>5. run.exec \notin disowned /\ run.pc \notin Late /\ status[run.exec] \in TerminalExecution =>
            status[run.exec] = "cancelled"
      BY <1>0, <1>2, <3>4 DEF Calm, RunIsWhereRowSays, RunsTyped, RunState, RunPcs, Late,
         TerminalExecution
    <3>6. run.pc \notin Late => Excused'
      BY <1>5, <3>2, <3>3, <3>5 DEF Excused
    <3>7. UNCHANGED run
      BY <1>1 DEF ApiLeaves
    <3>8. QED
      BY <3>1, <3>4, <3>6, <3>7 DEF BrowserClosed
  <2>3. QED
    BY <2>1, <2>2
<1>7. CauseKnown'
  BY <1>1, <1>2, <1>5 DEF ApiLeaves, ReasonsTrue, CauseKnown
<1>8. RescuedLast'
  <2> SUFFICES ASSUME NEW e \in Executions, reason'[e] = "rescued"
               PROVE  /\ status'[e] # "absent" /\ job'[e] \notin {"delayed", "waiting"}
                      /\ \A q \in Requests : Opening(q)' => req'[q].exec # e
                      /\ run'.exec = e => run'.pc \in Late
                                          /\ (run'.cause = "own" \/ e \in overwritten' \cup disowned')
    BY DEF RescuedLast
  <2>1. /\ status[e] # "absent" /\ job[e] \notin {"delayed", "waiting"}
        /\ \A q \in Requests : Opening(q) => req[q].exec # e
        /\ run.exec = e => run.pc \in Late /\ (run.cause = "own" \/ e \in overwritten \cup disowned)
    BY <1>1 DEF ApiLeaves, ReasonsTrue, RescuedLast
  <2>2. Opening(r)' => req'[r].exec # e
    BY <2>1, OpensFresh DEF Fresh
  <2>3. \A q \in Requests : q # r /\ Opening(q)' => Opening(q) /\ req'[q] = req[q]
    BY <1>1 DEF ApiLeaves, Opening
  <2>4. QED
    BY <1>1, <2>1, <2>2, <2>3 DEF ApiLeaves
<1>9. QED
  BY <1>4, <1>6, <1>7, <1>8 DEF ReasonsTrue

(* A run takes a failure for its own only while nobody has cancelled it.    *)
LEMMA RunnerReasons ==
  ASSUME RowsKnown, Calm, Claims, ReasonsTrue, RunnerNext
  PROVE  ReasonsTrue'
<1> USE DEF executionVars, scheduleVars, queueVars, workerVars, historyVars, RunAt, RunGoto,
    WorkerOnly, wasCancelled
<1>0. RunsTyped
  BY DEF RowsKnown, RunsOnceInv, TypeOK, RunsTyped
<1>r. run \in RunState
  BY <1>0 DEF RunsTyped
<1>c. None \notin Executions
  BY ConstantsAssumption
<1>n. /\ run.exec = None <=> run.pc \in {"down", "idle", "occurrence", "createRow"}
      /\ run.exec \in Executions \cup {None}
  BY <1>0 DEF RowsKnown, RunsOnceInv, TakenAtMostOnce, RunInStep, RunsTyped, RunState
<1>d. UNCHANGED disowned
  BY RefusedByApi
<1> USE <1>d
<1>p. CancelsTold /\ BrowserClosed /\ CauseKnown /\ RescuedLast
  BY DEF ReasonsTrue
<1>a. ASSUME UNCHANGED <<status, overwritten, req>> PROVE CancelsTold'
  BY <1>a, <1>p DEF CancelsTold
<1>b. ASSUME UNCHANGED <<status, job, reason, overwritten, req>>, run'.exec = run.exec,
             run.pc \notin Late PROVE RescuedLast'
  BY <1>b, <1>p DEF RescuedLast, Opening
(* Before there is a browser.                                               *)
<1>1. ASSUME NEW e \in Executions, TakeJob(e) PROVE ReasonsTrue'
  <2>1. /\ run.pc = "idle" /\ run'.pc = "load" /\ run'.exec = e /\ ~run'.decided
        /\ job[e] = "waiting" /\ job' = [job EXCEPT ![e] = "active"]
        /\ UNCHANGED <<status, reason, overwritten, req, browser>>
    BY <1>1 DEF TakeJob, NoRun
  <2>2. BrowserClosed' /\ CauseKnown'
    BY <1>p, <2>1 DEF BrowserClosed, CauseKnown, Excused
  <2>3. RescuedLast'
    BY <1>0, <1>c, <1>n, <1>p, <2>1 DEF RescuedLast, Opening, RunsTyped
  <2>4. QED
    BY <1>a, <2>1, <2>2, <2>3 DEF ReasonsTrue
<1>2. ASSUME NEW s \in Recurrings, TakeOccurrence(s) PROVE ReasonsTrue'
  <2>1. /\ run.pc = "idle" /\ run'.pc = "occurrence" /\ run'.exec = None /\ ~run'.decided
        /\ UNCHANGED <<status, reason, job, overwritten, req, browser>>
    BY <1>2 DEF TakeOccurrence, NoRun
  <2>2. BrowserClosed' /\ CauseKnown'
    BY <1>p, <2>1 DEF BrowserClosed, CauseKnown, Excused
  <2>3. RescuedLast'
    BY <1>c, <1>p, <2>1 DEF RescuedLast, Opening
  <2>4. QED
    BY <1>a, <2>1, <2>2, <2>3 DEF ReasonsTrue
<1>3. CASE StartOccurrence
  <2>1. /\ run.pc = "occurrence" /\ run'.exec = None
        /\ run'.pc \in {"idle", "createRow"} /\ run'.decided \in {FALSE, run.decided}
        /\ UNCHANGED <<status, reason, job, overwritten, req, browser>>
    BY <1>r, <1>n, <1>3 DEF StartOccurrence, NoRun, RunState
  <2>2. BrowserClosed' /\ CauseKnown'
    BY <1>p, <2>1 DEF BrowserClosed, CauseKnown, Excused, Late
  <2>3. RescuedLast'
    BY <1>c, <1>p, <2>1 DEF RescuedLast, Opening
  <2>4. QED
    BY <1>a, <2>1, <2>2, <2>3 DEF ReasonsTrue
<1>4. CASE CreateOccurrenceRow
  <2>1. PICK e \in Fresh : /\ run.pc = "createRow" /\ run'.pc = "load" /\ run'.exec = e
                           /\ run'.decided = run.decided /\ SetStatus({e}, "queued")
                           /\ UNCHANGED <<reason, job, overwritten, req, browser>>
    BY <1>r, <1>4 DEF CreateOccurrenceRow, RunState
  <2>2. e \in Executions /\ status[e] = "absent" /\ \A q \in Requests : req[q].exec # e
    BY <2>1 DEF Fresh, RowsKnown, RunsOnceInv, TakenAtMostOnce, AbsentRowsUntouched
  <2>3. \A f \in Executions : f # e => status'[f] = status[f]
    BY <2>1 DEF SetStatus
  <2>4. CancelsTold'
    BY <1>p, <2>1, <2>2, <2>3 DEF CancelsTold, Claims, CancelsKnow
  <2>5. BrowserClosed' /\ CauseKnown'
    BY <1>p, <2>1 DEF BrowserClosed, CauseKnown, Excused, Late
  <2>6. RescuedLast'
    BY <1>p, <1>n, <1>c, <2>1, <2>2, <2>3 DEF RescuedLast, Opening
  <2>7. QED
    BY <2>4, <2>5, <2>6 DEF ReasonsTrue
<1>5. CASE Load
  <2>1. /\ run.pc = "load" /\ UNCHANGED <<status, reason, overwritten, req, browser>>
        /\ run'.pc \in {"idle", "starting"} /\ run'.exec \in {None, run.exec}
        /\ run'.decided \in {FALSE, run.decided}
        /\ \A e \in Executions : job'[e] \in {job[e], "completed"}
    <3>1. /\ run.pc = "load" /\ UNCHANGED <<status, reason, overwritten, req, browser>>
          /\ \/ run' = NoRun /\ CompleteJob
             \/ run' = [run EXCEPT !.pc = "starting"] /\ UNCHANGED job
      BY <1>5 DEF Load
    <3>2. \A e \in Executions : job'[e] \in {job[e], "completed"}
      BY <3>1 DEF CompleteJob
    <3>3. CASE run' = NoRun
      BY <3>1, <3>2, <3>3 DEF NoRun
    <3>4. CASE run' = [run EXCEPT !.pc = "starting"]
      BY <1>r, <3>1, <3>2, <3>4 DEF RunState
    <3>5. QED
      BY <3>1, <3>3, <3>4
  <2>2. BrowserClosed' /\ CauseKnown'
    BY <1>p, <2>1 DEF BrowserClosed, CauseKnown, Excused, Late
  <2>3. RescuedLast'
    BY <1>c, <1>p, <2>1 DEF RescuedLast, Opening, Late
  <2>4. QED
    BY <1>a, <2>1, <2>2, <2>3 DEF ReasonsTrue
(* A status is written over what the row says.                              *)
<1>6. CASE Starting \/ Running
  <2>1. /\ run.exec \in Executions
        /\ run'.exec = run.exec /\ run'.decided = run.decided /\ run'.cause = run.cause
        /\ \/ run.pc = "starting" /\ run'.pc \in {"preflight", "claim"}
           \/ run.pc = "running" /\ run'.pc = "check"
        /\ UNCHANGED <<reason, job, req, browser>>
    BY <1>r, <1>6, RunHasRow DEF Starting, Running, RunState, RowsKnown
  <2>2. /\ overwritten' = overwritten \cup {e \in Executions : e = run.exec /\ status[e] = "cancelled"}
        /\ \A e \in Executions : e # run.exec => status'[e] = status[e]
        /\ status'[run.exec] \in {"starting", "running"}
    BY <1>6, <2>1 DEF Starting, Running, WriteOver, SetStatus
  <2>3. run.exec \in disowned \/ status[run.exec] \in {"queued", "starting", "cancelled"}
    BY <1>6 DEF Starting, Running, Calm, RunIsWhereRowSays, NotBegun
  <2>4. CancelsTold'
    BY <1>p, <2>1, <2>2, <2>3 DEF CancelsTold, Claims, CancelsKnow, TerminalExecution
  <2>5. BrowserClosed' /\ CauseKnown'
    BY <1>p, <2>1, <2>2 DEF BrowserClosed, CauseKnown, Excused, Late
  <2>6. RescuedLast'
    BY <1>p, <2>1, <2>2 DEF RescuedLast, Opening, Late
  <2>7. QED
    BY <2>4, <2>5, <2>6 DEF ReasonsTrue
(* Nothing is decided.                                                      *)
<1>7. CASE ClaimSchedule \/ Preflight \/ OpenSession \/ SessionStarted
  <2>1. /\ UNCHANGED <<status, job, reason, overwritten, req>> /\ run'.exec = run.exec
        /\ run.pc \in {"claim", "preflight", "open", "opening"} /\ run'.decided = run.decided
    BY <1>r, <1>7 DEF ClaimSchedule, Preflight, OpenSession, SessionStarted, RunState
  <2>2. BrowserClosed' /\ CauseKnown'
    <3>1. CASE ClaimSchedule \/ Preflight
      BY <1>r, <1>p, <2>1, <3>1 DEF ClaimSchedule, Preflight, BrowserClosed, CauseKnown, Excused,
         Late, RunState
    <3>2. CASE OpenSession
      BY <1>r, <1>p, <2>1, <3>2 DEF OpenSession, BrowserClosed, CauseKnown, Excused, Late, RunState
    <3>3. CASE SessionStarted
      BY <1>r, <1>p, <2>1, <3>3 DEF SessionStarted, BrowserClosed, CauseKnown, Excused, Late,
         RunState
    <3>4. QED
      BY <1>7, <3>1, <3>2, <3>3
  <2>3. QED
    BY <1>a, <1>b, <2>1, <2>2 DEF ReasonsTrue, Late
<1>8. CASE CheckCancelled \/ ExecuteStep \/ LastStep
  <2>1. /\ UNCHANGED <<status, job, reason, overwritten, req, browser>> /\ run'.exec = run.exec
        /\ run.pc \in {"check", "step", "last"} /\ run'.decided = run.decided
        /\ run'.pc \in {"close", "step", "failed", "check", "last", "finish", "aborted"}
        /\ run'.pc \in {"failed", "aborted"} =>
             run'.cause = "own" \/ (run'.cause = "closed" /\ browser = "closed")
    BY <1>r, <1>8 DEF CheckCancelled, ExecuteStep, LastStep, RunState
  <2>2. BrowserClosed' /\ CauseKnown'
    BY <1>p, <2>1 DEF BrowserClosed, CauseKnown, Excused, Late
  <2>3. QED
    BY <1>a, <1>b, <2>1, <2>2 DEF ReasonsTrue, Late
(* The failure is decided, and written.                                     *)
<1>9. CASE StepFailed \/ Aborted
  <2>1. /\ UNCHANGED <<status, job, reason, overwritten, req, browser>> /\ run'.exec = run.exec
        /\ run.pc \in {"failed", "aborted"} /\ run'.pc = "finish" /\ run'.cause = run.cause
        /\ run'.decided = (status[run.exec] # "cancelled")
    BY <1>r, <1>9 DEF StepFailed, Aborted, RunState
  <2>2. BrowserClosed' /\ CauseKnown'
    BY <1>p, <2>1 DEF BrowserClosed, CauseKnown, Excused, Late
  <2>3. QED
    BY <1>a, <1>b, <2>1, <2>2 DEF ReasonsTrue, Late
<1>10. CASE FinishRead
  <2>1. /\ UNCHANGED <<status, job, reason, overwritten, req, browser>> /\ run'.exec = run.exec
        /\ run.pc = "finish" /\ run'.pc = "write" /\ run'.cause = run.cause
        /\ run'.decided = run.decided
        /\ run'.write = "reason-only" => run.decided
    BY <1>r, <1>10 DEF FinishRead, outcomeWrite, RunState
  <2>2. BrowserClosed' /\ CauseKnown'
    BY <1>p, <2>1 DEF BrowserClosed, CauseKnown, Excused, Late
  <2>3. QED
    BY <1>a, <1>b, <2>1, <2>2 DEF ReasonsTrue, Late
<1>11. CASE FinishWrite
  <2>1. /\ UNCHANGED <<job, overwritten, req, browser>> /\ run'.exec = run.exec
        /\ run.pc = "write" /\ run'.pc = "notify" /\ run'.cause = run.cause
        /\ run'.decided = run.decided /\ run'.write = run.write
        /\ run.exec \in Executions
    BY <1>r, <1>11, RunHasRow DEF FinishWrite, RunState, RowsKnown
  <2>2. /\ \A e \in Executions : e # run.exec =>
             status'[e] = status[e] /\ reason'[e] = reason[e]
        /\ status'[run.exec] \in {status[run.exec], "completed", "failed"}
        /\ reason'[run.exec] = "rescued" =>
             reason[run.exec] = "rescued" \/ run.write = "reason-only"
    BY <1>11, <2>1 DEF FinishWrite, SetStatus, SetReason
  <2>3. CancelsTold'
    BY <1>p, <2>1, <2>2 DEF CancelsTold, Claims, CancelsKnow, TerminalExecution
  <2>4. BrowserClosed' /\ CauseKnown'
    BY <1>p, <2>1 DEF BrowserClosed, CauseKnown, Late
  <2>5. RescuedLast'
    <3>1. /\ status[run.exec] # "absent" /\ job[run.exec] \notin {"delayed", "waiting"}
          /\ \A r \in Requests : Opening(r) => req[r].exec # run.exec
      BY <2>1 DEF Calm, OpenedByOne, RowsKnown, RunsOnceInv, TakenAtMostOnce, WaitingJobsUnacted,
         AbsentRowsUntouched
    <3>2. run.write = "reason-only" => run.cause = "own" \/ run.exec \in overwritten \cup disowned
      BY <1>p, <2>1 DEF CauseKnown
    <3>3. QED
      BY <1>p, <2>1, <2>2, <3>1, <3>2 DEF RescuedLast, Opening, Late
  <2>6. QED
    BY <2>3, <2>4, <2>5 DEF ReasonsTrue
<1>12. CASE NotifyOutcome \/ SettleSchedule
  <2>1. /\ UNCHANGED <<status, job, reason, overwritten, req, browser>> /\ run'.exec = run.exec
        /\ run.pc \in Late /\ run'.pc \in Late /\ run'.cause = run.cause
        /\ run'.decided = run.decided
    BY <1>r, <1>12 DEF NotifyOutcome, SettleSchedule, RunState, Late
  <2>2. BrowserClosed' /\ CauseKnown'
    BY <1>p, <2>1 DEF BrowserClosed, CauseKnown, Excused, Late
  <2>3. RescuedLast'
    BY <1>p, <2>1 DEF RescuedLast, Opening
  <2>4. QED
    BY <1>a, <2>1, <2>2, <2>3 DEF ReasonsTrue
<1>13. CASE CloseSession
  <2>1. /\ UNCHANGED <<status, reason, overwritten, req>> /\ browser' = "none"
        /\ run'.exec = None /\ run'.pc = "idle" /\ ~run'.decided
        /\ \A e \in Executions : job'[e] \in {job[e], "completed"}
    BY <1>13 DEF CloseSession, CompleteJob, NoRun
  <2>2. BrowserClosed' /\ CauseKnown'
    BY <2>1 DEF BrowserClosed, CauseKnown
  <2>3. RescuedLast'
    BY <1>c, <1>p, <2>1 DEF RescuedLast, Opening
  <2>4. QED
    BY <1>a, <2>1, <2>2, <2>3 DEF ReasonsTrue
<1>14. QED
  BY <1>1, <1>2, <1>3, <1>4, <1>5, <1>6, <1>7, <1>8, <1>9, <1>10, <1>11, <1>12, <1>13
  DEF RunnerNext, TakesJob, RunsOn

Tells == ReasonsTrue /\ OverrunOnce /\ FailureAnnounced /\ RunsJobOpen /\ Claims

TellsInv == crashes = 0 => Tells

LEMMA QueueTells ==
  ASSUME RowsKnown, Calm, Tells, QueueNext
  PROVE  ReasonsTrue' /\ Claims'
<1> USE QueueLeavesRuns DEF QueueLeaves, executionVars, scheduleVars, workerVars, historyVars
<1>1. CancelsTold' /\ BrowserClosed' /\ CauseKnown'
  BY DEF Tells, ReasonsTrue, CancelsTold, BrowserClosed, CauseKnown, Excused
<1>2. RescuedLast'
  BY DEF Tells, ReasonsTrue, RescuedLast, Opening
<1>3. Claims'
  BY DEF Tells, Claims, CancelsKnow, RunKnows, ScheduleClaimed
<1>4. QED
  BY <1>1, <1>2, <1>3 DEF ReasonsTrue

LEMMA TellsInvariant == Spec => []TellsInv
<1>1. Init => TellsInv
  <2> SUFFICES ASSUME Init PROVE Tells
    BY DEF TellsInv
  <2>1. ReasonsTrue
    BY DEF Init, ReasonsTrue, CancelsTold, BrowserClosed, CauseKnown, RescuedLast, NewRequest, NoRun
  <2>2. OverrunOnce /\ FailureAnnounced /\ RunsJobOpen
    BY DEF Init, OverrunOnce, FailureAnnounced, RunsJobOpen
  <2>3. Claims
    BY DEF Init, Claims, CancelsKnow, RunKnows, ScheduleClaimed, NewRequest, NoRun, Schedules
  <2>4. QED
    BY <2>1, <2>2, <2>3 DEF Tells
<1>2. RowsKnown /\ CalmInv /\ TellsInv /\ [Next]_vars => TellsInv'
  <2> SUFFICES ASSUME RowsKnown, CalmInv, TellsInv, [Next]_vars, crashes' = 0 PROVE Tells'
    BY DEF TellsInv
  <2>1. CASE UNCHANGED vars
    BY <2>1 DEF TellsInv, vars, Tells, ReasonsTrue, CancelsTold, BrowserClosed, CauseKnown, Excused,
       RescuedLast, Opening, OverrunOnce, FailureAnnounced, Succeeded, RunsJobOpen, Claims,
       CancelsKnow, RunKnows, ScheduleClaimed
  <2>2. CASE Next
    <3>1. crashes = 0
      <4>1. crashes \in Nat /\ crashes' \in {crashes, crashes + 1}
        BY <2>2, CrashesCount DEF RowsKnown, RunsOnceInv, TypeOK
      <4>2. QED
        BY <4>1
    <3>2. Calm /\ Tells /\ ~StartupNext /\ ~ApiCrash
      BY <3>1, DeathsCount DEF CalmInv, TellsInv, RowsKnown
    <3>3. OverrunOnce' /\ FailureAnnounced' /\ RunsJobOpen'
      BY <2>2, <3>2, OverrunStep, AnnouncedStep, OpenJobStep DEF Tells
    <3>4. ReasonsTrue' /\ Claims'
      BY <2>2, <3>2, QueueTells, ApiReasons, ApiClaims, RunnerReasons, RunnerClaims
      DEF Next, ApiNext, Tells
    <3>5. QED
      BY <3>3, <3>4 DEF Tells
  <2>3. QED
    BY <2>1, <2>2
<1>3. QED
  BY <1>1, <1>2, RunsOnceInvariant, RowsInvariant, OccurrenceInvariant, StopInvariant,
     LinksInvariant, CalmInvariant, PTL DEF Spec, RowsKnown

(* While nothing dies, a one-shot schedule says `queued` only while its run *)
(* is on the worker, or a cancellation is about to close it                 *)
(* (run-execution.ts:151-157, 549-550).                                     *)
THEOREM QueuedSchedulesHaveRuns == Spec => [](crashes = 0 => QueuedScheduleHasRun)
<1>1. Claims => QueuedScheduleHasRun
  BY DEF Claims, ScheduleClaimed, QueuedScheduleHasRun, HandlingSchedule
<1>2. QED
  BY <1>1, TellsInvariant, PTL DEF TellsInv, Tells

(* While nothing dies, a scheduled run the worker failed has said so by the *)
(* time its job is over (run-execution.ts:640-689, 418-436).                *)
THEOREM FailuresAreAnnounced == Spec => [](crashes = 0 => NoSilentFailure)
<1>1. FailureAnnounced /\ RunsJobOpen => NoSilentFailure
  BY DEF FailureAnnounced, RunsJobOpen, NoSilentFailure
<1>2. QED
  BY <1>1, TellsInvariant, PTL DEF TellsInv, Tells

(* While nothing dies, a cancellation lets at most the step already decided *)
(* on be performed (run-execution.ts:310-314), whatever the workflow.       *)
THEOREM CancellationsStopPromptly == Spec => [](crashes = 0 => CancelStopsPromptly)
<1>1. OverrunOnce => CancelStopsPromptly
  BY DEF OverrunOnce, CancelStopsPromptly
<1>2. QED
  BY <1>1, TellsInvariant, PTL DEF TellsInv, Tells

(* While nothing dies, the reason kept next to a cancellation is the run's  *)
(* own failure, never the browser the cancellation closed                   *)
(* (run-execution.ts:473-482).                                              *)
THEOREM RescuedReasonsAreOwn == Spec => [](crashes = 0 => OwnFailureRescued)
<1>1. ReasonsTrue => OwnFailureRescued
  BY DEF ReasonsTrue, RescuedLast, OwnFailureRescued
<1>2. QED
  BY <1>1, TellsInvariant, PTL DEF TellsInv, Tells
=============================================================================
