---------------------------- MODULE RunsOnceProofs ----------------------------
(***************************************************************************)
(* Proofs of ExecutionLifecycle and RunsOnce, for every number of          *)
(* executions, schedules, requests, steps and crashes: every state is      *)
(* typed, the invariant of RunsOnce is inductive, no step is performed     *)
(* twice, and the lifecycle implements SiteEffects.                        *)
(***************************************************************************)
EXTENDS RunsOnce, TLAPS

(***************************************************************************)
(* Type correctness, process by process.                                   *)
(***************************************************************************)

(* The record a worker process starts from, at any control point, is typed. *)
LEMMA NoRunTyped ==
  /\ NoRun \in RunState
  /\ \A pc \in RunPcs : [NoRun EXCEPT !.pc = pc] \in RunState
<1>1. 1 \in 1..Steps
  BY ConstantsAssumption
<1>2. QED
  BY <1>1 DEF NoRun, RunState, RunPcs, Origins

LEMMA NoBootTyped ==
  /\ NoBoot \in BootState
  /\ \A pc \in BootPcs : [NoBoot EXCEPT !.pc = pc] \in BootState
BY DEF NoBoot, BootState, BootPcs

LEMMA NewRequestTyped == NewRequest \in RequestState
BY DEF NewRequest, RequestState, RequestPcs

LEMMA InitTypes == Init => TypeOK
<1> SUFFICES ASSUME Init PROVE TypeOK
    OBVIOUS
<1> QED
  BY NoRunTyped, NoBootTyped, NewRequestTyped
  DEF Init, TypeOK, Schedules, JobStates, NOTIFICATION_TYPES

LEMMA QueueTypes == TypeOK /\ QueueNext => TypeOK'
<1> SUFFICES ASSUME TypeOK, QueueNext PROVE TypeOK'
    OBVIOUS
<1> USE DEF TypeOK, executionVars, scheduleVars, queueVars, workerVars, historyVars,
            JobStates
<1>1. ASSUME NEW e \in Executions, Promote(e) PROVE TypeOK'
  BY <1>1 DEF Promote
<1>2. ASSUME NEW e \in Executions, StalledJob(e) PROVE TypeOK'
  BY <1>2 DEF StalledJob
<1>3. ASSUME NEW s \in Recurrings, OccurrenceDue(s) PROVE TypeOK'
  BY <1>3 DEF OccurrenceDue
<1>4. ASSUME NEW s \in OneShots, TimePasses(s) PROVE TypeOK'
  BY <1>4 DEF TimePasses
<1>5. QED
  BY <1>1, <1>2, <1>3, <1>4 DEF QueueNext

LEMMA StartupTypes == TypeOK /\ StartupNext => TypeOK'
<1> SUFFICES ASSUME TypeOK, StartupNext PROVE TypeOK'
    OBVIOUS
<1> USE DEF TypeOK, executionVars, scheduleVars, queueVars, workerVars, historyVars,
            BootOnly, EXECUTION_STATES, SCHEDULE_STATES, NOTIFICATION_TYPES,
            SetStatus, SetReason, Notify
<1>1. CASE WorkerCrash
  <2>1. run' \in RunState /\ boot' \in BootState
    BY <1>1, NoRunTyped, NoBootTyped DEF WorkerCrash, RunPcs
  <2>2. QED BY <1>1, <2>1 DEF WorkerCrash
<1>2. CASE WorkerStart
  <2>1. run' \in RunState /\ boot' \in BootState
    BY <1>2, NoRunTyped, NoBootTyped DEF WorkerStart, BootPcs
  <2>2. QED BY <1>2, <2>1 DEF WorkerStart
<1>3. CASE ReadOrphans
  BY <1>3 DEF ReadOrphans, BootState, BootPcs
<1>4. ASSUME NEW e \in Executions, FailOrphan(e) PROVE TypeOK'
  BY <1>4 DEF FailOrphan, BootState, BootPcs
<1>5. CASE ReadMissed
  BY <1>5 DEF ReadMissed, BootState, BootPcs
<1>6. ASSUME NEW s \in OneShots, FailMissed(s) PROVE TypeOK'
  BY <1>6 DEF FailMissed, BootState, BootPcs, Schedules
<1>7. CASE FailMissedRows
  BY <1>7 DEF FailMissedRows, BootState, BootPcs
<1>8. CASE BootDone
  BY <1>8 DEF BootDone, BootState, BootPcs, NoBoot
<1>9. QED
  BY <1>1, <1>2, <1>3, <1>4, <1>5, <1>6, <1>7, <1>8 DEF StartupNext, Reconciles

(* A handler moves on, alone or with the row it has made. *)
LEMMA RequestAdvances ==
  ASSUME req \in [Requests -> RequestState], NEW r \in Requests,
         NEW pc \in RequestPcs
  PROVE  [req EXCEPT ![r].pc = pc] \in [Requests -> RequestState]
BY DEF RequestState

LEMMA RequestMakesRow ==
  ASSUME req \in [Requests -> RequestState], NEW r \in Requests,
         NEW pc \in RequestPcs, NEW e \in Executions \cup {None}
  PROVE  [req EXCEPT ![r].pc = pc, ![r].exec = e] \in [Requests -> RequestState]
BY DEF RequestState

(* A handler reads what its request is about. *)
LEMMA RequestReads ==
  ASSUME req \in [Requests -> RequestState], NEW r \in Requests,
         NEW pc \in RequestPcs, NEW e \in Executions \cup {None},
         NEW s \in Schedules \cup {None}, NEW ss \in SUBSET Schedules
  PROVE  /\ [req EXCEPT ![r].sched = s, ![r].pc = pc] \in [Requests -> RequestState]
         /\ [req EXCEPT ![r].pc = pc, ![r].exec = e, ![r].sched = s]
              \in [Requests -> RequestState]
         /\ [req EXCEPT ![r].sched = s, ![r].stops = ss, ![r].exec = e, ![r].pc = pc]
              \in [Requests -> RequestState]
<1>1. [req EXCEPT ![r].sched = s, ![r].pc = pc] \in [Requests -> RequestState]
  BY DEF RequestState
<1>2. [req EXCEPT ![r].pc = pc, ![r].exec = e, ![r].sched = s]
        \in [Requests -> RequestState]
  BY DEF RequestState
<1>3. [req EXCEPT ![r].sched = s, ![r].stops = ss, ![r].exec = e, ![r].pc = pc]
        \in [Requests -> RequestState]
  <2>1. [req[r] EXCEPT !.sched = s, !.stops = ss, !.exec = e, !.pc = pc]
          \in RequestState
    BY DEF RequestState
  <2>2. QED
    BY <2>1
<1>4. QED
  BY <1>1, <1>2, <1>3

(* Every handler stays at one of its control points. *)
LEMMA HandlersTyped ==
  ASSUME TypeOK, NEW r \in Requests, Starts(r) \/ Continues(r)
  PROVE  req' \in [Requests -> RequestState]
<1> DEFINE Typed == req' \in [Requests -> RequestState]
<1>0. req \in [Requests -> RequestState]
  BY DEF TypeOK
<1> SUFFICES Typed
    OBVIOUS
<1>a. \A pc \in RequestPcs : Goto(r, pc) => Typed
  BY <1>0, RequestAdvances DEF Goto
<1>b. \A pc \in RequestPcs, e \in Executions \cup {None} :
        req' = [req EXCEPT ![r].pc = pc, ![r].exec = e] => Typed
  <2> TAKE pc \in RequestPcs, e \in Executions \cup {None}
  <2>1. [req EXCEPT ![r].pc = pc, ![r].exec = e] \in [Requests -> RequestState]
    BY <1>0, RequestMakesRow
  <2>2. QED
    BY <2>1
<1>c. /\ "done" \in RequestPcs /\ "run.create" \in RequestPcs
      /\ "run.enqueue" \in RequestPcs /\ "run.failed" \in RequestPcs
      /\ "cancel.write" \in RequestPcs /\ "cancel.job" \in RequestPcs
      /\ "cancel.remove" \in RequestPcs /\ "cancel.close" \in RequestPcs
      /\ "cancel.schedule" \in RequestPcs /\ "schedule.reserve" \in RequestPcs
      /\ "schedule.enqueue" \in RequestPcs /\ "schedule.upsert" \in RequestPcs
      /\ "schedule.link" \in RequestPcs /\ "schedule.failed" \in RequestPcs
      /\ "schedule.rowFailed" \in RequestPcs /\ "delete.job" \in RequestPcs
      /\ "delete.remove" \in RequestPcs /\ "delete.scheduler" \in RequestPcs
      /\ "delete.pending" \in RequestPcs /\ "delete.write" \in RequestPcs
      /\ "delete.rows" \in RequestPcs
  BY DEF RequestPcs
<1> HIDE DEF Typed
<1>1. CASE RunCheck(r)
  BY <1>1, <1>a, <1>c DEF RunCheck
<1>2. ASSUME NEW e \in Executions, CancelRead(r, e) PROVE Typed
  <2>1. scheduleId[e] \in Schedules \cup {None}
    BY DEF TypeOK
  <2>2. req' = [req EXCEPT ![r].pc = "cancel.write", ![r].exec = e,
                           ![r].sched = scheduleId[e]]
    BY <1>2 DEF CancelRead
  <2>3. QED
    BY <1>0, <1>c, <2>1, <2>2, RequestReads DEF Typed
<1>3. ASSUME NEW s \in Schedules, ScheduleCreate(r, s) PROVE Typed
  <2>1. PICK pc \in RequestPcs : req' = [req EXCEPT ![r].sched = s, ![r].pc = pc]
    BY <1>3, <1>c DEF ScheduleCreate
  <2>2. QED
    BY <1>0, <2>1, RequestReads DEF Typed
<1>4. ASSUME NEW s \in Schedules, DeleteRead(r, s) PROVE Typed
  <2> DEFINE ex == IF s \in OneShots THEN queueJobId[s] ELSE None
             pc == CASE s \in Recurrings -> "delete.scheduler"
                     [] s \in OneShots /\ queueJobId[s] # None -> "delete.job"
                     [] s \in OneShots /\ queueJobId[s] = None -> "delete.write"
             ss == IF queueJobId[s] # None THEN {s} ELSE {}
  <2>1. ex \in Executions \cup {None} /\ ss \in SUBSET Schedules
    BY DEF TypeOK
  <2>2. pc \in RequestPcs
    BY <1>c, ConstantsAssumption DEF Schedules
  <2>3. req' = [req EXCEPT ![r].sched = s, ![r].stops = ss, ![r].exec = ex,
                           ![r].pc = pc]
    BY <1>4 DEF DeleteRead
  <2> HIDE DEF ex, pc, ss
  <2>4. QED
    BY <1>0, <2>1, <2>2, <2>3, RequestReads DEF Typed
<1>5. CASE RunCreate(r)
  BY <1>5, <1>b, <1>c DEF RunCreate, Fresh
<1>6. CASE RunEnqueue(r)
  BY <1>6, <1>a, <1>c DEF RunEnqueue
<1>7. CASE RunEnqueueFailed(r)
  BY <1>7, <1>a, <1>c DEF RunEnqueueFailed
<1>8. CASE CancelWrite(r)
  BY <1>8, <1>a, <1>c DEF CancelWrite
<1>9. CASE CancelJob(r)
  BY <1>9, <1>a, <1>c DEF CancelJob
<1>10. CASE CancelRemove(r)
  BY <1>10, <1>a, <1>c DEF CancelRemove
<1>11. CASE CancelClose(r)
  BY <1>11, <1>a, <1>c DEF CancelClose
<1>12. CASE CancelSchedule(r)
  BY <1>12, <1>a, <1>c DEF CancelSchedule
<1>13. CASE ScheduleReserve(r)
  BY <1>13, <1>b, <1>c DEF ScheduleReserve, Fresh
<1>14. CASE ScheduleEnqueue(r)
  BY <1>14, <1>a, <1>c DEF ScheduleEnqueue
<1>15. CASE ScheduleUpsert(r)
  BY <1>15, <1>a, <1>c DEF ScheduleUpsert
<1>16. CASE ScheduleLink(r)
  BY <1>16, <1>a, <1>c DEF ScheduleLink, LinkFails
<1>17. CASE ScheduleFailed(r)
  BY <1>17, <1>a, <1>c DEF ScheduleFailed
<1>18. CASE ScheduleRowFailed(r)
  BY <1>18, <1>a, <1>c DEF ScheduleRowFailed
<1>19. CASE DeleteJob(r)
  BY <1>19, <1>a, <1>c DEF DeleteJob
<1>20. CASE DeleteRemove(r)
  BY <1>20, <1>a, <1>c DEF DeleteRemove
<1>21. CASE DeleteScheduler(r)
  BY <1>21, <1>a, <1>c DEF DeleteScheduler
<1>22. CASE DeletePending(r)
  BY <1>22, <1>a, <1>c DEF DeletePending
<1>23. CASE DeleteWrite(r)
  BY <1>23, <1>a, <1>c DEF DeleteWrite
<1>24. CASE DeleteRows(r)
  BY <1>24, <1>a, <1>c DEF DeleteRows
<1>25. QED
  BY <1>1, <1>2, <1>3, <1>4, <1>5, <1>6, <1>7, <1>8, <1>9, <1>10, <1>11, <1>12, <1>13, <1>14, <1>15, <1>16, <1>17, <1>18, <1>19, <1>20, <1>21, <1>22, <1>23, <1>24
  DEF Starts, Continues

LEMMA ApiTypes == TypeOK /\ ApiNext => TypeOK'
<1> SUFFICES ASSUME TypeOK, ApiNext PROVE TypeOK'
    OBVIOUS
<1> USE DEF TypeOK, executionVars, scheduleVars, queueVars, workerVars, historyVars,
            Goto
<1>1. CASE ApiCrash
  <2>1. req' \in [Requests -> RequestState]
    <3>1. \A r \in Requests : [req[r] EXCEPT !.pc = "done"] \in RequestState
      BY DEF RequestState, RequestPcs
    <3>2. QED
      BY <1>1, <3>1 DEF ApiCrash
  <2>2. QED
    BY <1>1, <2>1 DEF ApiCrash
<1>2. ASSUME NEW r \in Requests, Starts(r) PROVE TypeOK'
  <2>0. req' \in [Requests -> RequestState]
    BY <1>2, HandlersTyped
  <2>1. CASE RunCheck(r)
    BY <2>0, <2>1 DEF RunCheck
  <2>2. ASSUME NEW e \in Executions, CancelRead(r, e) PROVE TypeOK'
    BY <2>0, <2>2 DEF CancelRead
  <2>3. ASSUME NEW s \in Schedules, ScheduleCreate(r, s) PROVE TypeOK'
    BY <2>0, <2>3 DEF ScheduleCreate, SCHEDULE_STATES
  <2>4. ASSUME NEW s \in Schedules, DeleteRead(r, s) PROVE TypeOK'
    BY <2>0, <2>4 DEF DeleteRead
  <2>5. QED
    BY <1>2, <2>1, <2>2, <2>3, <2>4 DEF Starts
<1>3. ASSUME NEW r \in Requests, Continues(r) PROVE TypeOK'
  <2>0. req' \in [Requests -> RequestState]
    BY <1>3, HandlersTyped
  <2>1. CASE RunCreate(r)
    BY <2>0, <2>1 DEF RunCreate, Fresh, SetStatus, EXECUTION_STATES
  <2>2. CASE RunEnqueue(r)
    BY <2>0, <2>2 DEF RunEnqueue, enqueueNow, JobStates
  <2>3. CASE RunEnqueueFailed(r)
    BY <2>0, <2>3 DEF RunEnqueueFailed, SetStatus, SetReason, EXECUTION_STATES
  <2>4. CASE CancelWrite(r)
    BY <2>0, <2>4 DEF CancelWrite, SetStatus, SetReason, EXECUTION_STATES
  <2>5. CASE CancelJob(r)
    BY <2>0, <2>5 DEF CancelJob
  <2>6. CASE CancelRemove(r)
    BY <2>0, <2>6 DEF CancelRemove, removeJob, JobStates
  <2>7. CASE CancelClose(r)
    BY <2>0, <2>7 DEF CancelClose
  <2>8. CASE CancelSchedule(r)
    BY <2>0, <2>8 DEF CancelSchedule, SCHEDULE_STATES
  <2>9. CASE ScheduleReserve(r)
    <3>1. req[r].sched \in Schedules \cup {None}
      BY DEF RequestState
    <3>2. QED
      BY <2>0, <2>9, <3>1 DEF ScheduleReserve, Fresh, SetStatus, EXECUTION_STATES
  <2>10. CASE ScheduleEnqueue(r)
    BY <2>0, <2>10 DEF ScheduleEnqueue, enqueueDelayed, JobStates
  <2>11. CASE ScheduleUpsert(r)
    <3>1. scheduler' = scheduler \/ scheduler' = [scheduler EXCEPT ![req[r].sched] = TRUE]
      BY <2>11 DEF ScheduleUpsert, upsertRecurring
    <3>2. \/ occurrence' = occurrence
          \/ occurrence' = [occurrence EXCEPT ![req[r].sched] = "delayed"]
      BY <2>11 DEF ScheduleUpsert, upsertRecurring
    <3>3. scheduler' \in [Recurrings -> BOOLEAN]
      BY <3>1
    <3>4. occurrence' \in [Recurrings -> {"none", "delayed", "waiting"}]
      BY <3>2
    <3>5. QED
      BY <2>0, <2>11, <3>3, <3>4 DEF ScheduleUpsert
  <2>12. CASE ScheduleLink(r)
    <3> DEFINE sched == req[r].sched
               link == IF sched \in OneShots THEN req[r].exec ELSE sched
    <3>1. sched \in Schedules \cup {None} /\ req[r].exec \in Executions \cup {None}
      BY DEF RequestState
    <3>2. queueJobId' = queueJobId \/ queueJobId' = [queueJobId EXCEPT ![sched] = link]
      BY <2>12 DEF ScheduleLink, PointsAt, QueueId
    <3>3. sched \in Schedules => link \in Executions \cup Recurrings \cup {None}
      BY <3>1 DEF Schedules
    <3>4. sched \in OneShots => link \in Executions \cup {None}
      BY <3>1
    <3>a. disowned' = disowned \/ disowned' = disowned \cup {link}
      BY <2>12 DEF ScheduleLink, LinkFails, QueueId
    <3>b. link \in Executions \cup Recurrings \cup {None}
      BY <3>1 DEF Schedules
    <3> HIDE DEF sched, link
    <3>5. queueJobId' \in [Schedules -> Executions \cup Recurrings \cup {None}]
      BY <3>2, <3>3
    <3>6. \A s \in OneShots : queueJobId'[s] \in Executions \cup {None}
      BY <3>2, <3>4 DEF Schedules
    <3>7. disowned' \subseteq Executions \cup Recurrings \cup {None}
      BY <3>a, <3>b
    <3>8. QED
      BY <2>0, <2>12, <3>5, <3>6, <3>7 DEF ScheduleLink, LinkFails
  <2>13. CASE ScheduleFailed(r)
    BY <2>0, <2>13 DEF ScheduleFailed, SCHEDULE_STATES
  <2>14. CASE ScheduleRowFailed(r)
    BY <2>0, <2>14 DEF ScheduleRowFailed, SetStatus, SetReason, EXECUTION_STATES
  <2>15. CASE DeleteJob(r)
    BY <2>0, <2>15 DEF DeleteJob
  <2>16. CASE DeleteRemove(r)
    BY <2>0, <2>16 DEF DeleteRemove, removeJob, JobStates
  <2>17. CASE DeleteScheduler(r)
    BY <2>0, <2>17 DEF DeleteScheduler, removeJobScheduler
  <2>18. CASE DeletePending(r)
    BY <2>0, <2>18 DEF DeletePending, removePending
  <2>19. CASE DeleteWrite(r)
    BY <2>0, <2>19 DEF DeleteWrite, SCHEDULE_STATES
  <2>20. CASE DeleteRows(r)
    <3>1. req[r].stops \in SUBSET Schedules
      BY DEF RequestState
    <3>2. QED
      BY <2>0, <2>20, <3>1 DEF DeleteRows, SetStatus, EXECUTION_STATES
  <2>21. QED
    BY <1>3, <2>1, <2>2, <2>3, <2>4, <2>5, <2>6, <2>7, <2>8, <2>9, <2>10, <2>11, <2>12, <2>13, <2>14, <2>15, <2>16, <2>17, <2>18, <2>19, <2>20 DEF Continues
<1>4. QED
  BY <1>1, <1>2, <1>3 DEF ApiNext

(* The run keeps its record typed. *)
LEMMA RunTyped ==
  ASSUME TypeOK, RunnerNext
  PROVE  run' \in RunState
<1>0. /\ run \in RunState
      /\ scheduleId \in [Executions -> Schedules \cup {None}]
  BY DEF TypeOK
<1>a. /\ "load" \in RunPcs /\ "starting" \in RunPcs /\ "claim" \in RunPcs
      /\ "preflight" \in RunPcs /\ "open" \in RunPcs /\ "opening" \in RunPcs
      /\ "running" \in RunPcs /\ "check" \in RunPcs /\ "step" \in RunPcs
      /\ "failed" \in RunPcs /\ "last" \in RunPcs /\ "aborted" \in RunPcs
      /\ "finish" \in RunPcs /\ "write" \in RunPcs /\ "notify" \in RunPcs
      /\ "settle" \in RunPcs /\ "close" \in RunPcs /\ "createRow" \in RunPcs
      /\ "occurrence" \in RunPcs
      /\ "preflight" \in Origins /\ "step" \in Origins /\ "success" \in Origins
      /\ "catch" \in Origins
  BY DEF RunPcs, Origins
<1>b. \A pc \in RunPcs : [run EXCEPT !.pc = pc] \in RunState
  BY <1>0 DEF RunState
<1>c. \A pc \in RunPcs, c \in {"none", "own", "closed"} :
        [run EXCEPT !.pc = pc, !.cause = c] \in RunState
  BY <1>0 DEF RunState
<1>d. \A pc \in RunPcs, o \in Origins : [run EXCEPT !.pc = pc, !.from = o] \in RunState
  BY <1>0 DEF RunState
<1>e. \A pc \in RunPcs, o \in Origins, d \in BOOLEAN :
        [run EXCEPT !.pc = pc, !.from = o, !.decided = d] \in RunState
  BY <1>0 DEF RunState
<1> USE DEF RunGoto
<1>1. ASSUME NEW e \in Executions, TakeJob(e) PROVE run' \in RunState
  <2>1. [NoRun EXCEPT !.pc = "load", !.exec = e, !.sched = scheduleId[e]] \in RunState
    BY <1>0, <1>a, NoRunTyped DEF RunState
  <2>2. QED
    BY <1>1, <2>1 DEF TakeJob
<1>2. ASSUME NEW s \in Recurrings, TakeOccurrence(s) PROVE run' \in RunState
  <2>1. [NoRun EXCEPT !.pc = "occurrence", !.sched = s] \in RunState
    BY <1>a, NoRunTyped DEF RunState, Schedules
  <2>2. QED
    BY <1>2, <2>1 DEF TakeOccurrence
<1>3. CASE StartOccurrence
  BY <1>3, <1>a, <1>b, NoRunTyped DEF StartOccurrence
<1>4. CASE CreateOccurrenceRow
  <2>1. PICK e \in Executions : run' = [run EXCEPT !.pc = "load", !.exec = e]
    BY <1>4 DEF CreateOccurrenceRow, Fresh
  <2>2. QED
    BY <1>0, <1>a, <2>1 DEF RunState
<1>5. CASE Load
  BY <1>5, <1>a, <1>b, NoRunTyped DEF Load
<1>6. CASE Starting
  BY <1>6, <1>a, <1>b DEF Starting
<1>7. CASE ClaimSchedule
  BY <1>7, <1>a, <1>b DEF ClaimSchedule
<1>8. CASE Preflight
  <2>1. [run EXCEPT !.pc = "open"] \in RunState
    BY <1>a, <1>b
  <2>2. [run EXCEPT !.pc = "finish", !.from = "preflight"] \in RunState
    BY <1>a, <1>d
  <2>3. QED
    BY <1>8, <2>1, <2>2 DEF Preflight
<1>9. CASE OpenSession
  BY <1>9, <1>a, <1>b, <1>c DEF OpenSession
<1>10. CASE SessionStarted
  <2>1. PICK pc \in RunPcs, c \in {"none", "own", "closed"} :
          run' \in {[run EXCEPT !.pc = pc], [run EXCEPT !.pc = pc, !.cause = c]}
    BY <1>10, <1>a DEF SessionStarted
  <2>2. QED
    BY <1>b, <1>c, <2>1
<1>11. CASE Running
  BY <1>11, <1>a, <1>b DEF Running
<1>12. CASE CheckCancelled
  BY <1>12, <1>a, <1>b DEF CheckCancelled
<1>13. CASE ExecuteStep
  <2>1. run.step < Steps => [run EXCEPT !.pc = "check", !.step = run.step + 1] \in RunState
    <3>1. run.step \in 1..Steps
      BY <1>0 DEF RunState
    <3>2. run.step < Steps => run.step + 1 \in 1..Steps
      BY <3>1, ConstantsAssumption
    <3>3. \A n \in 1..Steps : [run EXCEPT !.pc = "check", !.step = n] \in RunState
      BY <1>0, <1>a DEF RunState
    <3>4. QED
      BY <3>2, <3>3
  <2>2. PICK pc \in RunPcs, c \in {"none", "own", "closed"} :
          \/ run' \in {[run EXCEPT !.pc = pc], [run EXCEPT !.pc = pc, !.cause = c]}
          \/ /\ run.step < Steps
             /\ run' = [run EXCEPT !.pc = "check", !.step = run.step + 1]
    BY <1>13, <1>a DEF ExecuteStep
  <2>3. QED
    BY <1>b, <1>c, <2>1, <2>2
<1>14. CASE StepFailed
  BY <1>14, <1>a, <1>e DEF StepFailed, wasCancelled
<1>15. CASE LastStep
  <2>1. [run EXCEPT !.pc = "finish", !.from = "success"] \in RunState
    BY <1>a, <1>d
  <2>2. [run EXCEPT !.pc = "aborted", !.cause = "closed"] \in RunState
    BY <1>a, <1>c
  <2>3. QED
    BY <1>15, <2>1, <2>2 DEF LastStep
<1>16. CASE Aborted
  BY <1>16, <1>a, <1>e DEF Aborted, wasCancelled
<1>17. CASE FinishRead
  <2>1. outcomeWrite(wasCancelled, run.decided) \in {"full", "reason-only", "nothing"}
    BY <1>0 DEF outcomeWrite, wasCancelled, RunState
  <2>2. QED
    BY <1>0, <1>a, <1>17, <2>1 DEF FinishRead, RunState
<1>18. CASE FinishWrite
  BY <1>18, <1>a, <1>b DEF FinishWrite
<1>19. CASE NotifyOutcome
  BY <1>19, <1>a, <1>b DEF NotifyOutcome
<1>20. CASE SettleSchedule
  BY <1>20, <1>a, <1>b DEF SettleSchedule
<1>21. CASE CloseSession
  BY <1>21, NoRunTyped DEF CloseSession
<1>22. QED
  BY <1>1, <1>2, <1>3, <1>4, <1>5, <1>6, <1>7, <1>8, <1>9, <1>10, <1>11, <1>12, <1>13, <1>14, <1>15, <1>16, <1>17, <1>18, <1>19, <1>20, <1>21
  DEF RunnerNext, TakesJob, RunsOn

LEMMA RunnerTypes == TypeOK /\ RunnerNext => TypeOK'
<1> SUFFICES ASSUME TypeOK, RunnerNext PROVE TypeOK'
    OBVIOUS
<1>0. run' \in RunState
  BY RunTyped
<1> USE DEF TypeOK, executionVars, scheduleVars, queueVars, workerVars, historyVars,
            WorkerOnly
<1>1. ASSUME NEW e \in Executions, TakeJob(e) PROVE TypeOK'
  BY <1>0, <1>1 DEF TakeJob, JobStates
<1>2. ASSUME NEW s \in Recurrings, TakeOccurrence(s) PROVE TypeOK'
  BY <1>0, <1>2 DEF TakeOccurrence
<1>3. CASE StartOccurrence
  BY <1>0, <1>3 DEF StartOccurrence
<1>4. CASE CreateOccurrenceRow
  <2>1. run.sched \in Schedules \cup {None}
    BY DEF RunState
  <2>2. PICK e \in Executions :
          /\ status' = [f \in Executions |-> IF f \in {e} THEN "queued" ELSE status[f]]
          /\ scheduleId' = [scheduleId EXCEPT ![e] = run.sched]
    BY <1>4 DEF CreateOccurrenceRow, Fresh, SetStatus
  <2>3. status' \in [Executions -> EXECUTION_STATES \cup {"absent"}]
    BY <2>2 DEF EXECUTION_STATES
  <2>4. scheduleId' \in [Executions -> Schedules \cup {None}]
    BY <2>1, <2>2
  <2>5. QED
    BY <1>0, <1>4, <2>3, <2>4 DEF CreateOccurrenceRow
<1>5. CASE Load
  BY <1>0, <1>5 DEF Load, CompleteJob, JobStates
<1>6. CASE Starting
  BY <1>0, <1>6 DEF Starting, WriteOver, SetStatus, EXECUTION_STATES
<1>7. CASE ClaimSchedule
  BY <1>0, <1>7 DEF ClaimSchedule, Notify, NOTIFICATION_TYPES, SCHEDULE_STATES
<1>8. CASE Preflight
  BY <1>0, <1>8 DEF Preflight
<1>9. CASE OpenSession
  BY <1>0, <1>9 DEF OpenSession
<1>10. CASE SessionStarted
  BY <1>0, <1>10 DEF SessionStarted
<1>11. CASE Running
  BY <1>0, <1>11 DEF Running, WriteOver, SetStatus, EXECUTION_STATES
<1>12. CASE CheckCancelled
  BY <1>0, <1>12 DEF CheckCancelled
<1>13. CASE ExecuteStep
  <2>1. acted' \in [Executions -> Nat] /\ overran' \in [Executions -> Nat]
    BY <1>13 DEF ExecuteStep
  <2>2. QED
    BY <1>0, <1>13, <2>1 DEF ExecuteStep
<1>14. CASE StepFailed
  BY <1>0, <1>14 DEF StepFailed
<1>15. CASE LastStep
  BY <1>0, <1>15 DEF LastStep
<1>16. CASE Aborted
  BY <1>0, <1>16 DEF Aborted
<1>17. CASE FinishRead
  BY <1>0, <1>17 DEF FinishRead
<1>18. CASE FinishWrite
  BY <1>0, <1>18 DEF FinishWrite, SetStatus, SetReason, EXECUTION_STATES
<1>19. CASE NotifyOutcome
  BY <1>0, <1>19 DEF NotifyOutcome, Announce, Notify, NOTIFICATION_TYPES
<1>20. CASE SettleSchedule
  BY <1>0, <1>20 DEF SettleSchedule, SCHEDULE_STATES
<1>21. CASE CloseSession
  BY <1>0, <1>21 DEF CloseSession, CompleteJob, JobStates
<1>22. QED
  BY <1>1, <1>2, <1>3, <1>4, <1>5, <1>6, <1>7, <1>8, <1>9, <1>10, <1>11, <1>12, <1>13, <1>14, <1>15, <1>16, <1>17, <1>18, <1>19, <1>20, <1>21
  DEF RunnerNext, TakesJob, RunsOn

(* The type invariant of the lifecycle. *)
THEOREM TypeCorrect == Spec => []TypeOK
<1>1. Init => TypeOK
  BY InitTypes
<1>2. TypeOK /\ [Next]_vars => TypeOK'
  <2>1. TypeOK /\ UNCHANGED vars => TypeOK'
    BY DEF TypeOK, vars
  <2>2. QED
    BY <2>1, QueueTypes, ApiTypes, RunnerTypes, StartupTypes DEF Next
<1>3. QED
  BY <1>1, <1>2, PTL DEF Spec

-----------------------------------------------------------------------------
(***************************************************************************)
(* No run is taken twice.                                                  *)
(***************************************************************************)

LEMMA InitTakenOnce == Init => TakenAtMostOnce
BY ConstantsAssumption DEF Init, TakenAtMostOnce, AbsentRowsUntouched, WaitingJobsUnacted, EnqueuedOnce,
   Enqueuing, RemovesSeenJobs, RunInStep, NewRequest, NoRun, Schedules

LEMMA QueueTakenOnce == TypeOK /\ TakenAtMostOnce /\ QueueNext => TakenAtMostOnce'
<1> SUFFICES ASSUME TypeOK, TakenAtMostOnce, QueueNext PROVE TakenAtMostOnce'
    OBVIOUS
<1> USE DEF TakenAtMostOnce, TypeOK, executionVars, scheduleVars, queueVars, workerVars, historyVars,
            AbsentRowsUntouched, WaitingJobsUnacted, EnqueuedOnce, Enqueuing,
            RemovesSeenJobs, RunInStep
<1>1. ASSUME NEW e \in Executions, Promote(e) PROVE TakenAtMostOnce'
  BY <1>1 DEF Promote
<1>2. ASSUME NEW e \in Executions, StalledJob(e) PROVE TakenAtMostOnce'
  BY <1>2 DEF StalledJob
<1>3. ASSUME NEW s \in Recurrings, OccurrenceDue(s) PROVE TakenAtMostOnce'
  BY <1>3 DEF OccurrenceDue
<1>4. ASSUME NEW s \in OneShots, TimePasses(s) PROVE TakenAtMostOnce'
  BY <1>4 DEF TimePasses
<1>5. QED
  BY <1>1, <1>2, <1>3, <1>4 DEF QueueNext

LEMMA StartupTakenOnce == TypeOK /\ TakenAtMostOnce /\ StartupNext => TakenAtMostOnce'
<1> SUFFICES ASSUME TypeOK, TakenAtMostOnce, StartupNext PROVE TakenAtMostOnce'
    OBVIOUS
<1> USE DEF TakenAtMostOnce, TypeOK, executionVars, scheduleVars, queueVars, workerVars, historyVars,
            AbsentRowsUntouched, WaitingJobsUnacted, EnqueuedOnce, Enqueuing,
            RemovesSeenJobs, RunInStep, BootOnly, SetStatus
<1>1. CASE WorkerCrash
  BY <1>1, ConstantsAssumption DEF WorkerCrash, NoRun
<1>2. CASE WorkerStart
  BY <1>2, ConstantsAssumption DEF WorkerStart, NoRun
<1>3. CASE ReadOrphans
  BY <1>3 DEF ReadOrphans
<1>4. ASSUME NEW e \in Executions, FailOrphan(e) PROVE TakenAtMostOnce'
  BY <1>4 DEF FailOrphan
<1>5. CASE ReadMissed
  BY <1>5 DEF ReadMissed
<1>6. ASSUME NEW s \in OneShots, FailMissed(s) PROVE TakenAtMostOnce'
  BY <1>6 DEF FailMissed
<1>7. CASE FailMissedRows
  BY <1>7 DEF FailMissedRows
<1>8. CASE BootDone
  BY <1>8 DEF BootDone
<1>9. QED
  BY <1>1, <1>2, <1>3, <1>4, <1>5, <1>6, <1>7, <1>8 DEF StartupNext, Reconciles

LEMMA ApiTakenOnce == TypeOK /\ TakenAtMostOnce /\ ApiNext => TakenAtMostOnce'
<1> SUFFICES ASSUME TypeOK, TakenAtMostOnce, ApiNext PROVE TakenAtMostOnce'
    OBVIOUS
<1> USE DEF TakenAtMostOnce, TypeOK, executionVars, scheduleVars, queueVars, workerVars, historyVars,
            AbsentRowsUntouched, WaitingJobsUnacted, EnqueuedOnce, Enqueuing,
            RemovesSeenJobs, RunInStep, Goto, At, Begins
<1>0. req \in [Requests -> RequestState]
  BY DEF TypeOK
<1>1. CASE ApiCrash
  BY <1>1 DEF ApiCrash, RequestState
<1>2. ASSUME NEW r \in Requests, Starts(r) PROVE TakenAtMostOnce'
  <2>1. CASE RunCheck(r)
    BY <2>1 DEF RunCheck, RequestState
  <2>2. ASSUME NEW e \in Executions, CancelRead(r, e) PROVE TakenAtMostOnce'
    BY SMTT(40), <2>2 DEF CancelRead, RequestState, EXECUTION_STATES
  <2>3. ASSUME NEW s \in Schedules, ScheduleCreate(r, s) PROVE TakenAtMostOnce'
    BY <2>3 DEF ScheduleCreate, RequestState
  <2>4. ASSUME NEW s \in Schedules, DeleteRead(r, s) PROVE TakenAtMostOnce'
    BY <2>4, ConstantsAssumption DEF DeleteRead, RequestState, Schedules
  <2>5. QED
    BY <1>2, <2>1, <2>2, <2>3, <2>4 DEF Starts
<1>3. ASSUME NEW r \in Requests, Continues(r) PROVE TakenAtMostOnce'
  <2>1. CASE RunCreate(r)
    BY <2>1, ConstantsAssumption DEF RunCreate, RequestState, Fresh, SetStatus
  <2>2. CASE RunEnqueue(r)
    <3>1. CASE Goto(r, "done") /\ enqueueNow(req[r].exec)
      BY <2>2, <3>1, ConstantsAssumption DEF RunEnqueue, RequestState, enqueueNow
    <3>2. CASE Goto(r, "run.failed") /\ UNCHANGED job
      BY <2>2, <3>2, ConstantsAssumption DEF RunEnqueue, RequestState
    <3>3. QED
      BY <2>2, <3>1, <3>2 DEF RunEnqueue, enqueueNow
  <2>3. CASE RunEnqueueFailed(r)
    BY <2>3, ConstantsAssumption DEF RunEnqueueFailed, RequestState, SetStatus
  <2>4. CASE CancelWrite(r)
    BY <2>4, ConstantsAssumption DEF CancelWrite, RequestState, SetStatus
  <2>5. CASE CancelJob(r)
    BY <2>5, ConstantsAssumption DEF CancelJob, RequestState, CancellableJob
  <2>6. CASE CancelRemove(r)
    BY <2>6, ConstantsAssumption DEF CancelRemove, RequestState, RemovableJob, removeJob
  <2>7. CASE CancelClose(r)
    BY <2>7, ConstantsAssumption DEF CancelClose, RequestState
  <2>8. CASE CancelSchedule(r)
    BY <2>8, ConstantsAssumption DEF CancelSchedule, RequestState
  <2>9. CASE ScheduleReserve(r)
    BY <2>9, ConstantsAssumption DEF ScheduleReserve, RequestState, Fresh, SetStatus
  <2>10. CASE ScheduleEnqueue(r)
    <3>1. CASE Goto(r, "schedule.link") /\ enqueueDelayed(req[r].exec)
      BY <2>10, <3>1, ConstantsAssumption DEF ScheduleEnqueue, RequestState, enqueueDelayed
    <3>2. CASE Goto(r, "schedule.failed") /\ UNCHANGED job
      BY <2>10, <3>2, ConstantsAssumption DEF ScheduleEnqueue, RequestState
    <3>3. QED
      BY <2>10, <3>1, <3>2 DEF ScheduleEnqueue, enqueueDelayed
  <2>11. CASE ScheduleUpsert(r)
    <3>1. CASE Goto(r, "schedule.link") /\ UNCHANGED job
      BY <2>11, <3>1, ConstantsAssumption DEF ScheduleUpsert, RequestState
    <3>2. CASE Goto(r, "schedule.failed") /\ UNCHANGED job
      BY <2>11, <3>2, ConstantsAssumption DEF ScheduleUpsert, RequestState
    <3>3. QED
      BY <2>11, <3>1, <3>2 DEF ScheduleUpsert
  <2>12. CASE ScheduleLink(r)
    <3>1. /\ UNCHANGED <<status, job, acted, run>>
          /\ req[r].pc = "schedule.link"
          /\ \E pc \in {"done", "schedule.failed"} : req' = [req EXCEPT ![r].pc = pc]
          /\ queueJobId' = queueJobId \/ queueJobId' = [queueJobId EXCEPT ![req[r].sched] = QueueId(r)]
      BY <2>12 DEF ScheduleLink, LinkFails, PointsAt
    <3>2. /\ \A q \in Requests : req'[q].exec = req[q].exec
          /\ \A q \in Requests : req'[q].pc = req[q].pc \/ req'[q].pc \in {"done", "schedule.failed"}
      BY <1>0, <3>1 DEF RequestState
    <3>3. \A s \in Schedules : queueJobId'[s] = queueJobId[s] \/ queueJobId'[s] = QueueId(r)
      BY <3>1
    <3>4. \A e \in Executions : QueueId(r) = e => req[r].exec = e
      BY <1>0, ConstantsAssumption DEF QueueId, RequestState
    <3>5. AbsentRowsUntouched'
      BY <3>1, <3>2, <3>3, <3>4
    <3>6. EnqueuedOnce' /\ RemovesSeenJobs'
      BY <3>1, <3>2
    <3>7. QED
      BY <3>1, <3>5, <3>6
  <2>13. CASE ScheduleFailed(r)
    BY <2>13, ConstantsAssumption DEF ScheduleFailed, RequestState
  <2>14. CASE ScheduleRowFailed(r)
    BY <2>14, ConstantsAssumption DEF ScheduleRowFailed, RequestState, SetStatus
  <2>15. CASE DeleteJob(r)
    BY <2>15, ConstantsAssumption DEF DeleteJob, RequestState, CancellableJob
  <2>16. CASE DeleteRemove(r)
    <3>1. CASE Goto(r, "delete.write") /\ removeJob(req[r].exec)
      BY <2>16, <3>1, ConstantsAssumption DEF DeleteRemove, RequestState, removeJob
    <3>2. CASE Goto(r, "done") /\ UNCHANGED job
      BY <2>16, <3>2, ConstantsAssumption DEF DeleteRemove, RequestState
    <3>3. QED
      BY <2>16, <3>1, <3>2 DEF DeleteRemove, removeJob
  <2>17. CASE DeleteScheduler(r)
    BY <2>17, ConstantsAssumption DEF DeleteScheduler, RequestState
  <2>18. CASE DeletePending(r)
    BY <2>18, ConstantsAssumption DEF DeletePending, RequestState
  <2>19. CASE DeleteWrite(r)
    BY <2>19, ConstantsAssumption DEF DeleteWrite, RequestState
  <2>20. CASE DeleteRows(r)
    BY <2>20, ConstantsAssumption DEF DeleteRows, RequestState, SetStatus
  <2>21. QED
    BY <1>3, <2>1, <2>2, <2>3, <2>4, <2>5, <2>6, <2>7, <2>8, <2>9, <2>10, <2>11, <2>12, <2>13, <2>14, <2>15, <2>16, <2>17, <2>18, <2>19, <2>20
    DEF Continues
<1>4. QED
  BY <1>1, <1>2, <1>3 DEF ApiNext

(* Where the runner's record goes in the actions that can end in two ways. *)
LEMMA RunMoves ==
  ASSUME run \in RunState
  PROVE  /\ Preflight => run'.pc \in {"open", "finish"}
                           /\ run'.exec = run.exec /\ run'.step = run.step
         /\ OpenSession => run'.pc \in {"opening", "aborted"}
                             /\ run'.exec = run.exec /\ run'.step = run.step
         /\ SessionStarted => run'.pc \in {"running", "aborted"}
                                /\ run'.exec = run.exec /\ run'.step = run.step
         /\ LastStep => run'.pc \in {"finish", "aborted"}
                          /\ run'.exec = run.exec /\ run'.step = run.step
<1>1. ASSUME Preflight
      PROVE  run'.pc \in {"open", "finish"} /\ run'.exec = run.exec /\ run'.step = run.step
  BY <1>1 DEF Preflight, RunState, RunGoto
<1>2. ASSUME OpenSession
      PROVE  run'.pc \in {"opening", "aborted"} /\ run'.exec = run.exec /\ run'.step = run.step
  BY <1>2 DEF OpenSession, RunState, RunGoto
<1>3. ASSUME SessionStarted
      PROVE  run'.pc \in {"running", "aborted"} /\ run'.exec = run.exec /\ run'.step = run.step
  BY <1>3 DEF SessionStarted, RunState, RunGoto
<1>4. ASSUME LastStep
      PROVE  run'.pc \in {"finish", "aborted"} /\ run'.exec = run.exec /\ run'.step = run.step
  BY <1>4 DEF LastStep, RunState, RunGoto
<1>5. QED
  BY <1>1, <1>2, <1>3, <1>4

(* A step is performed by a run that is on it, and the run goes on, has its
   last step behind it or has failed. *)
LEMMA StepMoves ==
  ASSUME run \in RunState, ExecuteStep
  PROVE  /\ run'.exec = run.exec
         /\ run.pc = "step"
         /\ \/ run'.pc \in {"failed", "last"} /\ run'.step = run.step
            \/ /\ run'.pc = "check" /\ run'.step = run.step + 1
               /\ browser # "closed"
<1>1. CASE browser = "closed"
  BY <1>1 DEF ExecuteStep, RunState, RunAt
<1>2. CASE browser # "closed" /\ run' = [run EXCEPT !.pc = "failed", !.cause = "own"]
  BY <1>2 DEF ExecuteStep, RunState, RunAt
<1>3. CASE browser # "closed" /\ run' = [run EXCEPT !.pc = "check", !.step = @ + 1]
  BY <1>3 DEF ExecuteStep, RunState, RunAt
<1>4. CASE browser # "closed" /\ RunGoto("last")
  BY <1>4 DEF ExecuteStep, RunState, RunAt, RunGoto
<1>5. QED
  BY <1>1, <1>2, <1>3, <1>4 DEF ExecuteStep

LEMMA RunnerTakenOnce == TypeOK /\ TakenAtMostOnce /\ RunnerNext => TakenAtMostOnce'
<1> SUFFICES ASSUME TypeOK, TakenAtMostOnce, RunnerNext PROVE TakenAtMostOnce'
    OBVIOUS
<1> USE DEF TakenAtMostOnce, TypeOK, executionVars, scheduleVars, queueVars, workerVars, historyVars,
            AbsentRowsUntouched, WaitingJobsUnacted, EnqueuedOnce, Enqueuing,
            RemovesSeenJobs, RunInStep, RunAt, RunGoto, WorkerOnly, RunState
<1>0. run \in RunState
  OBVIOUS
<1>1. ASSUME NEW e \in Executions, TakeJob(e) PROVE TakenAtMostOnce'
  BY <1>1, ConstantsAssumption DEF TakeJob, NoRun
<1>2. ASSUME NEW s \in Recurrings, TakeOccurrence(s) PROVE TakenAtMostOnce'
  BY <1>2, ConstantsAssumption DEF TakeOccurrence, NoRun
<1>3. CASE StartOccurrence
  BY <1>3, ConstantsAssumption DEF StartOccurrence, NoRun
<1>4. CASE CreateOccurrenceRow
  BY <1>4, ConstantsAssumption DEF CreateOccurrenceRow, Fresh, SetStatus
<1>5. CASE Load
  BY <1>5, ConstantsAssumption DEF Load, NoRun, CompleteJob, wasCancelled
<1>6. CASE Starting
  BY <1>6, ConstantsAssumption DEF Starting, WriteOver, SetStatus
<1>7. CASE ClaimSchedule
  BY <1>7, ConstantsAssumption DEF ClaimSchedule
<1>8. CASE Preflight
  <2>1. run'.pc \in {"open", "finish"} /\ run'.exec = run.exec /\ run'.step = run.step
    BY <1>8, <1>0, RunMoves
  <2>2. UNCHANGED <<status, queueJobId, job, req, acted>>
    BY <1>8 DEF Preflight
  <2>3. run.exec # None
    BY <1>8 DEF Preflight
  <2>4. QED
    BY <2>1, <2>2, <2>3, <1>8 DEF Preflight
<1>9. CASE OpenSession
  <2>1. run'.pc \in {"opening", "aborted"} /\ run'.exec = run.exec /\ run'.step = run.step
    BY <1>9, <1>0, RunMoves
  <2>2. UNCHANGED <<status, queueJobId, job, req, acted>>
    BY <1>9 DEF OpenSession
  <2>3. run.exec # None
    BY <1>9 DEF OpenSession
  <2>4. QED
    BY <2>1, <2>2, <2>3, <1>9 DEF OpenSession
<1>10. CASE SessionStarted
  <2>1. run'.pc \in {"running", "aborted"} /\ run'.exec = run.exec /\ run'.step = run.step
    BY <1>10, <1>0, RunMoves
  <2>2. UNCHANGED <<status, queueJobId, job, req, acted>>
    BY <1>10 DEF SessionStarted
  <2>3. run.exec # None
    BY <1>10 DEF SessionStarted
  <2>4. QED
    BY <2>1, <2>2, <2>3, <1>10 DEF SessionStarted
<1>11. CASE Running
  BY <1>11, ConstantsAssumption DEF Running, WriteOver, SetStatus
<1>12. CASE CheckCancelled
  BY <1>12, ConstantsAssumption DEF CheckCancelled
<1>13. CASE ExecuteStep
  <2>1. run.exec \in Executions /\ acted[run.exec] = run.step - 1 /\ run.step \in 1..Steps
    BY <1>13 DEF ExecuteStep
  <2>2. UNCHANGED <<status, queueJobId, job, req>>
    BY <1>13 DEF ExecuteStep
  <2>3. run'.exec = run.exec
    BY <1>13, <1>0, StepMoves
  <2>4. \/ run'.pc \in {"failed", "last"} /\ run'.step = run.step
        \/ run'.pc = "check" /\ run'.step = run.step + 1 /\ browser # "closed"
    BY <1>13, <1>0, StepMoves
  <2>5. \/ browser = "closed" /\ acted' = acted
        \/ browser # "closed" /\ acted' = [acted EXCEPT ![run.exec] = @ + 1]
    BY <1>13 DEF ExecuteStep
  <2>6. AbsentRowsUntouched'
    BY <2>1, <2>2, <2>3, <2>5
  <2>7. WaitingJobsUnacted'
    BY <2>1, <2>2, <2>3, <2>5
  <2>8. EnqueuedOnce'
    BY <2>1, <2>2, <2>3, <2>5
  <2>9. RemovesSeenJobs'
    BY <2>2
  <2>10. RunInStep'
    BY <2>1, <2>3, <2>4, <2>5, ConstantsAssumption
  <2>11. QED
    BY <2>6, <2>7, <2>8, <2>9, <2>10
<1>14. CASE StepFailed
  BY <1>14, ConstantsAssumption DEF StepFailed
<1>15. CASE LastStep
  <2>1. run'.pc \in {"finish", "aborted"} /\ run'.exec = run.exec /\ run'.step = run.step
    BY <1>15, <1>0, RunMoves
  <2>2. UNCHANGED <<status, queueJobId, job, req, acted>>
    BY <1>15 DEF LastStep
  <2>3. run.exec # None
    BY <1>15 DEF LastStep
  <2>4. QED
    BY <2>1, <2>2, <2>3, <1>15 DEF LastStep
<1>16. CASE Aborted
  BY <1>16, ConstantsAssumption DEF Aborted
<1>17. CASE FinishRead
  BY <1>17, ConstantsAssumption DEF FinishRead
<1>18. CASE FinishWrite
  BY <1>18, ConstantsAssumption DEF FinishWrite, SetStatus
<1>19. CASE NotifyOutcome
  BY <1>19, ConstantsAssumption DEF NotifyOutcome
<1>20. CASE SettleSchedule
  BY <1>20, ConstantsAssumption DEF SettleSchedule
<1>21. CASE CloseSession
  BY <1>21, ConstantsAssumption DEF CloseSession, NoRun, CompleteJob
<1>22. QED
  BY <1>1, <1>2, <1>3, <1>4, <1>5, <1>6, <1>7, <1>8, <1>9, <1>10, <1>11, <1>12, <1>13, <1>14, <1>15, <1>16, <1>17, <1>18, <1>19, <1>20, <1>21
  DEF RunnerNext, TakesJob, RunsOn

(***************************************************************************)
(* The inductive invariant holds, and no step is performed twice.          *)
(***************************************************************************)

LEMMA InvariantKept == RunsOnceInv /\ [Next]_vars => RunsOnceInv'
<1>1. RunsOnceInv /\ Next => RunsOnceInv'
  BY QueueTypes, ApiTypes, RunnerTypes, StartupTypes,
     QueueTakenOnce, ApiTakenOnce, RunnerTakenOnce, StartupTakenOnce
  DEF RunsOnceInv, Next
<1>2. RunsOnceInv /\ UNCHANGED vars => RunsOnceInv'
  BY DEF RunsOnceInv, TypeOK, vars, TakenAtMostOnce, AbsentRowsUntouched,
         WaitingJobsUnacted, EnqueuedOnce, Enqueuing, RemovesSeenJobs, RunInStep
<1>3. QED
  BY <1>1, <1>2

(* A job that can be taken belongs to an execution that has not acted, and a
   job that was taken is never put back: see RunsOnce. *)
THEOREM RunsOnceInvariant == Spec => []RunsOnceInv
<1>1. Init => RunsOnceInv
  BY InitTypes, InitTakenOnce DEF RunsOnceInv
<1>2. QED
  BY <1>1, InvariantKept, PTL DEF Spec

(* Only one action touches the site. *)
LEMMA OnlyStepsAct == Next => acted' = acted \/ ExecuteStep
<1> USE DEF historyVars
<1>1. QueueNext => acted' = acted
  BY DEF QueueNext, Promote, StalledJob, OccurrenceDue, TimePasses
<1>2. StartupNext => acted' = acted
  BY DEF StartupNext, WorkerCrash, WorkerStart, Reconciles, BootOnly, ReadOrphans,
         FailOrphan, ReadMissed, FailMissed, FailMissedRows, BootDone
<1>3. ApiNext => acted' = acted
  <2>1. ApiCrash => acted' = acted
    BY DEF ApiCrash
  <2>2. ASSUME NEW r \in Requests, Starts(r) PROVE acted' = acted
    BY <2>2 DEF Starts, RunCheck, CancelRead, ScheduleCreate, DeleteRead
  <2>3. ASSUME NEW r \in Requests, Continues(r) PROVE acted' = acted
    BY <2>3 DEF Continues, RunCreate, RunEnqueue, RunEnqueueFailed, CancelWrite,
       CancelJob, CancelRemove, CancelClose, CancelSchedule, ScheduleReserve,
       ScheduleEnqueue, ScheduleUpsert, ScheduleLink, LinkFails, ScheduleFailed,
       ScheduleRowFailed, DeleteJob, DeleteRemove, DeleteScheduler,
       DeletePending, DeleteWrite, DeleteRows
  <2>4. QED
    BY <2>1, <2>2, <2>3 DEF ApiNext
<1>4. RunnerNext => acted' = acted \/ ExecuteStep
  BY DEF RunnerNext, TakesJob, RunsOn, TakeJob, TakeOccurrence, StartOccurrence,
     CreateOccurrenceRow, Load, Starting, WriteOver, ClaimSchedule, Preflight,
     OpenSession, SessionStarted, Running, CheckCancelled, StepFailed, LastStep,
     Aborted, FinishRead, FinishWrite, NotifyOutcome, SettleSchedule, CloseSession
<1>5. QED
  BY <1>1, <1>2, <1>3, <1>4 DEF Next

(* What a step does, seen from the site. *)
LEMMA StepActs ==
  ASSUME RunsOnceInv, ExecuteStep
  PROVE  /\ run.exec \in Executions
         /\ acted[run.exec] = run.step - 1
         /\ run.step \in 1..Steps
         /\ \/ acted' = acted
            \/ acted' = [acted EXCEPT ![run.exec] = @ + 1]
<1>1. run \in RunState /\ run.pc = "step"
  BY DEF RunsOnceInv, TypeOK, ExecuteStep, RunAt
<1>2. run.exec \in Executions /\ run.step \in 1..Steps
  BY <1>1 DEF RunState, RunsOnceInv, TakenAtMostOnce, RunInStep
<1>3. acted[run.exec] = run.step - 1
  BY <1>1 DEF RunsOnceInv, TakenAtMostOnce, RunInStep
<1>4. acted' = acted \/ acted' = [acted EXCEPT ![run.exec] = @ + 1]
  BY DEF ExecuteStep, historyVars
<1>5. QED
  BY <1>2, <1>3, <1>4

(* The steps of an execution are performed in order and none of them twice,
   for any number of executions, requests and crashes. *)
THEOREM StepsOnce == Spec => EachStepOnce
<1> DEFINE Once ==
      \A e \in Executions : acted'[e] # acted[e] =>
        run.exec = e /\ acted[e] = run.step - 1 /\ acted'[e] = run.step
<1>1. RunsOnceInv /\ [Next]_vars => [Once]_vars
  <2> SUFFICES ASSUME RunsOnceInv, Next PROVE Once
    OBVIOUS
  <2>1. CASE acted' = acted
    BY <2>1
  <2>2. CASE ExecuteStep /\ acted' = [acted EXCEPT ![run.exec] = @ + 1]
    <3>1. acted \in [Executions -> Nat]
      BY DEF RunsOnceInv, TypeOK
    <3>2. QED
      BY <2>2, <3>1, StepActs
  <2>3. QED
    BY <2>1, <2>2, OnlyStepsAct, StepActs
<1>2. QED
  BY <1>1, RunsOnceInvariant, PTL DEF Spec, EachStepOnce

(***************************************************************************)
(* The lifecycle implements SiteEffects.                                   *)
(***************************************************************************)

(* What is over stays over as long as rows stay, no job comes back that was
   not pending, and the run at most leaves. *)
LEMMA OverStays ==
  ASSUME TypeOK,
         \A e \in Executions : status[e] # "absent" => status'[e] # "absent",
         \A e \in Pending' : e \in Pending \/ status[e] = "absent",
         run'.exec = run.exec
  PROVE  Over \subseteq Over'
BY DEF Over

(* A step that neither acts nor changes the run's execution is a stutter of
   the site, or drops executions that did not get to act. *)
LEMMA QuietStep ==
  ASSUME acted' = acted, run'.exec = run.exec, Over \subseteq Over'
  PROVE  [Sites!Next]_Sites!sites
<1> DEFINE es == Over' \ Over
<1>1. es \in SUBSET Executions
  BY DEF Over
<1>2. run.exec \notin es
  BY DEF Over
<1>3. Sites!Drop(es)
  BY <1>2 DEF Sites!Drop
<1>4. QED
  BY <1>1, <1>3 DEF Sites!Next

LEMMA QueueQuiet == RunsOnceInv /\ QueueNext => [Sites!Next]_Sites!sites
<1> SUFFICES ASSUME RunsOnceInv, QueueNext PROVE [Sites!Next]_Sites!sites
    OBVIOUS
<1> USE DEF executionVars, scheduleVars, queueVars, workerVars, historyVars
<1> DEFINE Quiet ==
      /\ acted' = acted /\ run' = run /\ req' = req /\ status' = status
      /\ \A e \in Executions : job'[e] \in {"delayed", "waiting"} =>
                               job[e] \in {"delayed", "waiting"}
<1>0. TypeOK
  BY DEF RunsOnceInv
<1>1. Quiet
  <2>1. ASSUME NEW e \in Executions, Promote(e) PROVE Quiet
    BY <1>0, <2>1 DEF Promote, TypeOK
  <2>2. ASSUME NEW e \in Executions, StalledJob(e) PROVE Quiet
    BY <1>0, <2>2 DEF StalledJob, TypeOK
  <2>3. ASSUME NEW s \in Recurrings, OccurrenceDue(s) PROVE Quiet
    BY <2>3 DEF OccurrenceDue
  <2>4. ASSUME NEW s \in OneShots, TimePasses(s) PROVE Quiet
    BY <2>4 DEF TimePasses
  <2>5. QED
    BY <2>1, <2>2, <2>3, <2>4 DEF QueueNext
<1>2. \A e \in Pending' : e \in Pending
  BY <1>1 DEF Pending, Enqueuing
<1>3. Over \subseteq Over'
  BY <1>0, <1>1, <1>2, OverStays
<1>4. QED
  BY <1>1, <1>3, QuietStep

(* The run ends, or the worker dies in the middle of it. *)
LEMMA EndStep ==
  ASSUME RunsOnceInv, run.exec \in Executions, run'.exec = None,
         acted' = acted, status' = status, req' = req,
         \A e \in Executions : job'[e] \in {"delayed", "waiting"} <=>
                              job[e] \in {"delayed", "waiting"}
  PROVE  [Sites!Next]_Sites!sites
<1>1. run.exec \notin Pending /\ status[run.exec] # "absent"
  BY DEF RunsOnceInv, TakenAtMostOnce, WaitingJobsUnacted, EnqueuedOnce,
         AbsentRowsUntouched, Pending
<1>2. Pending' = Pending
  BY DEF Pending, Enqueuing
<1>3. Over' = Over \cup {run.exec}
  BY <1>1, <1>2, ConstantsAssumption DEF Over
<1>4. Sites!End(run.exec)
  BY <1>3 DEF Sites!End
<1>5. QED
  BY <1>4 DEF Sites!Next

LEMMA StartupQuiet == RunsOnceInv /\ StartupNext => [Sites!Next]_Sites!sites
<1> SUFFICES ASSUME RunsOnceInv, StartupNext PROVE [Sites!Next]_Sites!sites
    OBVIOUS
<1> USE DEF executionVars, scheduleVars, queueVars, workerVars, historyVars, BootOnly
<1>0. TypeOK /\ run.exec \in Executions \cup {None}
  BY DEF RunsOnceInv, TypeOK, RunState
<1> DEFINE Quiet ==
      /\ acted' = acted /\ run'.exec = run.exec /\ req' = req /\ job' = job
      /\ \A e \in Executions : status[e] # "absent" => status'[e] # "absent"
<1>1. ASSUME Quiet PROVE [Sites!Next]_Sites!sites
  <2>1. \A e \in Pending' : e \in Pending
    BY <1>1 DEF Pending, Enqueuing
  <2>2. QED
    BY <1>0, <1>1, <2>1, OverStays, QuietStep
<1>2. CASE WorkerCrash
  <2>1. run'.exec = None /\ UNCHANGED <<acted, status, req, job>>
    BY <1>2 DEF WorkerCrash, NoRun
  <2>2. CASE run.exec \in Executions
    BY <2>1, <2>2, EndStep
  <2>3. CASE run.exec = None
    BY <1>1, <2>1, <2>3
  <2>4. QED
    BY <1>0, <2>2, <2>3
<1>3. CASE WorkerStart
  <2>1. run.exec = None
    BY <1>3 DEF WorkerStart, RunsOnceInv, TakenAtMostOnce, RunInStep
  <2>2. QED
    BY <1>1, <1>3, <2>1 DEF WorkerStart, NoRun
<1>4. CASE Reconciles
  <2>1. UNCHANGED <<acted, run, req, job>>
    BY <1>4 DEF Reconciles, ReadOrphans, FailOrphan, ReadMissed, FailMissed,
       FailMissedRows, BootDone
  <2>2. \/ status' = status
        \/ \E es \in SUBSET Executions : SetStatus(es, "failed")
    <3>1. ASSUME NEW e \in Executions, FailOrphan(e)
          PROVE  \E es \in SUBSET Executions : SetStatus(es, "failed")
      BY <3>1 DEF FailOrphan
    <3>2. ASSUME FailMissedRows
          PROVE  \E es \in SUBSET Executions : SetStatus(es, "failed")
      BY <3>2 DEF FailMissedRows, QueuedOf
    <3>3. ReadOrphans \/ ReadMissed \/ BootDone => status' = status
      BY DEF ReadOrphans, ReadMissed, BootDone
    <3>4. ASSUME NEW s \in OneShots, FailMissed(s) PROVE status' = status
      BY <3>4 DEF FailMissed
    <3>5. QED
      BY <1>4, <3>1, <3>2, <3>3, <3>4 DEF Reconciles
  <2>3. \A e \in Executions : status[e] # "absent" => status'[e] # "absent"
    BY <2>2 DEF SetStatus
  <2>4. QED
    BY <1>1, <2>1, <2>3
<1>5. QED
  BY <1>2, <1>3, <1>4 DEF StartupNext

LEMMA ApiQuiet == RunsOnceInv /\ ApiNext => [Sites!Next]_Sites!sites
<1> SUFFICES ASSUME RunsOnceInv, ApiNext PROVE [Sites!Next]_Sites!sites
    OBVIOUS
<1> USE DEF executionVars, scheduleVars, queueVars, workerVars, historyVars, Goto, At
<1>0. TypeOK /\ req \in [Requests -> RequestState] /\ job \in [Executions -> JobStates]
  BY DEF RunsOnceInv, TypeOK
<1> DEFINE Quiet ==
      /\ acted' = acted /\ run' = run
      /\ \A e \in Executions : status[e] # "absent" => status'[e] # "absent"
      /\ \A e \in Pending' : e \in Pending \/ status[e] = "absent"
<1>1. ASSUME Quiet PROVE [Sites!Next]_Sites!sites
  BY <1>0, <1>1, OverStays, QuietStep
<1> USE DEF Pending, Enqueuing, RequestState
<1>2. ApiCrash => Quiet
  BY <1>0 DEF ApiCrash
<1>3. ASSUME NEW r \in Requests, Starts(r) PROVE Quiet
  <2>1. RunCheck(r) => Quiet
    BY <1>0 DEF RunCheck
  <2>2. ASSUME NEW e \in Executions, CancelRead(r, e) PROVE Quiet
    BY <1>0, <2>2 DEF CancelRead
  <2>3. ASSUME NEW s \in Schedules, ScheduleCreate(r, s) PROVE Quiet
    BY <1>0, <2>3 DEF ScheduleCreate
  <2>4. ASSUME NEW s \in Schedules, DeleteRead(r, s) PROVE Quiet
    BY <1>0, <2>4 DEF DeleteRead, Schedules
  <2>5. QED
    BY <1>3, <2>1, <2>2, <2>3, <2>4 DEF Starts
<1>4. ASSUME NEW r \in Requests, Continues(r) PROVE Quiet
  <2>1. RunCreate(r) => Quiet
    BY <1>0 DEF RunCreate, SetStatus, Fresh
  <2>2. RunEnqueue(r) => Quiet
    BY <1>0 DEF RunEnqueue, enqueueNow
  <2>3. RunEnqueueFailed(r) => Quiet
    BY <1>0 DEF RunEnqueueFailed, SetStatus
  <2>4. CancelWrite(r) => Quiet
    BY <1>0 DEF CancelWrite, SetStatus
  <2>5. CancelJob(r) => Quiet
    BY <1>0 DEF CancelJob
  <2>6. CancelRemove(r) => Quiet
    BY <1>0 DEF CancelRemove, removeJob
  <2>7. CancelClose(r) => Quiet
    BY <1>0 DEF CancelClose
  <2>8. CancelSchedule(r) => Quiet
    BY <1>0 DEF CancelSchedule
  <2>9. ScheduleReserve(r) => Quiet
    BY <1>0 DEF ScheduleReserve, SetStatus, Fresh
  <2>10. ScheduleEnqueue(r) => Quiet
    BY <1>0 DEF ScheduleEnqueue, enqueueDelayed
  <2>11. ScheduleUpsert(r) => Quiet
    BY <1>0 DEF ScheduleUpsert
  <2>12. ScheduleLink(r) => Quiet
    BY <1>0 DEF ScheduleLink, LinkFails
  <2>13. ScheduleFailed(r) => Quiet
    BY <1>0 DEF ScheduleFailed
  <2>14. ScheduleRowFailed(r) => Quiet
    BY <1>0 DEF ScheduleRowFailed, SetStatus
  <2>15. DeleteJob(r) => Quiet
    BY <1>0 DEF DeleteJob
  <2>16. DeleteRemove(r) => Quiet
    BY <1>0 DEF DeleteRemove, removeJob
  <2>17. DeleteScheduler(r) => Quiet
    BY <1>0 DEF DeleteScheduler
  <2>18. DeletePending(r) => Quiet
    BY <1>0 DEF DeletePending
  <2>19. DeleteWrite(r) => Quiet
    BY <1>0 DEF DeleteWrite
  <2>20. DeleteRows(r) => Quiet
    BY <1>0 DEF DeleteRows, SetStatus
  <2>21. QED
    BY <1>4, <2>1, <2>2, <2>3, <2>4, <2>5, <2>6, <2>7, <2>8, <2>9, <2>10, <2>11, <2>12, <2>13, <2>14, <2>15, <2>16, <2>17, <2>18, <2>19, <2>20 DEF Continues
<1>5. QED
  BY <1>1, <1>2, <1>3, <1>4 DEF ApiNext

(* A run begins: the job or the row it takes had not acted. *)
LEMMA BeginStep ==
  ASSUME RunsOnceInv, NEW e \in Executions,
         run.exec = None, run'.exec = e, acted' = acted, acted[e] = 0,
         e \in Pending \/ status[e] = "absent",
         status'[e] # "absent",
         \A f \in Executions \ {e} : /\ status'[f] = status[f]
                                     /\ f \in Pending' <=> f \in Pending
  PROVE  [Sites!Next]_Sites!sites
<1>1. Over' = Over
  BY ConstantsAssumption DEF Over
<1>2. e \notin Over
  BY DEF Over
<1>3. Sites!Begin(e)
  BY <1>1, <1>2 DEF Sites!Begin
<1>4. QED
  BY <1>3 DEF Sites!Next

LEMMA ActStep == RunsOnceInv /\ ExecuteStep => [Sites!Next]_Sites!sites
<1> SUFFICES ASSUME RunsOnceInv, ExecuteStep PROVE [Sites!Next]_Sites!sites
    OBVIOUS
<1>1. run'.exec = run.exec /\ run.exec \in Executions
  BY StepMoves, StepActs DEF RunsOnceInv, TypeOK
<1>2. UNCHANGED <<status, job, req>>
  BY DEF ExecuteStep, WorkerOnly, executionVars, queueVars
<1>3. Over' = Over
  BY <1>1, <1>2 DEF Over, Pending, Enqueuing
<1>4. CASE acted' = acted
  BY <1>1, <1>3, <1>4 DEF Sites!sites
<1>5. CASE acted' = [acted EXCEPT ![run.exec] = @ + 1]
  <2>1. acted[run.exec] < Steps
    BY StepActs, ConstantsAssumption
  <2>2. Sites!Perform(run.exec)
    BY <1>1, <1>3, <1>5, <2>1 DEF Sites!Perform
  <2>3. QED
    BY <1>1, <2>2 DEF Sites!Next
<1>6. QED
  BY <1>4, <1>5, StepActs

LEMMA RunnerImplements == RunsOnceInv /\ RunnerNext => [Sites!Next]_Sites!sites
<1> SUFFICES ASSUME RunsOnceInv, RunnerNext PROVE [Sites!Next]_Sites!sites
    OBVIOUS
<1> USE DEF executionVars, scheduleVars, queueVars, workerVars, historyVars,
            RunAt, RunGoto, WorkerOnly
<1>0. TypeOK /\ TakenAtMostOnce /\ run \in RunState /\ job \in [Executions -> JobStates]
  BY DEF RunsOnceInv, TypeOK
<1> DEFINE Quiet ==
      /\ acted' = acted /\ run'.exec = run.exec /\ req' = req /\ job' = job
      /\ \A e \in Executions : status[e] # "absent" => status'[e] # "absent"
<1>1. ASSUME Quiet PROVE [Sites!Next]_Sites!sites
  <2>1. \A e \in Pending' : e \in Pending
    BY <1>1 DEF Pending, Enqueuing
  <2>2. QED
    BY <1>0, <1>1, <2>1, OverStays, QuietStep
<1>2. ASSUME NEW e \in Executions, TakeJob(e) PROVE [Sites!Next]_Sites!sites
  <2>1. run.exec = None /\ acted[e] = 0 /\ status[e] # "absent" /\ e \in Pending
    BY <1>0, <1>2 DEF TakeJob, TakenAtMostOnce, RunInStep, WaitingJobsUnacted,
       AbsentRowsUntouched, Pending
  <2>2. run'.exec = e /\ UNCHANGED <<acted, status, req>>
    BY <1>2 DEF TakeJob, NoRun
  <2>3. \A f \in Executions \ {e} : f \in Pending' <=> f \in Pending
    BY <1>0, <1>2, <2>2 DEF TakeJob, Pending, Enqueuing
  <2>4. QED
    BY <2>1, <2>2, <2>3, BeginStep
<1>3. ASSUME NEW s \in Recurrings, TakeOccurrence(s) PROVE [Sites!Next]_Sites!sites
  BY <1>0, <1>1, <1>3 DEF TakeOccurrence, NoRun, TakenAtMostOnce, RunInStep
<1>4. CASE CreateOccurrenceRow
  <2>1. PICK e \in Fresh : /\ SetStatus({e}, "queued")
                           /\ run' = [run EXCEPT !.pc = "load", !.exec = e]
    BY <1>4 DEF CreateOccurrenceRow
  <2>2. UNCHANGED <<acted, job, req>>
    BY <1>4 DEF CreateOccurrenceRow
  <2>3. e \in Executions /\ status[e] = "absent" /\ acted[e] = 0
    BY <1>0, <2>1 DEF Fresh, TakenAtMostOnce, AbsentRowsUntouched
  <2>4. run.exec = None /\ run'.exec = e
    BY <1>0, <1>4, <2>1 DEF CreateOccurrenceRow, TakenAtMostOnce, RunInStep, RunState
  <2>5. status'[e] # "absent" /\ \A f \in Executions \ {e} : status'[f] = status[f]
    BY <2>1, <2>3 DEF SetStatus
  <2>6. Pending' = Pending
    BY <2>2 DEF Pending, Enqueuing
  <2>7. QED
    BY <2>2, <2>3, <2>4, <2>5, <2>6, BeginStep
<1>5. CASE Load
  <2>1. CASE wasCancelled
    <3>1. run.exec \in Executions
      BY <1>0, <1>5 DEF Load, TakenAtMostOnce, RunInStep, RunState
    <3>2. run'.exec = None /\ CompleteJob /\ UNCHANGED <<acted, status, req>>
      BY <1>5, <2>1 DEF Load, NoRun
    <3>3. QED
      BY <3>1, <3>2, EndStep DEF CompleteJob
  <2>2. CASE ~wasCancelled
    BY <1>0, <1>1, <1>5, <2>2 DEF Load, RunState
  <2>3. QED
    BY <2>1, <2>2
<1>6. CASE CloseSession
  <2>1. run.exec \in Executions
    BY <1>0, <1>6 DEF CloseSession, TakenAtMostOnce, RunInStep, RunState
  <2>2. run'.exec = None /\ CompleteJob /\ UNCHANGED <<acted, status, req>>
    BY <1>6 DEF CloseSession, NoRun
  <2>3. QED
    BY <2>1, <2>2, EndStep DEF CompleteJob
<1>7. CASE ExecuteStep
  BY <1>7, ActStep
<1>8. Preflight \/ OpenSession \/ SessionStarted \/ LastStep => Quiet
  BY <1>0, RunMoves DEF Preflight, OpenSession, SessionStarted, LastStep
<1>9. StartOccurrence => Quiet
  BY <1>0 DEF StartOccurrence, RunState, NoRun, TakenAtMostOnce, RunInStep
<1>10. Starting => Quiet
  BY <1>0 DEF Starting, RunState, WriteOver, SetStatus
<1>11. ClaimSchedule => Quiet
  BY <1>0 DEF ClaimSchedule, RunState
<1>12. Running => Quiet
  BY <1>0 DEF Running, RunState, WriteOver, SetStatus
<1>13. CheckCancelled => Quiet
  BY <1>0 DEF CheckCancelled, RunState
<1>14. StepFailed => Quiet
  BY <1>0 DEF StepFailed, RunState
<1>15. Aborted => Quiet
  BY <1>0 DEF Aborted, RunState
<1>16. FinishRead => Quiet
  BY <1>0 DEF FinishRead, RunState
<1>17. FinishWrite => Quiet
  BY <1>0 DEF FinishWrite, RunState, SetStatus
<1>18. NotifyOutcome => Quiet
  BY <1>0 DEF NotifyOutcome, RunState
<1>19. SettleSchedule => Quiet
  BY <1>0 DEF SettleSchedule, RunState
<1>20. QED
  BY <1>1, <1>2, <1>3, <1>4, <1>5, <1>6, <1>7, <1>8, <1>9, <1>10, <1>11, <1>12, <1>13, <1>14, <1>15, <1>16, <1>17, <1>18, <1>19
  DEF RunnerNext, TakesJob, RunsOn

LEMMA InitImplements == Init => Sites!Init
BY ConstantsAssumption DEF Init, NoRun, Over, Sites!Init

(* The lifecycle keeps the promise SiteEffects makes: whatever crashes and
   whoever races, executions act one at a time, each step at most once and in
   order, and one that is over never acts again. *)
THEOREM ImplementsSiteEffects == Spec => KeepsPromiseToSite
<1>1. RunsOnceInv /\ [Next]_vars => [Sites!Next]_Sites!sites
  <2>1. RunsOnceInv /\ UNCHANGED vars => UNCHANGED Sites!sites
    BY DEF vars, Sites!sites, Over, Pending, Enqueuing
  <2>2. QED
    BY <2>1, QueueQuiet, ApiQuiet, StartupQuiet, RunnerImplements DEF Next
<1>2. QED
  BY <1>1, InitImplements, RunsOnceInvariant, PTL
  DEF Spec, KeepsPromiseToSite, Sites!Spec
=============================================================================
