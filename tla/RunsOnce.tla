------------------------------- MODULE RunsOnce -------------------------------
(***************************************************************************)
(* ExecutionLifecycle implements SiteEffects, and the invariant that shows *)
(* why: a job that can still be taken belongs to an execution that has not *)
(* acted, and nothing can put back a job that was taken.                   *)
(***************************************************************************)
EXTENDS ExecutionLifecycle

(* A handler that has made a row and is about to enqueue its job. *)
Enqueuing(r) == req[r].pc \in {"run.enqueue", "schedule.enqueue"}

(* Executions that can still be taken by the worker. *)
Pending ==
  {e \in Executions :
     \/ job[e] \in {"delayed", "waiting"}
     \/ \E r \in Requests : Enqueuing(r) /\ req[r].exec = e}

(* Executions that exist and will never act again. *)
Over == {e \in Executions :
           status[e] # "absent" /\ e \notin Pending /\ run.exec # e}

Sites == INSTANCE SiteEffects
           WITH done <- acted, active <- run.exec, over <- Over

(* The lifecycle keeps the promise made to the site (queue-consumer.ts:64-71:
   "a workflow interrupted halfway must be reported and left to the user,
   never repeated on its own"). *)
KeepsPromiseToSite == Sites!Spec

-----------------------------------------------------------------------------
(***************************************************************************)
(* The inductive invariant.                                                *)
(***************************************************************************)

(* A row that does not exist has no job, no handler and no past. *)
AbsentRowsUntouched ==
  \A e \in Executions : status[e] = "absent" =>
    /\ job[e] = "none"
    /\ acted[e] = 0
    /\ run.exec # e
    /\ \A r \in Requests : req[r].exec # e
    /\ \A s \in Schedules : queueJobId[s] # e

(* A job that can be taken has not acted and is not being run. *)
WaitingJobsUnacted ==
  \A e \in Executions : job[e] \in {"delayed", "waiting"} =>
    acted[e] = 0 /\ run.exec # e

(* A job is enqueued by one handler, once, for a row that has not acted. *)
EnqueuedOnce ==
  \A r \in Requests : Enqueuing(r) =>
    /\ req[r].exec \in Executions
    /\ job[req[r].exec] = "none"
    /\ acted[req[r].exec] = 0
    /\ run.exec # req[r].exec
    /\ \A q \in Requests : Enqueuing(q) /\ req[q].exec = req[r].exec => q = r

(* A handler about to remove a job has seen one. *)
RemovesSeenJobs ==
  \A r \in Requests : req[r].pc \in {"cancel.remove", "delete.remove"} =>
    \A e \in Executions : req[r].exec = e => job[e] # "none"

(* The run is as far as its step counter says. *)
RunInStep ==
  /\ (run.exec = None) = (run.pc \in {"down", "idle", "occurrence", "createRow"})
  /\ run.pc \in {"occurrence", "createRow", "load", "starting", "claim",
                 "preflight", "open", "opening", "running"} => run.step = 1
  /\ run.pc \in {"load", "starting", "claim", "preflight", "open", "opening",
                 "running", "check", "step"} => acted[run.exec] = run.step - 1

TakenAtMostOnce ==
  /\ AbsentRowsUntouched
  /\ WaitingJobsUnacted
  /\ EnqueuedOnce
  /\ RemovesSeenJobs
  /\ RunInStep

RunsOnceInv == TypeOK /\ TakenAtMostOnce
=============================================================================
