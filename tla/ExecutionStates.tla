--------------------------- MODULE ExecutionStates ---------------------------
(***************************************************************************)
(* The state tables of packages/shared/src/states.ts and the one pure      *)
(* decision the runner takes when it records an outcome.                   *)
(*                                                                         *)
(* "absent" is not a state of the program: it is a row that does not exist *)
(* yet.                                                                    *)
(***************************************************************************)

EXECUTION_STATES ==
  {"queued", "starting", "running", "completed", "failed", "cancelled"}

SCHEDULE_STATES == {"scheduled", "queued", "cancelled", "completed", "failed"}

(* isTerminalExecutionState *)
TerminalExecution == {"completed", "failed", "cancelled"}

(* The statuses every "is this workflow already running?" query asks for. *)
InFlightStates == {"queued", "starting", "running"}

EXECUTION_TRANSITIONS ==
  [queued    |-> {"starting", "cancelled", "failed"},
   starting  |-> {"running", "failed", "cancelled"},
   running   |-> {"completed", "failed", "cancelled"},
   completed |-> {},
   failed    |-> {},
   cancelled |-> {}]

SCHEDULE_TRANSITIONS ==
  [scheduled |-> {"queued", "cancelled"},
   queued    |-> {"completed", "failed", "cancelled"},
   cancelled |-> {},
   completed |-> {},
   failed    |-> {}]

canTransitionExecution(from, to) == to \in EXECUTION_TRANSITIONS[from]

canTransitionSchedule(from, to) == to \in SCHEDULE_TRANSITIONS[from]

(***************************************************************************)
(* What the runner writes when its run has an outcome and the row may have *)
(* been cancelled while that outcome was being recorded.                   *)
(***************************************************************************)
outcomeWrite(cancelledNow, decidedBeforeCancel) ==
  CASE ~cancelledNow                        -> "full"
    [] cancelledNow /\ decidedBeforeCancel  -> "reason-only"
    [] cancelledNow /\ ~decidedBeforeCancel -> "nothing"
=============================================================================
