------------------------------ MODULE Stepping ------------------------------
(***************************************************************************)
(* A run of a workflow from its first step to the end of the wait that     *)
(* follows the last one, in a browser whose site does as it likes.         *)
(***************************************************************************)
EXTENDS StepSettle

NothingFound == [page |-> 0, origin |-> NoOrigin, addr |-> Blank, meant |-> 0,
                 stray |-> FALSE, complete |-> FALSE]

SteppingInit ==
  /\ pages = {0} /\ lastTab = 0 /\ active = 0
  /\ addr = [id \in Ids |-> Blank]
  /\ meant = [id \in Ids |-> 0]
  /\ box = FALSE /\ covered = FALSE /\ labelled = FALSE
  /\ moves = 0
  /\ workflow \in Workflows
  /\ at = 1 /\ pc = "begin" /\ result = "running"
  /\ found = NothingFound
  /\ right = FALSE
  /\ now = 0 /\ still = 0 /\ wanted = 0
  /\ installs = {} /\ observer = Off /\ early = FALSE

Site ==
  \/ TabOpens
  \/ \E id \in Ids : TabCloses(id) \/ PageMoves(id)
  \/ ControlMoves
  \/ PageWhileSettling

Runner == ExecuteStep \/ DeliverPointerAction \/ SettleAfterLastStep

SteppingNext == Site \/ Runner \/ Tick

SteppingSpec == SteppingInit /\ [][SteppingNext]_steppingVars

(* The worker goes on, every call to the browser returns, and time passes.    *)
(* Most calls have a time limit of their own; keyboard.press, count() and     *)
(* evaluate have none, and of those the fairness assumes that they return.    *)
FairStepping == SteppingSpec /\ WF_steppingVars(Runner) /\ WF_steppingVars(Tick)

-----------------------------------------------------------------------------

(* execute-step.ts "this codebase does not guess about which document it     *)
(* operates on": once every tab of the recording and a stray one are open, a  *)
(* step is handed another tab than its own only if that tab shows the very    *)
(* origin the step was recorded on, which is all the code has to go by.  Tabs *)
(* open, close, move and have no readable address yet in any order meanwhile. *)
WrongTabNeverSilent ==
  found.page # 0 /\ found.meant # found.page /\ found.stray /\ found.complete =>
    found.origin # NoOrigin /\ found.addr = found.origin

(* pointer-action.ts "a click that changed nothing is never mistaken for     *)
(* success": when a check or uncheck returns, the box has been as asked      *)
(* since its last click, whatever the page's code does with clicks and       *)
(* however it moves the box or covers it in between.  Excepted is the label  *)
(* clicked in the catch (`unread`), which is not looked at again.            *)
StateAsAsked ==
  pc = "passed" /\ Step.type = "pointer" /\ HasState => right

(* settle.ts: the wait that ends by itself, before its time is up, ends on   *)
(* a page that has held still as long as settle.ts says, across navigations  *)
(* and changes.  Excepted is a document observed before the wait asked       *)
(* (`early`), which a navigation during the first two waits leaves behind.   *)
QuietWhenSettled == result = "settled" => still = Quiet \/ early

(* settle.ts "The whole wait is bounded: a page that never settles must not  *)
(* hold the run": every run ends, though its page changes for ever.          *)
RunEnds == <>(result # "running")
=============================================================================
