----------------------------- MODULE StepPointer -----------------------------
(***************************************************************************)
(* deliverPointerAction() (apps/worker/src/runner/pointer-action.ts), call *)
(* by call: every question to the page and every click is a step of its    *)
(* own, and the page may change in between.                                *)
(***************************************************************************)
EXTENDS StepPages

(* The step ends well, or fails and takes the run with it. *)
StepPasses == pc' = "passed" /\ UNCHANGED <<workflow, at, result>>
StepFails == pc' = "over" /\ result' = "failed" /\ UNCHANGED <<workflow, at>>
Goes(next) == pc' = next /\ UNCHANGED <<workflow, at, result>>

Kept == UNCHANGED <<browser, moves, found, settling>>

HasState == Step.desired # Stateless

(* A click on the label, or on the control: the page's code follows it or   *)
(* ignores it.                                                              *)
Clicked ==
  /\ box' \in {box, ~box}
  /\ right' = (box' = Step.desired)
  /\ UNCHANGED <<covered, labelled>>

Untouched == UNCHANGED <<control, right>>

(* The state is read before anything is clicked; a read that fails counts   *)
(* as a state that is not the wanted one.                                   *)
ReadFirst ==
  /\ pc = "read"
  /\ right' = (box = Step.desired)
  /\ \/ HasState /\ box = Step.desired /\ StepPasses
     \/ HasState /\ box # Step.desired /\ Goes("probe")
     \/ ~HasState /\ Goes("probe")
  /\ UNCHANGED control /\ Kept

(* isPointerBlocked(), and associatedLabel() when it is; an element that     *)
(* cannot be asked counts as not covered.                                   *)
Probe ==
  /\ pc = "probe"
  /\ \/ covered /\ labelled /\ Goes("label")
     \/ Goes("raw")
  /\ Untouched /\ Kept

(* Mutant: a click on the label is taken for success. *)
ClickLabelTrusted ==
  /\ pc = "label"
  /\ \/ Clicked /\ StepPasses
     \/ Untouched /\ StepFails
  /\ Kept

ClickLabel ==
  /\ pc = "label"
  /\ \/ Clicked /\ (IF HasState THEN Goes("reread") ELSE StepPasses)
     \/ Untouched /\ StepFails
  /\ Kept

Reread ==
  /\ pc = "reread"
  /\ IF box = Step.desired THEN StepPasses ELSE Goes("raw")
  /\ Untouched /\ Kept

(* The action itself.  On a control with a state, the library's check() does *)
(* nothing when the state is right, and verifies it after its click; a       *)
(* pointer somebody intercepts, or a state that does not move, is caught,    *)
(* anything else is thrown.                                                  *)
Raw ==
  /\ pc = "raw"
  /\ \/ HasState /\ box = Step.desired /\ Untouched /\ StepPasses
     \/ /\ ~covered
        /\ box # Step.desired
        /\ Clicked
        /\ IF ~HasState \/ box' = Step.desired THEN StepPasses ELSE Goes("caught")
     \/ covered /\ Untouched /\ Goes("caught")
     \/ Untouched /\ StepFails
  /\ Kept

(* The catch: the label, and a return without looking (`unread`), or the     *)
(* action forced.                                                           *)
Caught ==
  /\ pc = "caught"
  /\ \/ labelled /\ Clicked /\ Goes("unread")
     \/ /\ ~labelled
        /\ Clicked
        /\ IF ~HasState \/ box' = Step.desired THEN StepPasses ELSE StepFails
     \/ Untouched /\ StepFails
  /\ Kept

DeliverPointerAction ==
  ReadFirst \/ Probe \/ ClickLabel \/ Reread \/ Raw \/ Caught
=============================================================================
