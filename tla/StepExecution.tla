---------------------------- MODULE StepExecution ----------------------------
(***************************************************************************)
(* executeStep() (apps/worker/src/runner/execute-step.ts), with the pages  *)
(* it looks up, the selectors it resolves (locator.ts) and the navigations *)
(* it makes (navigation.ts).  A step that throws fails the run: nothing    *)
(* is retried and nothing skipped.                                         *)
(*                                                                         *)
(* "element" stands for the steps that resolve a selector and act on it    *)
(* once (fill, select, press on an element, the waits and assertions,      *)
(* download, upload, read), "key" for those that need no selector.         *)
(***************************************************************************)
EXTENDS StepPointer

NumberingHolds == Cardinality(OpenTabs) <= Cardinality(ReferencedTabs)

(* Mutant: only a step recorded without an origin has the tabs counted. *)
PageForUncounted(step) ==
  /\ IsOpen(step.page)
  /\ step.page # 0 =>
       /\ step.origin # NoOrigin => addr[step.page] \in {step.origin, Unreadable}
       /\ step.origin = NoOrigin => NumberingHolds

(* pageFor(): the number must be open; a tab must show the origin it was    *)
(* recorded on; when the step or the tab has none to compare, no more tabs  *)
(* may be open than the workflow refers to.                                 *)
PageFor(step) ==
  /\ IsOpen(step.page)
  /\ step.page # 0 =>
       IF step.origin # NoOrigin /\ addr[step.page] # Unreadable
       THEN addr[step.page] = step.origin
       ELSE NumberingHolds

Finds(step) ==
  found' = [page |-> step.page, origin |-> step.origin, addr |-> addr[step.page],
            meant |-> meant[step.page], stray |-> StrayOpen, complete |-> AllOpen]

(* A step begins: what it needs of its page is asked before anything else.  *)
Begin ==
  /\ pc = "begin"
  /\ \/ Step.type = "switch" /\ Goes("switch") /\ UNCHANGED found
     \/ /\ Step.type # "switch" /\ PageFor(Step)
        /\ Finds(Step)
        /\ Goes(CASE Step.type = "goto" -> "goto"
                  [] Step.type = "key" -> "act"
                  [] OTHER -> "resolve")
     \/ Step.type # "switch" /\ ~PageFor(Step) /\ StepFails /\ UNCHANGED found
     \/ StepFails /\ UNCHANGED found  \* the value cannot be rendered, or the address is refused
  /\ UNCHANGED <<browser, control, moves, right, settling>>

(* resolveUnique(): the selector, and its recorded fallback only if that    *)
(* matched nothing.  More than one match is an error, never a choice.       *)
Resolved(primary, fallback) ==
  primary = 1 \/ (primary = 0 /\ fallback = 1)

(* A pointer action looks its page up once more. *)
Resolve ==
  /\ pc = "resolve"
  /\ \E primary, fallback \in 0..2 :
       \/ ~Resolved(primary, fallback) /\ StepFails /\ UNCHANGED found
       \/ /\ Resolved(primary, fallback)
          /\ IsOpen(Step.page)
          /\ \/ Step.type = "element" /\ Goes("act") /\ UNCHANGED found
             \/ Step.type = "pointer" /\ PageFor(Step) /\ Finds(Step) /\ Goes("aim")
             \/ Step.type = "pointer" /\ ~PageFor(Step) /\ StepFails /\ UNCHANGED found
       \/ ~IsOpen(Step.page) /\ StepFails /\ UNCHANGED found
  /\ UNCHANGED <<browser, control, moves, right, settling>>

(* The control that was found is any control. *)
Aim ==
  /\ pc = "aim"
  /\ box' \in BOOLEAN /\ covered' \in BOOLEAN /\ labelled' \in BOOLEAN
  /\ Goes("read")
  /\ UNCHANGED <<browser, moves, found, right, settling>>

(* The element or the keyboard is acted on, once; a page that is gone, an   *)
(* option that is missing or a password to be read throws.                  *)
Act ==
  /\ pc = "act"
  /\ \/ IsOpen(Step.page) /\ StepPasses
     \/ StepFails
  /\ UNCHANGED <<browser, control, moves, found, right, settling>>

(* gotoTolerantOfRedirects() and assertSafeLandedUrl(): wherever the site   *)
(* sent the page is accepted when it is a safe address; any other error of  *)
(* the navigation fails.                                                    *)
Goto ==
  /\ pc = "goto"
  /\ \/ /\ IsOpen(Step.page)
        /\ \E o \in Origins : addr' = [addr EXCEPT ![Step.page] = o]
        /\ StepPasses
     \/ UNCHANGED addr /\ StepFails
  /\ UNCHANGED <<pages, lastTab, active, meant, control, moves, found, right, settling>>

(* switchPage: asked again and again until the tab is there or time is up.  *)
SwitchPage ==
  /\ pc = "switch"
  /\ \/ IsOpen(Step.page) /\ active' = Step.page /\ StepPasses
     \/ IsOpen(Step.page) /\ active' = Step.page /\ StepFails   \* it does not load
     \/ ~IsOpen(Step.page) /\ UNCHANGED active /\ StepFails
  /\ UNCHANGED <<pages, lastTab, addr, meant, control, moves, found, right, settling>>

(* On to the next step, or to the wait that follows the last one. *)
NextStep ==
  /\ pc \in {"passed", "unread"}
  /\ \/ at < Len(workflow) /\ at' = at + 1 /\ pc' = "begin"
     \/ at = Len(workflow) /\ at' = at /\ pc' = "load"
  /\ box' = FALSE /\ covered' = FALSE /\ labelled' = FALSE /\ right' = FALSE
  /\ UNCHANGED <<browser, moves, workflow, result, found, settling>>

ExecuteStep == Begin \/ Resolve \/ Aim \/ Act \/ Goto \/ SwitchPage \/ NextStep
=============================================================================
