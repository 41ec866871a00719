---------------------------- MODULE RecordedSteps ----------------------------
(***************************************************************************)
(* From a recording to a workflow: actionToStep() and actionsToSteps()     *)
(* (packages/workflow-schema/src/recorded-action.ts), and validateSteps()  *)
(* (step.ts) that decides whether the list may be saved.                   *)
(*                                                                         *)
(* An action's element is [selector, frame, name, type]: its selector ("" *)
(* when nothing identifies it), the frame it is in, what it is called and  *)
(* the type of its input.                                                  *)
(***************************************************************************)
EXTENDS Naturals, Sequences, SequencesExt

Kinds == {"navigate", "click", "fill", "read"}

RecordedActions ==
  [kind : Kinds, value : STRING, isPassword : BOOLEAN, pageId : STRING, site : STRING,
   element : [selector : STRING, frame : STRING, name : STRING, type : STRING],
   isFinal : BOOLEAN]

(* A site's password fields have one credential per name of the field. *)
CredentialName(action) == <<action.element.name, action.site>>

Literal(text) == [secret |-> FALSE, of |-> <<text, "">>]
SecretOf(name) == [secret |-> TRUE, of |-> name]
NoValue == Literal("")

NeedsSelector == {"click", "fill", "read"}
NeedsValue == {"goto", "fill"}
TypeOf(kind) == IF kind = "navigate" THEN "goto" ELSE kind

Value(action) ==
  CASE action.kind = "navigate" -> Literal(action.value)
    [] action.kind = "fill" /\ action.isPassword -> SecretOf(CredentialName(action))
    [] action.kind = "fill" /\ ~action.isPassword -> Literal(action.value)
    [] OTHER -> NoValue

ReadsASecret(action) == action.element.type = "password"

(* Can it be said without guessing?  What the schema refuses is not a step:   *)
(* a field that was emptied has no value, and is skipped.                     *)
Converts(action) ==
  /\ action.kind \in NeedsSelector => action.element.selector # ""
  /\ ~(action.kind = "read" /\ ReadsASecret(action))
  /\ TypeOf(action.kind) \in NeedsValue => Value(action) # NoValue

ActionToStep(action) ==
  [type |-> TypeOf(action.kind), value |-> Value(action), pageId |-> action.pageId,
   selector |-> action.element.selector, frame |-> action.element.frame,
   outputName |-> IF action.kind = "read" THEN <<action.element.name, 1>> ELSE <<"", 0>>,
   isFinal |-> action.isFinal]

(* Mutant: the page is forgotten. *)
SameTargetAnyPage(a, b) == a.selector # "" /\ a.selector = b.selector

(* The frame is not among what is compared. *)
SameTarget(a, b) == a.selector # "" /\ a.selector = b.selector /\ a.pageId = b.pageId

(* A second read of one name is numbered from 2. *)
Renamed(step, steps) ==
  LET taken == {steps[i].outputName : i \in {j \in DOMAIN steps : steps[j].type = "read"}}
      free == CHOOSE n \in 1..Len(steps) + 1 :
                /\ <<step.outputName[1], n>> \notin taken
                /\ \A m \in 1..n - 1 : <<step.outputName[1], m>> \in taken
  IN IF step.type = "read" THEN [step EXCEPT !.outputName = <<@[1], free>>] ELSE step

Stored(credentials, action) ==
  IF action.kind = "fill" /\ action.isPassword
  THEN {c \in credentials : c.name # CredentialName(action)}
         \cup {[name |-> CredentialName(action), value |-> action.value]}
  ELSE credentials

(* One turn of the loop: `so` is what the turns before it have made. *)
Converted(so, action, index) ==
  LET step == Renamed(ActionToStep(action), so.steps)
      last == Len(so.steps)
      previous == so.steps[last]
      collapses == last > 0 /\ step.type = "fill" /\ previous.type = "fill" /\ SameTarget(previous, step)
      repeats == last > 0 /\ step.type = "goto" /\ previous.type = "goto" /\ previous.value = step.value
      credentials == Stored(so.credentials, action)
  IN CASE ~Converts(action) -> [so EXCEPT !.skipped = Append(@, index)]
       [] Converts(action) /\ collapses ->
            [so EXCEPT !.steps[last] = [previous EXCEPT !.value = step.value],
                       !.source[last] = index, !.credentials = credentials]
       [] Converts(action) /\ repeats -> [so EXCEPT !.credentials = credentials]
       [] OTHER -> [so EXCEPT !.steps = Append(@, step), !.source = Append(@, index),
                              !.credentials = credentials]

NothingYet == [steps |-> <<>>, source |-> <<>>, credentials |-> {}, skipped |-> <<>>]

Conversion(actions) ==
  LET so[n \in 0..Len(actions)] ==
        IF n = 0 THEN NothingYet ELSE Converted(so[n - 1], actions[n], n)
  IN so

ActionsToSteps(actions) == Conversion(actions)[Len(actions)]

-----------------------------------------------------------------------------
(* The checks of step.ts.  What was just recorded is enabled. *)

ValidFinalPlacement(steps) ==
  LET finals == {i \in DOMAIN steps : steps[i].isFinal}
  IN \A i \in finals : i = Len(steps) /\ finals = {i}

ValidOutputNames(steps) ==
  \A i, j \in DOMAIN steps :
    steps[i].type = "read" /\ steps[j].type = "read" /\ steps[i].outputName = steps[j].outputName => i = j

ValidSteps(steps) == ValidFinalPlacement(steps) /\ ValidOutputNames(steps)
=============================================================================
