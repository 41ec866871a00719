------------------------------ MODULE StepProofs ------------------------------
(***************************************************************************)
(* Three promises of a run, for any workflow, any number of tabs and any   *)
(* times: which tab a step is handed, what a checked box is like, and how  *)
(* long the page a run ends on has held still.                             *)
(***************************************************************************)
EXTENDS Stepping, Functions, FiniteSetTheorems, TLAPS

-----------------------------------------------------------------------------
(* The tab a step is handed.                                                *)

(* There are no more tabs in the recording than tabs open. *)
LEMMA IdentitiesCounted ==
  ASSUME IsFiniteSet(OpenTabs)
  PROVE  LET identities == {meant[id] : id \in OpenTabs}
         IN IsFiniteSet(identities) /\ Cardinality(identities) <= Cardinality(OpenTabs)
<1> DEFINE identities == {meant[id] : id \in OpenTabs}
           f == [id \in OpenTabs |-> meant[id]]
<1>1. f \in Surjection(OpenTabs, identities)
  BY DEF Surjection
<1> QED BY <1>1, FS_Surjection

(* With every tab of the workflow open and a stray one besides, more tabs   *)
(* are open than the workflow refers to, whatever numbers they have.        *)
LEMMA StraysAreCounted ==
  ASSUME IsFiniteSet(OpenTabs), StrayOpen, AllOpen, Stray \notin ReferencedTabs
  PROVE  Cardinality(OpenTabs) > Cardinality(ReferencedTabs)
<1> DEFINE identities == {meant[id] : id \in OpenTabs}
<1>1. IsFiniteSet(identities) /\ Cardinality(identities) <= Cardinality(OpenTabs)
  BY IdentitiesCounted
<1>2. ReferencedTabs \cup {Stray} \subseteq identities
  BY DEF StrayOpen, AllOpen
<1>3. /\ IsFiniteSet(ReferencedTabs \cup {Stray})
      /\ Cardinality(ReferencedTabs \cup {Stray}) <= Cardinality(identities)
  BY <1>1, <1>2, FS_Subset
<1>4. IsFiniteSet(ReferencedTabs)
  BY <1>3, FS_Subset
<1>5. Cardinality(ReferencedTabs \cup {Stray}) = Cardinality(ReferencedTabs) + 1
  BY <1>4, FS_AddElement
<1>6. /\ Cardinality(ReferencedTabs) \in Nat /\ Cardinality(OpenTabs) \in Nat
      /\ Cardinality(identities) \in Nat
  BY <1>1, <1>4, FS_CardinalityType
<1> QED BY <1>1, <1>3, <1>5, <1>6

TabsInv ==
  /\ pages \subseteq Ids /\ lastTab \in Nat
  /\ workflow \in Workflows /\ at \in DOMAIN workflow
  /\ WrongTabNeverSilent

(* What PageFor() lets through may be found. *)
LEMMA FoundIsRight ==
  ASSUME TabsInv, PageFor(Step), Finds(Step)
  PROVE  WrongTabNeverSilent'
<1>1. Stray \notin ReferencedTabs
  <2>1. \A i \in DOMAIN workflow : workflow[i].page \in Nat
    <3>1. workflow \in Seq(Steps)
      BY WorkflowAssumption DEF TabsInv
    <3>2. \A i \in DOMAIN workflow : workflow[i] \in Steps
      BY <3>1
    <3> QED BY <3>2 DEF Steps
  <2> QED BY <2>1, SteppingAssumption DEF ReferencedTabs
<1>2. IsFiniteSet(OpenTabs)
  <2>1. IsFiniteSet(Ids)
    BY FS_Interval, SteppingAssumption DEF Ids
  <2> QED BY <2>1, FS_Subset DEF OpenTabs, TabsInv
<1>3. /\ found'.page = Step.page /\ found'.origin = Step.origin
      /\ found'.addr = addr[Step.page] /\ found'.meant = meant[Step.page]
      /\ found'.stray = StrayOpen /\ found'.complete = AllOpen
  BY DEF Finds
<1>4. CASE Step.page # 0 /\ NumberingHolds
  <2>1. Cardinality(OpenTabs) <= Cardinality(ReferencedTabs)
    BY <1>4 DEF NumberingHolds
  <2>2. ~(StrayOpen /\ AllOpen)
    <3>1. SUFFICES ASSUME StrayOpen, AllOpen PROVE FALSE
      OBVIOUS
    <3>2. IsFiniteSet(ReferencedTabs)
      <4>1. IsFiniteSet({meant[id] : id \in OpenTabs})
        BY <1>2, IdentitiesCounted
      <4>2. ReferencedTabs \subseteq {meant[id] : id \in OpenTabs}
        BY <3>1 DEF AllOpen
      <4> QED BY <4>1, <4>2, FS_Subset
    <3>3. Cardinality(OpenTabs) \in Nat /\ Cardinality(ReferencedTabs) \in Nat
      BY <1>2, <3>2, FS_CardinalityType
    <3> QED BY <1>1, <1>2, <2>1, <3>1, <3>3, StraysAreCounted
  <2> QED BY <1>3, <1>4, <2>2 DEF WrongTabNeverSilent
<1>5. CASE Step.page # 0 /\ ~NumberingHolds
  <2>1. Step.origin # NoOrigin /\ addr[Step.page] = Step.origin
    BY <1>5 DEF PageFor
  <2> QED BY <1>3, <2>1 DEF WrongTabNeverSilent
<1>6. CASE Step.page = 0
  BY <1>3, <1>6 DEF WrongTabNeverSilent
<1> QED BY <1>4, <1>5, <1>6

(* Pages come and go, and what was found was right when it was found.       *)
LEMMA TabsInvStep ==
  ASSUME TabsInv, [SteppingNext]_steppingVars
  PROVE  TabsInv'
<1> USE DEF TabsInv
<1>1. /\ workflow' = workflow
      /\ pages' \subseteq Ids /\ lastTab' \in Nat
      /\ at' = at \/ (at < Len(workflow) /\ at' = at + 1)
  <2> USE DEF progress, browser, settling, Rest, Kept, Goes, StepPasses, StepFails
  <2>1. CASE Site
    <3>1. CASE TabOpens
      BY <3>1, SteppingAssumption DEF TabOpens, Ids
    <3>2. CASE \E id \in Ids : TabCloses(id) \/ PageMoves(id)
      BY <3>2 DEF TabCloses, PageMoves
    <3>3. CASE ControlMoves
      BY <3>3 DEF ControlMoves
    <3>4. CASE PageWhileSettling
      BY <3>4 DEF PageWhileSettling, Changes, NavigatesAway, PageGone
    <3> QED BY <2>1, <3>1, <3>2, <3>3, <3>4 DEF Site
  <2>2. CASE ExecuteStep
    BY <2>2 DEF ExecuteStep, Begin, Resolve, Aim, Act, Goto, SwitchPage, NextStep
  <2>3. CASE DeliverPointerAction
    BY <2>3 DEF DeliverPointerAction, ReadFirst, Probe, ClickLabel, Reread, Raw, Caught
  <2>4. CASE SettleAfterLastStep
    BY <2>4 DEF SettleAfterLastStep, Loaded, Idle, Installed, Announces, GivesUp
  <2>5. CASE Tick
    BY <2>5 DEF Tick
  <2>6. CASE UNCHANGED steppingVars
    BY <2>6 DEF steppingVars
  <2> QED BY <2>1, <2>2, <2>3, <2>4, <2>5, <2>6 DEF SteppingNext, Runner
<1>2. at' \in DOMAIN workflow
  <2>1. workflow \in Seq(Steps)
    BY WorkflowAssumption
  <2> QED BY <1>1, <2>1
<1>3. WrongTabNeverSilent'
  <2>1. CASE UNCHANGED found
    BY <2>1 DEF WrongTabNeverSilent
  <2>2. CASE PageFor(Step) /\ Finds(Step)
    BY <2>2, FoundIsRight
  <2>3. UNCHANGED found \/ (PageFor(Step) /\ Finds(Step))
    <3>1. CASE Site
      BY <3>1 DEF Site, TabOpens, TabCloses, PageMoves, ControlMoves, PageWhileSettling,
                  Changes, NavigatesAway, PageGone, Rest
    <3>2. CASE ExecuteStep
      BY <3>2 DEF ExecuteStep, Begin, Resolve, Aim, Act, Goto, SwitchPage, NextStep
    <3>3. CASE DeliverPointerAction
      BY <3>3 DEF DeliverPointerAction, ReadFirst, Probe, ClickLabel, Reread, Raw, Caught, Kept
    <3>4. CASE SettleAfterLastStep \/ Tick
      BY <3>4 DEF SettleAfterLastStep, Loaded, Idle, Installed, Announces, GivesUp, Tick, Rest
    <3>5. CASE UNCHANGED steppingVars
      BY <3>5 DEF steppingVars
    <3> QED BY <3>1, <3>2, <3>3, <3>4, <3>5 DEF SteppingNext, Runner
  <2> QED BY <2>1, <2>2, <2>3
<1> QED BY <1>1, <1>2, <1>3

(* execute-step.ts pageFor(): counting tabs gives a stray one away, however  *)
(* many there are and in whichever order they appeared.                      *)
THEOREM StraysAreNotTaken == SteppingSpec => []WrongTabNeverSilent
<1>1. SteppingInit => TabsInv
  <2> SUFFICES ASSUME SteppingInit PROVE TabsInv
    OBVIOUS
  <2>1. 0 \in Ids
    BY SteppingAssumption DEF Ids
  <2>2. WrongTabNeverSilent
    BY DEF SteppingInit, NothingFound, WrongTabNeverSilent
  <2>3. 1 \in DOMAIN workflow
    BY WorkflowAssumption DEF SteppingInit
  <2> QED BY <2>1, <2>2, <2>3 DEF SteppingInit, TabsInv
<1>2. TabsInv /\ [SteppingNext]_steppingVars => TabsInv'
  BY TabsInvStep
<1>3. TabsInv => WrongTabNeverSilent
  BY DEF TabsInv
<1> QED BY <1>1, <1>2, <1>3, PTL DEF SteppingSpec

-----------------------------------------------------------------------------
(* What a checked box is like.                                              *)

Handling == {"probe", "label", "reread", "raw", "caught"}

(* `right` follows the box while it is being handled, and only the calls of *)
(* deliverPointerAction() end a pointer step.                               *)
BoxInv ==
  /\ pc \in Handling /\ box = Step.desired => right
  /\ pc = "act" => Step.type \in {"key", "element"}
  /\ pc = "goto" => Step.type = "goto"
  /\ pc = "switch" => Step.type = "switch"
  /\ StateAsAsked

(* The calls of a pointer step pass only on a box that is as asked.         *)
LEMMA BoxInvPointer ==
  ASSUME BoxInv, DeliverPointerAction
  PROVE  BoxInv'
<1> USE DEF BoxInv, Handling, StateAsAsked, Step, HasState, StepPasses, StepFails, Goes,
            Clicked, Untouched, control
<1>1. CASE ReadFirst
  BY <1>1 DEF ReadFirst
<1>2. CASE Probe
  BY <1>2 DEF Probe
<1>3. CASE ClickLabel
  BY <1>3 DEF ClickLabel
<1>4. CASE Reread
  BY <1>4 DEF Reread
<1>5. CASE Raw
  <2>1. pc = "raw" /\ UNCHANGED <<workflow, at>>
    BY <1>5 DEF Raw
  <2>2. CASE HasState /\ box = Step.desired /\ Untouched /\ StepPasses
    BY <2>1, <2>2
  <2>3. CASE Clicked /\ (IF ~HasState \/ box' = Step.desired THEN StepPasses ELSE Goes("caught"))
    <3>1. box' = Step.desired => right'
      BY <2>3
    <3>2. pc' \in {"passed", "caught"} /\ (pc' = "passed" => ~HasState \/ box' = Step.desired)
      BY <2>3
    <3> QED BY <2>1, <3>1, <3>2
  <2>4. CASE Untouched /\ (Goes("caught") \/ StepFails)
    BY <2>1, <2>4
  <2> QED BY <1>5, <2>2, <2>3, <2>4 DEF Raw
<1>6. CASE Caught
  BY <1>6 DEF Caught
<1> QED BY <1>1, <1>2, <1>3, <1>4, <1>5, <1>6 DEF DeliverPointerAction

(* No other step of the runner is taken for a pointer step.                 *)
LEMMA BoxInvExecute ==
  ASSUME BoxInv, ExecuteStep
  PROVE  BoxInv'
<1> USE DEF BoxInv, Handling, StateAsAsked, Step, HasState, StepPasses, StepFails, Goes, control
<1>1. CASE Begin
  BY <1>1 DEF Begin
<1>2. CASE Resolve
  BY <1>2 DEF Resolve
<1>3. CASE Aim
  BY <1>3 DEF Aim
<1>4. CASE Act
  BY <1>4 DEF Act
<1>5. CASE Goto
  BY <1>5 DEF Goto
<1>6. CASE SwitchPage
  BY <1>6 DEF SwitchPage
<1>7. CASE NextStep
  BY <1>7 DEF NextStep
<1> QED BY <1>1, <1>2, <1>3, <1>4, <1>5, <1>6, <1>7 DEF ExecuteStep

(* Nor does the site, or the wait, pass a step.                             *)
LEMMA BoxInvStep ==
  ASSUME BoxInv, [SteppingNext]_steppingVars
  PROVE  BoxInv'
<1> USE DEF BoxInv, Handling, StateAsAsked, Step, HasState
<1>1. CASE TabOpens \/ \E id \in Ids : TabCloses(id) \/ PageMoves(id)
  BY <1>1 DEF TabOpens, TabCloses, PageMoves, control, progress
<1>2. CASE ControlMoves
  BY <1>2 DEF ControlMoves, progress
<1>3. CASE PageWhileSettling \/ SettleAfterLastStep \/ Tick
  <2>1. /\ UNCHANGED <<workflow, at, box, right>>
        /\ pc' \in {pc, "over", "idle", "quiet"}
    BY <1>3 DEF PageWhileSettling, Changes, NavigatesAway, PageGone, SettleAfterLastStep,
                Loaded, Idle, Installed, Announces, GivesUp, Tick, Rest, control, progress
  <2> QED BY <2>1
<1>4. CASE UNCHANGED steppingVars
  BY <1>4 DEF steppingVars, control, progress
<1> QED BY <1>1, <1>2, <1>3, <1>4, BoxInvPointer, BoxInvExecute
        DEF SteppingNext, Site, Runner

(* pointer-action.ts: a check that returns by any way but the unread one has *)
(* left the box as asked at some time since its last click.                  *)
THEOREM ChecksAreChecked == SteppingSpec => []StateAsAsked
<1>1. SteppingInit => BoxInv
  BY DEF SteppingInit, BoxInv, Handling, StateAsAsked
<1>2. BoxInv /\ [SteppingNext]_steppingVars => BoxInv'
  BY BoxInvStep
<1>3. BoxInv => StateAsAsked
  BY DEF BoxInv
<1> QED BY <1>1, <1>2, <1>3, PTL DEF SteppingSpec

-----------------------------------------------------------------------------
(* How long the page has held still.                                        *)

(* A document not observed too early is observed for Quiet ticks, and the   *)
(* ticks its timer still has to run are those it has not held still yet.    *)
QuietInv ==
  /\ still \in 0..Quiet
  /\ observer \in [on : BOOLEAN, quiet : {0, Quiet}, timer : 0..Quiet \cup {Fired}]
  /\ installs \subseteq {0, Quiet} /\ wanted \in {0, Quiet}
  /\ observer.on /\ ~early =>
       /\ observer.quiet = Quiet
       /\ observer.timer # Fired => still + observer.timer >= Quiet
  /\ QuietWhenSettled

(* A change of the page starts its observer again.                          *)
LEMMA QuietInvPage ==
  ASSUME QuietInv, PageWhileSettling
  PROVE  QuietInv'
<1> USE SteppingAssumption DEF QuietInv, QuietWhenSettled, Settling, Running, Rest, progress,
                               Observing, Off, Fired
<1>1. CASE Changes
  BY <1>1 DEF Changes
<1>2. CASE NavigatesAway
  BY <1>2 DEF NavigatesAway
<1>3. CASE PageGone
  BY <1>3 DEF PageGone, settling
<1> QED BY <1>1, <1>2, <1>3 DEF PageWhileSettling

(* The timer runs down as the page holds still.                             *)
LEMMA QuietInvWait ==
  ASSUME QuietInv, SettleAfterLastStep \/ Tick
  PROVE  QuietInv'
<1> USE SteppingAssumption DEF QuietInv, QuietWhenSettled, Settling, Running, Rest, progress,
                               Observing, Off, Fired
<1>1. CASE Loaded \/ GivesUp
  BY <1>1 DEF Loaded, GivesUp, settling
<1>2. CASE Idle
  BY <1>2 DEF Idle
<1>3. CASE \E q \in {0, Quiet} : Installed(q)
  <2>1. PICK q \in {0, Quiet} : Installed(q)
    BY <1>3
  <2>2. CASE observer.on
    BY <2>1, <2>2 DEF Installed
  <2>3. CASE ~observer.on
    <3>1. observer' = Observing(q) /\ early' = (q = 0) /\ UNCHANGED <<still, wanted, result>>
      BY <2>1, <2>3 DEF Installed
    <3>2. installs' \subseteq {0, Quiet} /\ result = "running"
      BY <2>1 DEF Installed
    <3>3. CASE q = 0
      <4>1. observer' = [on |-> TRUE, quiet |-> 0, timer |-> 0] /\ early'
        BY <3>1, <3>3
      <4>2. observer' \in [on : BOOLEAN, quiet : {0, Quiet}, timer : 0..Quiet \cup {Fired}]
        BY <4>1
      <4> QED BY <3>1, <3>2, <4>1, <4>2
    <3>4. CASE q = Quiet /\ q # 0
      <4>1. observer' = [on |-> TRUE, quiet |-> Quiet, timer |-> Quiet]
        BY <3>1, <3>4
      <4>2. observer'.quiet = Quiet /\ observer'.timer = Quiet
        BY <4>1
      <4>3. still' + observer'.timer >= Quiet
        BY <3>1, <4>2
      <4> QED BY <3>1, <3>2, <4>1, <4>2, <4>3
    <3> QED BY <3>3, <3>4
  <2> QED BY <2>2, <2>3
<1>4. CASE Announces
  BY <1>4 DEF Announces
<1>5. CASE Tick
  BY <1>5 DEF Tick
<1> QED BY <1>1, <1>2, <1>3, <1>4, <1>5 DEF SettleAfterLastStep

(* The steps before the wait leave its observer alone.                      *)
LEMMA QuietInvStep ==
  ASSUME QuietInv, [SteppingNext]_steppingVars
  PROVE  QuietInv'
<1>1. CASE TabOpens \/ ControlMoves \/ (\E id \in Ids : TabCloses(id) \/ PageMoves(id))
           \/ ExecuteStep \/ DeliverPointerAction \/ UNCHANGED steppingVars
  <2>1. UNCHANGED settling /\ result' \in {result, "failed"}
    <3> USE DEF progress, Kept, Goes, StepPasses, StepFails
    <3>1. CASE TabOpens \/ ControlMoves \/ (\E id \in Ids : TabCloses(id) \/ PageMoves(id))
      BY <3>1 DEF TabOpens, ControlMoves, TabCloses, PageMoves
    <3>2. CASE ExecuteStep
      BY <3>2 DEF ExecuteStep, Begin, Resolve, Aim, Act, Goto, SwitchPage, NextStep
    <3>3. CASE DeliverPointerAction
      BY <3>3 DEF DeliverPointerAction, ReadFirst, Probe, ClickLabel, Reread, Raw, Caught
    <3>4. CASE UNCHANGED steppingVars
      BY <3>4 DEF steppingVars
    <3> QED BY <1>1, <3>1, <3>2, <3>3, <3>4
  <2> QED BY <2>1 DEF QuietInv, QuietWhenSettled, settling
<1>2. CASE PageWhileSettling
  BY <1>2, QuietInvPage
<1>3. CASE SettleAfterLastStep \/ Tick
  BY <1>3, QuietInvWait
<1> QED BY <1>1, <1>2, <1>3 DEF SteppingNext, Site, Runner

(* settle.ts: a wait that ends by itself ends on a page that has held still, *)
(* unless its document was observed too early, for any two times.            *)
THEOREM QuietIsQuiet == SteppingSpec => []QuietWhenSettled
<1>1. SteppingInit => QuietInv
  BY SteppingAssumption DEF SteppingInit, QuietInv, QuietWhenSettled, Off
<1>2. QuietInv /\ [SteppingNext]_steppingVars => QuietInv'
  BY QuietInvStep
<1>3. QuietInv => QuietWhenSettled
  BY DEF QuietInv
<1> QED BY <1>1, <1>2, <1>3, PTL DEF SteppingSpec
=============================================================================
