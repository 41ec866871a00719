------------------------------ MODULE StepPages ------------------------------
(***************************************************************************)
(* The browser a run acts in: its pages as BrowserSession numbers them     *)
(* (apps/worker/src/session/session.ts), the control the step at hand is   *)
(* about, and what the site does to both of its own accord.                *)
(*                                                                         *)
(* A workflow is replayed: `meant` says which tab of the recording a page  *)
(* is, or that the recording never saw it.  The runner cannot read it; it  *)
(* sees the number and the address.                                        *)
(***************************************************************************)
EXTENDS Naturals, Sequences, FiniteSets

CONSTANTS
  Origins,    \* origins a page can be on
  Blank,      \* about:blank, whose origin reads "null"
  Unreadable, \* an address whose origin cannot be read: a popup that has none yet
  NoOrigin,   \* the origin of a step recorded on such a popup
  Stray,      \* a tab the recording never saw
  Stateless,  \* the wanted state of a control that has none
  Workflows,  \* the step lists that may be run
  MaxTabs,    \* bound: tabs opened during the run
  MaxMoves,   \* bound: things the site does to a page or a control
  Timeout,    \* SETTLE_TIMEOUT_MS, in ticks
  Quiet       \* SETTLE_QUIET_MS, in ticks

ASSUME SteppingAssumption ==
  /\ {MaxTabs, MaxMoves, Timeout, Quiet} \subseteq Nat
  /\ 0 < Quiet /\ Quiet < Timeout
  /\ Blank \notin Origins /\ NoOrigin \notin Origins
  /\ Unreadable \notin Origins \cup {Blank, NoOrigin}
  /\ Stray \notin Nat /\ Stateless \notin BOOLEAN

(* A step: what kind it is, the tab it is about (0 is main), the origin that *)
(* tab had when it was recorded, and the state wanted of its control.        *)
Steps == [type : {"goto", "switch", "key", "element", "pointer"}, page : Nat,
          origin : Origins \cup {NoOrigin}, desired : BOOLEAN \cup {Stateless}]

ASSUME WorkflowAssumption == \A w \in Workflows : w # <<>> /\ w \in Seq(Steps)

VARIABLES
  \* the browser
  pages, lastTab, active,  \* the open pages, nextTabIndex, activePageId
  addr, meant,             \* the origin each page shows, the recorded tab it is
  box, covered, labelled,  \* the control: ticked? under something? with a label?
  moves,                   \* what the site has done so far
  \* the run
  workflow, at,            \* the steps, and the index of the current one
  pc,                      \* where in the step, or in what follows the last one
  result,                  \* "running", "failed", "settled", "timeout"
  \* history
  found,                   \* the page last handed to a step, and what was open then
  right,                   \* has the box been as asked since the step's last click?
  \* the wait after the last step
  now, still,              \* ticks since it began, and since the page last changed
  wanted,                  \* quietMs of the watcher
  installs,                \* observers on their way to the document
  observer,                \* the document's observer
  early                    \* history: was it installed before the wait asked for it?

browser  == <<pages, lastTab, active, addr, meant>>
control  == <<box, covered, labelled>>
progress == <<workflow, at, pc, result>>
settling == <<now, still, wanted, installs, observer, early>>
steppingVars == <<browser, control, moves, progress, found, right, settling>>

Ids == 0..MaxTabs
Running == result = "running"
InSteps == Running /\ pc \notin {"load", "idle", "quiet"}
Step == workflow[at]

(* Numbers are handed out in the order the pages appear. *)
IsOpen(id) == id \in pages

(* countReferencedTabs(): the tabs beyond main the workflow speaks of. *)
ReferencedTabs ==
  {workflow[i].page : i \in DOMAIN workflow} \ {0}

OpenTabs == pages \ {0}

StrayOpen == \E id \in OpenTabs : meant[id] = Stray
AllOpen == \A k \in ReferencedTabs : \E id \in OpenTabs : meant[id] = k

-----------------------------------------------------------------------------
(* What the site does while the run is at it. *)

Moves == InSteps /\ moves < MaxMoves /\ moves' = moves + 1

(* A tab appears: one of the recording's, in whichever order, or a stray.   *)
(* trackPage() numbers it and makes it the active page.  Once the steps are *)
(* done a new tab concerns nobody.                                          *)
TabOpens ==
  /\ InSteps /\ lastTab < MaxTabs
  /\ lastTab' = lastTab + 1
  /\ pages' = pages \cup {lastTab'}
  /\ active' = lastTab'
  /\ \E o \in Origins \cup {Blank, Unreadable} : addr' = [addr EXCEPT ![lastTab'] = o]
  /\ \E k \in (ReferencedTabs \ {meant[id] : id \in 1..lastTab}) \cup {Stray} :
       meant' = [meant EXCEPT ![lastTab'] = k]
  /\ UNCHANGED <<control, moves, progress, found, right, settling>>

Last(open) == CHOOSE id \in open : \A other \in open : other <= id

(* A tab closes: the last of the pages left becomes the active one. *)
TabCloses(id) ==
  /\ Moves
  /\ id # 0 /\ IsOpen(id)
  /\ pages' = pages \ {id}
  /\ active' = IF active = id THEN Last(pages') ELSE active
  /\ UNCHANGED <<lastTab, addr, meant, control, progress, found, right, settling>>

(* A page goes elsewhere while steps are performed. *)
PageMoves(id) ==
  /\ Moves
  /\ IsOpen(id)
  /\ \E o \in Origins : addr' = [addr EXCEPT ![id] = o]
  /\ UNCHANGED <<pages, lastTab, active, meant, control, progress, found, right, settling>>

(* The page's own code moves the control, or something over it. *)
ControlMoves ==
  /\ Moves
  /\ pc \in {"probe", "label", "reread", "raw", "caught"}
  /\ \/ box' = ~box /\ UNCHANGED covered
     \/ covered' = ~covered /\ UNCHANGED box
  /\ right' = (right \/ box' = Step.desired)
  /\ UNCHANGED <<browser, labelled, progress, found, settling>>
=============================================================================
