---------------------------- MODULE RecorderState ----------------------------
(***************************************************************************)
(* The recording of one browser session: what BrowserSession keeps of it   *)
(* (apps/worker/src/session/session.ts) and the copy of the configuration  *)
(* that the script injected into every page keeps                          *)
(* (apps/worker/src/recorder/browser-script.ts).                           *)
(*                                                                         *)
(* Worker and page talk both ways over a connection that keeps the order   *)
(* of what is sent on it: the page calls the worker's bindings, the worker *)
(* evaluates a call of __recorderApply in the page.  A page is one         *)
(* document here; its frames carry the same script and the same state.     *)
(***************************************************************************)
EXTENDS Naturals, Sequences

CONSTANTS
  MaxTabs,     \* bound: tabs opened beyond the first page
  MaxActions,  \* bound: actions recorded at a time
  MaxWire,     \* bound: calls of one page the worker has not seen yet
  Passes,      \* bound: applyConfigToAllPages() calls that can run together
  NoPass,      \* awaits an evaluation that no pass awaits
  MaxAsked,    \* bound: requests that change the configuration
  MaxVisits    \* bound: documents loaded beyond the first, in a page or a new tab

ASSUME RecorderAssumption ==
  /\ {MaxTabs, MaxActions, MaxWire, MaxAsked, MaxVisits} \subseteq Nat
  /\ NoPass \notin Passes

VARIABLES
  \* the worker
  recording, armedFinal, armedRead,
  actions,   \* what has been recorded, in order
  pages,     \* the open pages, in the order they appeared
  active,    \* activePageId
  lastTab,   \* nextTabIndex
  passes,    \* per pass, the index in pages it has reached; 0 when it is not running
  \* the pages
  doc,       \* the script's copy of the configuration
  asked,     \* has the document asked for its configuration yet?
  fresh,     \* pages the worker will configure once their document is read
  toPage, fromPage,
  \* history and bounds
  skipped,   \* pages a pass went past because another page closed under it
  requests,  \* requests that changed the configuration so far
  visits     \* documents loaded beyond the first

sessionSide == <<recording, armedFinal, armedRead, actions, pages, active, lastTab>>
pageSide    == <<doc, asked, fromPage, requests, visits>>
wires       == <<passes, toPage, skipped>>
recorderVars == <<recording, armedFinal, armedRead, actions, pages, active, lastTab,
                  passes, doc, asked, fresh, toPage, fromPage, skipped, requests, visits>>

(* Page 0 is "main", page n is "tab-n". *)
Pages == 0..MaxTabs

Config == [recording : BOOLEAN, armedFinal : BOOLEAN, armedRead : BOOLEAN]

(* The script starts with everything off, and so does the worker: the page *)
(* the session opens with has its configuration already.                   *)
AllOff == [recording |-> FALSE, armedFinal |-> FALSE, armedRead |-> FALSE]

(* "other" stands for every kind the page reports besides clicks and reads *)
(* (fill, select, check, uncheck, press, submit, upload), and for the      *)
(* navigations and new tabs the worker records itself.                     *)
PageKinds == {"click", "read", "other"}

Action == [kind : PageKinds \cup {"download", "wait"}, isFinal : BOOLEAN]

(* What a page calls: __recorderEmit with an action, a click when it is the *)
(* closing one, or __recorderConfig.                                       *)
Call == [kind : PageKinds, isFinal : {FALSE}] \cup [kind : {"click"}, isFinal : {TRUE}]
        \cup [kind : {"config"}]

(* What is on its way to a page: a configuration, and the pass awaiting it, *)
(* NoPass when none does.                                                  *)
Applied == [config : Config, pass : Passes \cup {NoPass}]

RecorderTypeOK ==
  /\ {recording, armedFinal, armedRead} \subseteq BOOLEAN
  /\ actions \in Seq(Action)
  /\ pages \in Seq(Pages)
  /\ active \in Pages
  /\ lastTab \in Pages
  /\ passes \in [Passes -> Nat]
  /\ doc \in [Pages -> Config]
  /\ asked \in [Pages -> BOOLEAN]
  /\ fresh \subseteq Pages
  /\ toPage \in [Pages -> Seq(Applied)]
  /\ fromPage \in [Pages -> Seq(Call)]
  /\ skipped \subseteq Pages
  /\ requests \in Nat
  /\ visits \in Nat

RecorderInit ==
  /\ recording = FALSE /\ armedFinal = FALSE /\ armedRead = FALSE
  /\ actions = <<>>
  /\ pages = <<0>>
  /\ active = 0
  /\ lastTab = 0
  /\ passes = [k \in Passes |-> 0]
  /\ doc = [p \in Pages |-> AllOff]
  /\ asked = [p \in Pages |-> p = 0]
  /\ fresh = {}
  /\ toPage = [p \in Pages |-> <<>>]
  /\ fromPage = [p \in Pages |-> <<>>]
  /\ skipped = {}
  /\ requests = 0
  /\ visits = 0

IsOpen(p) == \E i \in DOMAIN pages : pages[i] = p

HasFinal == \E i \in DOMAIN actions : actions[i].isFinal

Current == [recording |-> recording, armedFinal |-> armedFinal, armedRead |-> armedRead]
=============================================================================
