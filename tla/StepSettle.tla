----------------------------- MODULE StepSettle -----------------------------
(***************************************************************************)
(* The wait for the effect of the last step: settleAfterLastStep()         *)
(* (apps/worker/src/runner/settle.ts) over the watcher of quiet.ts.  A     *)
(* tick is a unit of the two times of settle.ts; what a page changes       *)
(* within one tick is one change.                                          *)
(***************************************************************************)
EXTENDS StepExecution

Off == [on |-> FALSE, quiet |-> 0, timer |-> 0]

(* observeQuiet() starting its timer for q ticks of silence. *)
Observing(q) == [on |-> TRUE, quiet |-> q, timer |-> q]

(* A timer that has fired does not fire again until the next change. *)
Fired == Timeout + 1

Settling == Running /\ pc \in {"load", "idle", "quiet"}

Rest == UNCHANGED <<browser, control, moves, workflow, at, found, right>>

(* settleAfterLastStep() waits for "load", then for the network to be idle; *)
(* each wait ends, by its event or by its time.                             *)
Loaded ==
  /\ Settling /\ pc = "load"
  /\ \/ now < Timeout /\ pc' = "idle" /\ result' = result
     \/ now = Timeout /\ pc' = "over" /\ result' = "timeout"
  /\ UNCHANGED settling /\ Rest

(* waitUntilQuiet() says how much silence it wants and installs. *)
Idle ==
  /\ Settling /\ pc = "idle"
  /\ \/ /\ now < Timeout /\ pc' = "quiet" /\ result' = result
        /\ wanted' = Quiet
        /\ installs' = installs \cup {Quiet}
     \/ /\ now = Timeout /\ pc' = "over" /\ result' = "timeout"
        /\ UNCHANGED <<wanted, installs>>
  /\ UNCHANGED <<now, still, observer, early>> /\ Rest

(* observeQuiet() reaching the document: one observer, the first to arrive. *)
Installed(q) ==
  /\ Settling /\ q \in installs
  /\ installs' = installs \ {q}
  /\ IF observer.on THEN UNCHANGED <<observer, early>>
     ELSE observer' = Observing(q) /\ early' = (q = 0)
  /\ UNCHANGED <<now, still, wanted, progress>> /\ Rest

(* Mutant: the change that restarts the timer is not seen. *)
ChangesUnseen ==
  /\ Settling /\ still > 0
  /\ still' = 0
  /\ UNCHANGED <<now, wanted, installs, observer, early, progress>> /\ Rest

(* The page changes: the timer starts again. *)
Changes ==
  /\ Settling /\ still > 0
  /\ still' = 0
  /\ observer' = IF observer.on THEN Observing(observer.quiet) ELSE observer
  /\ UNCHANGED <<now, wanted, installs, early, progress>> /\ Rest

(* A navigation takes the observer and what was on its way with it, and     *)
(* onNavigated() installs anew, with the silence wanted by then: none,      *)
(* until waitUntilQuiet() has said how much.                                *)
NavigatesAway ==
  /\ Settling /\ moves < MaxMoves /\ moves' = moves + 1
  /\ still' = 0
  /\ observer' = Off /\ early' = FALSE
  /\ installs' = {wanted}
  /\ UNCHANGED <<now, wanted, browser, control, progress, found, right>>

(* The timer fires and the page announces; before waitUntilQuiet() nobody   *)
(* listens.                                                                 *)
Announces ==
  /\ Settling /\ observer.on /\ observer.timer = 0
  /\ observer' = [observer EXCEPT !.timer = Fired]
  /\ IF pc = "quiet" THEN pc' = "over" /\ result' = "settled" ELSE UNCHANGED <<pc, result>>
  /\ UNCHANGED <<now, still, wanted, installs, early>> /\ Rest

(* Mutant: the silence is waited for without a limit. *)
GivesUpNever == FALSE

(* The race against the time left, and a page that closes. *)
GivesUp ==
  /\ Settling /\ pc = "quiet" /\ now = Timeout
  /\ pc' = "over" /\ result' = "timeout"
  /\ UNCHANGED settling /\ Rest

PageGone ==
  /\ Settling /\ pc = "quiet" /\ moves < MaxMoves /\ moves' = moves + 1
  /\ pc' = "over" /\ result' = "timeout"
  /\ UNCHANGED <<settling, browser, control, workflow, at, found, right>>

(* Time passes; a timer that is due fires first. *)
Tick ==
  /\ Settling /\ now < Timeout
  /\ ~(observer.on /\ observer.timer = 0)
  /\ now' = now + 1
  /\ still' = IF still < Quiet THEN still + 1 ELSE still
  /\ observer' = IF observer.on /\ observer.timer # Fired
                 THEN [observer EXCEPT !.timer = @ - 1] ELSE observer
  /\ UNCHANGED <<wanted, installs, early, progress>> /\ Rest

(* The wait's own steps; the page may also close under it. *)
SettleAfterLastStep == Loaded \/ Idle \/ (\E q \in {0, Quiet} : Installed(q)) \/ Announces \/ GivesUp

PageWhileSettling == Changes \/ NavigatesAway \/ PageGone
=============================================================================
