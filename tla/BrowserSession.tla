---------------------------- MODULE BrowserSession ----------------------------
(***************************************************************************)
(* One BrowserSession (apps/worker/src/session/session.ts): start() and    *)
(* close(), which run side by side when somebody closes a session that has *)
(* not come up yet.  Each action is the code between two awaits.           *)
(***************************************************************************)
EXTENDS SessionState

(***************************************************************************)
(* close()                                                                 *)
(***************************************************************************)

(* The processes are listed when the context is gone; without a context that
   is at once. *)
BeginClose(s) ==
  /\ closing[s] = "no"
  /\ closing' = [closing EXCEPT ![s] = IF browser[s] THEN "context" ELSE "kill"]
  /\ doomed' = [doomed EXCEPT ![s] = procs[s]]

(* The slot given back before the processes on it are gone. *)
ContextClosedReleases(s) ==
  /\ closing[s] = "context"
  /\ browser' = [browser EXCEPT ![s] = FALSE]
  /\ closing' = [closing EXCEPT ![s] = "kill"]
  /\ doomed' = [doomed EXCEPT ![s] = procs[s]]
  /\ GiveBack(s)
  /\ UNCHANGED <<startVars, procs, interrupted>>

ContextClosed(s) ==
  /\ closing[s] = "context"
  /\ browser' = [browser EXCEPT ![s] = FALSE]
  /\ closing' = [closing EXCEPT ![s] = "kill"]
  /\ doomed' = [doomed EXCEPT ![s] = procs[s]]
  /\ UNCHANGED <<managerVars, startVars, procs, interrupted>>

(* Only the display is killed. *)
KilledDisplay(s) ==
  /\ closing[s] = "kill"
  /\ procs' = [procs EXCEPT ![s] = @ \ {"Xvfb"}]
  /\ closing' = [closing EXCEPT ![s] = "directory"]
  /\ doomed' = [doomed EXCEPT ![s] = {}]
  /\ UNCHANGED <<managerVars, startVars, browser, interrupted>>

Killed(s) ==
  /\ closing[s] = "kill"
  /\ procs' = [procs EXCEPT ![s] = @ \ doomed[s]]
  /\ closing' = [closing EXCEPT ![s] = "directory"]
  /\ doomed' = [doomed EXCEPT ![s] = {}]
  /\ UNCHANGED <<managerVars, startVars, browser, interrupted>>

(* The throwaway directory is gone as well. *)
CloseEnds(s) ==
  /\ closing[s] = "directory"
  /\ closing' = [closing EXCEPT ![s] = "done"]
  /\ GiveBack(s)
  /\ UNCHANGED <<startVars, procs, browser, doomed, interrupted>>

(***************************************************************************)
(* start()                                                                 *)
(***************************************************************************)

(* sessions.set and the first lines of start(): no await in between. *)
Opens(s) ==
  /\ listed' = listed \cup {s}
  /\ stage' = [stage EXCEPT ![s] = "display"]
  /\ procs' = [procs EXCEPT ![s] = {"Xvfb"}]

Advance(s, from, to) ==
  /\ stage[s] = from
  /\ stage' = [stage EXCEPT ![s] = to]

(* waitForFile: the socket is there even when the server is already gone. *)
DisplayUp(s) ==
  /\ Advance(s, "display", "launching")
  /\ procs' = [procs EXCEPT ![s] = @ \cup {"vnc"}]
  /\ UNCHANGED <<managerVars, slot, keeps, browser, closeVars, interrupted>>

(* The ports answer, and a browser comes up on whatever display has that
   number by now. *)
BrowserUp(s) ==
  /\ Advance(s, "launching", "navigating")
  /\ \E q \in Sessions : slot[q] = slot[s] /\ "Xvfb" \in procs[q]
  /\ browser' = [browser EXCEPT ![s] = TRUE]
  /\ UNCHANGED <<managerVars, slot, keeps, procs, closeVars, interrupted>>

(* The start page is there: `ready`, whoever has closed the session by now. *)
Ready(s) ==
  /\ Advance(s, "navigating", "ready")
  /\ browser[s]
  /\ UNCHANGED <<managerVars, slot, keeps, procs, browser, closeVars,
                 interrupted>>

(* The catch of start() without the close(). *)
StageFailsUnclosed(s) ==
  /\ stage[s] \in Starting
  /\ stage' = [stage EXCEPT ![s] = "failed"]
  /\ UNCHANGED <<managerVars, slot, keeps, procs, browser, closeVars,
                 interrupted>>

(* The catch of start(): close(), which is a no-op when somebody else is at it.
   Then create() gives everything back without waiting for the other. *)
StageFails(s) ==
  /\ stage[s] \in Starting
  /\ stage' = [stage EXCEPT ![s] = "failed"]
  /\ \/ BeginClose(s) /\ UNCHANGED managerVars
     \/ closing[s] # "no" /\ GiveBack(s) /\ UNCHANGED closeVars
  /\ UNCHANGED <<slot, keeps, procs, browser, interrupted>>

(***************************************************************************)
(* Who closes a session.                                                   *)
(***************************************************************************)

Interrupts(s) ==
  IF stage[s] \in Starting
  THEN /\ Cardinality(interrupted) < MaxInterruptions
       /\ interrupted' = interrupted \cup {s}
  ELSE interrupted' = interrupted

(* The user, a cancelled run, the end of a run, the reaper. *)
CloseRequested(s) ==
  /\ s \in listed
  /\ BeginClose(s)
  /\ Interrupts(s)
  /\ UNCHANGED <<managerVars, startVars, procs, browser>>

(* armTimeout: the maximum lifetime, counted once the session is ready. *)
LifetimeOver(s) ==
  /\ stage[s] = "ready"
  /\ BeginClose(s)
  /\ UNCHANGED <<managerVars, startVars, procs, browser, interrupted>>

(* Chromium dies, and the session closes itself once it listens to its
   context; before that the start of the session fails. *)
BrowserDies(s) ==
  /\ browser[s]
  /\ browser' = [browser EXCEPT ![s] = FALSE]
  /\ \/ /\ closing[s] = "no"
        /\ closing' = [closing EXCEPT ![s] = "kill"]
        /\ doomed' = [doomed EXCEPT ![s] = procs[s]]
        /\ Interrupts(s)
     \/ /\ closing[s] # "no" \/ stage[s] = "navigating"
        /\ UNCHANGED <<closeVars, interrupted>>
  /\ UNCHANGED <<managerVars, startVars, procs>>

StartsOn(s) ==
  DisplayUp(s) \/ BrowserUp(s) \/ Ready(s) \/ StageFails(s)

ClosesOn(s) == ContextClosed(s) \/ Killed(s) \/ CloseEnds(s)
=============================================================================
