--------------------------- MODULE RecorderControl ---------------------------
(***************************************************************************)
(* What the user can ask of a recording: the operations of BrowserSession  *)
(* (apps/worker/src/session/session.ts) behind the routes of the worker's  *)
(* control server (control-server.ts) and of the API                       *)
(* (apps/api/src/routes/sessions.ts).  A refused request changes nothing   *)
(* and has no action of its own.                                           *)
(***************************************************************************)
EXTENDS RecorderSession

CONSTANTS
  Users,
  Recorder   \* the user the session belongs to

ASSUME RecorderOfTheSession == Recorder \in Users

(***************************************************************************)
(* BrowserSession                                                          *)
(***************************************************************************)

SetArmedFinal(enabled) ==
  /\ enabled => recording /\ ~armedRead /\ ~HasFinal
  /\ armedFinal' = enabled
  /\ StartPass([Current EXCEPT !.armedFinal = enabled])
  /\ UNCHANGED <<recording, armedRead, actions>>

SetArmedRead(enabled) ==
  /\ enabled => recording /\ ~armedFinal
  /\ armedRead' = enabled
  /\ StartPass([Current EXCEPT !.armedRead = enabled])
  /\ UNCHANGED <<recording, armedFinal, actions>>

(* Turned on for the first time, it records where the user starts from.     *)
(* Turned off, it leaves the arms as they are.                              *)
SetRecording(enabled) ==
  /\ enabled => ~HasFinal
  /\ recording' = enabled
  /\ IF enabled /\ ~recording /\ actions = <<>> /\ pages # <<>>
     THEN MaxActions > 0 /\ Record("other")
     ELSE UNCHANGED actions
  /\ StartPass([Current EXCEPT !.recording = enabled])
  /\ UNCHANGED <<armedFinal, armedRead>>

(* setHighlight() and setTooltip(): nothing but a pass. *)
SetOverlay ==
  /\ StartPass(Current)
  /\ UNCHANGED <<recording, armedFinal, armedRead, actions>>

(* addManualWait(): recorded whether or not a recording is running. *)
AddManualWait ==
  /\ Len(actions) < MaxActions
  /\ Record("wait")
  /\ UNCHANGED <<recording, armedFinal, armedRead, wires>>

(* Mutant: the pages are not told that the arms are gone. *)
ClearRecordingUntold ==
  /\ actions' = <<>>
  /\ armedFinal' = FALSE
  /\ armedRead' = FALSE
  /\ UNCHANGED <<recording, wires>>

(* clearRecording(): a recording that is running goes on. *)
ClearRecording ==
  /\ actions' = <<>>
  /\ armedFinal' = FALSE
  /\ armedRead' = FALSE
  /\ StartPass([Current EXCEPT !.armedFinal = FALSE, !.armedRead = FALSE])
  /\ UNCHANGED recording

(* interact(): an input of the browser's own, which the listeners cannot    *)
(* tell from the user's hand: a click or a check is a click, typing and     *)
(* selecting are the other events.                                          *)
Interact(p) == Click(p) \/ Input(p)

(***************************************************************************)
(* The control server                                                      *)
(***************************************************************************)

(* POST recording, arm-final, arm-read, tooltip and highlight. *)
ToggleRoutes ==
  \/ \E enabled \in BOOLEAN :
       SetRecording(enabled) \/ SetArmedFinal(enabled) \/ SetArmedRead(enabled)
  \/ SetOverlay

(* DELETE recording and POST wait. *)
StreamRoutes == ClearRecording \/ AddManualWait

(* POST navigate: the page goes where the user asked, and is configured     *)
(* once it is there.                                                        *)
NavigateRoute ==
  /\ IsOpen(active)
  /\ Navigated(active, TRUE)
  /\ fresh' = fresh \cup {active}

(* POST switch-page. *)
SwitchPageRoute(p) ==
  /\ IsOpen(p)
  /\ active' = p
  /\ UNCHANGED <<recording, armedFinal, armedRead, actions, pages, lastTab, wires,
                 fresh, pageSide>>

(* POST interact. *)
InteractRoute == \E p \in Pages : Interact(p)

(***************************************************************************)
(* The API                                                                 *)
(***************************************************************************)

(* loadOwnedSession(): another user's session is reported as missing. *)
LoadOwnedSession(u) == u = Recorder

Requested ==
  /\ requests < MaxAsked
  /\ requests' = requests + 1
  /\ UNCHANGED <<pages, active, lastTab, fresh, doc, asked, fromPage, visits>>

(* POST recording, arm-final, arm-read, highlight and tooltip. *)
ApiToggles(u) ==
  LoadOwnedSession(u) /\ ToggleRoutes /\ Requested

(* DELETE recording, POST wait. *)
ApiStream(u) ==
  LoadOwnedSession(u) /\ StreamRoutes /\ Requested

(* POST switch-page, POST navigate. *)
ApiPages(u) ==
  LoadOwnedSession(u) /\ (NavigateRoute \/ \E p \in Pages : SwitchPageRoute(p))

(* POST interact. *)
ApiInteract(u) == LoadOwnedSession(u) /\ InteractRoute
=============================================================================
