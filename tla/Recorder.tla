------------------------------ MODULE Recorder ------------------------------
(***************************************************************************)
(* A recording session: the user at the API and in the pages, the pages    *)
(* themselves, and the worker between them.                                *)
(***************************************************************************)
EXTENDS RecorderControl

Asked == \E u \in Users : ApiToggles(u) \/ ApiStream(u) \/ ApiPages(u) \/ ApiInteract(u)

Reported == \E p \in Pages : HandleEmitted(p) \/ AnswerConfig(p)

Configured == \E p \in Pages : DeliverConfig(p) \/ ConfigureRead(p)

PageEvents ==
  \/ \E p \in Pages : SiteNavigates(p) \/ Download(p) \/ Close(p)
  \/ TrackPage

RecorderNext == Asked \/ PageNext \/ Reported \/ Configured \/ PageEvents

RecorderSpec == RecorderInit /\ [][RecorderNext]_recorderVars

-----------------------------------------------------------------------------

(* session.ts "nothing may follow it": once a closing action is recorded    *)
(* the recording is off and stays off, and the only thing that can still    *)
(* be recorded is the wait asked for by hand, which addManualWait() does    *)
(* not refuse.  Clicks of two pages may be under way together, and the arm  *)
(* may be taken off and put back meanwhile.                                 *)
FinalClosesRecording ==
  \A i \in DOMAIN actions :
    actions[i].isFinal => /\ ~recording
                          /\ \A j \in DOMAIN actions : j > i => actions[j].kind = "wait"

(* Is anything under way that will still change the script's copy on p?     *)
Unsettled(p) ==
  \/ ~asked[p]
  \/ toPage[p] # <<>>
  \/ fromPage[p] # <<>>
  \/ p \in skipped
  \/ \E k \in Passes : /\ passes[k] # 0
                       /\ \E i \in DOMAIN pages : pages[i] = p /\ i > passes[k]

(* An open page to which nothing is under way agrees with the worker:       *)
(* it is not left recording, nor armed to swallow a click nobody awaits,    *)
(* and while the recording runs it is armed exactly when the worker is.     *)
(* Excepted are the pages a pass went past because another page closed      *)
(* under it (`skipped`), which really are left behind.                      *)
SettledPagesAgree ==
  \A i \in DOMAIN pages :
    LET p == pages[i]
    IN ~Unsettled(p) =>
         /\ doc[p].recording = recording
         /\ doc[p].armedFinal => armedFinal
         /\ doc[p].armedRead => armedRead
         /\ recording => doc[p] = Current
=============================================================================
