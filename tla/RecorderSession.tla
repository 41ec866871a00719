--------------------------- MODULE RecorderSession ---------------------------
(***************************************************************************)
(* The recording half of BrowserSession                                    *)
(* (apps/worker/src/session/session.ts): the pages it follows, the actions *)
(* they report, and the passes that bring the configuration to them.       *)
(***************************************************************************)
EXTENDS RecorderPage, SequencesExt

(***************************************************************************)
(* Bringing the configuration to the pages                                 *)
(***************************************************************************)

(* applyConfigToPage(): the configuration is read when the page is reached. *)
Send(wire, p, config, k) ==
  [wire EXCEPT ![p] = Append(@, [config |-> config, pass |-> k])]

(* applyConfigToAllPages() starting: the first page is sent to at once. *)
StartPass(config) ==
  \E k \in Passes :
    /\ passes[k] = 0
    /\ IF pages = <<>>
       THEN UNCHANGED wires
       ELSE /\ passes' = [passes EXCEPT ![k] = 1]
            /\ toPage' = Send(toPage, pages[1], config, k)
            /\ skipped' = skipped \ {pages[1]}

(* The loops of the passes in K going on to their next index of `open`, the *)
(* list of pages as it is by then; `wire` is what is under way without them.*)
Advance(K, open, wire) ==
  LET goOn     == {k \in K : passes[k] < Len(open)}
      next(k)  == open[passes[k] + 1]
      sends(p) == SetToSeq({[config |-> Current, pass |-> k] : k \in {j \in goOn : next(j) = p}})
  IN /\ passes' = [k \in Passes |-> IF k \notin K THEN passes[k]
                                    ELSE IF k \in goOn THEN passes[k] + 1 ELSE 0]
     /\ toPage' = [p \in Pages |-> wire[p] \o sends(p)]

(* A configuration reaches its page; the pass that awaited it goes on. *)
DeliverConfig(p) ==
  /\ toPage[p] # <<>>
  /\ Apply(p, Head(toPage[p]).config)
  /\ Advance({Head(toPage[p]).pass} \ {NoPass}, pages, [toPage EXCEPT ![p] = Tail(@)])
  /\ skipped' = skipped \ {q \in Pages : Len(toPage'[q]) > Len(toPage[q])}
  /\ UNCHANGED <<sessionSide, asked, fresh, fromPage, requests, visits>>

(* The passes that await an evaluation in the document of p. *)
Awaiting(p) == {toPage[p][i].pass : i \in DOMAIN toPage[p]} \ {NoPass}

(* The configuration a page gets once its document has been read: the last  *)
(* thing trackPage() and navigate() do.                                     *)
ConfigureRead(p) ==
  /\ p \in fresh
  /\ asked[p]
  /\ fresh' = fresh \ {p}
  /\ toPage' = Send(toPage, p, Current, NoPass)
  /\ UNCHANGED <<sessionSide, passes, skipped, pageSide>>

(***************************************************************************)
(* What the pages report                                                   *)
(***************************************************************************)

(* pushAction() of an action that no arm awaits. *)
Record(kind) == actions' = Append(actions, [kind |-> kind, isFinal |-> FALSE])

(* Mutant: the closing action disarms, and the recording goes on. *)
PushReportedStaysOpen(call) ==
  /\ actions' = Append(actions, call)
  /\ UNCHANGED <<recording, armedRead>>
  /\ IF call.isFinal
     THEN armedFinal' = FALSE /\ StartPass([Current EXCEPT !.armedFinal = FALSE])
     ELSE UNCHANGED <<armedFinal, wires>>

(* pushAction() of an action a page reported.  A read answers the armed     *)
(* read; a closing action disarms and stops the recording.                  *)
PushReported(call) ==
  /\ actions' = Append(actions, call)
  /\ \/ /\ call.isFinal
        /\ recording' = FALSE
        /\ armedFinal' = FALSE
        /\ UNCHANGED armedRead
        /\ StartPass([Current EXCEPT !.recording = FALSE, !.armedFinal = FALSE])
     \/ /\ call.kind = "read"
        /\ armedRead
        /\ armedRead' = FALSE
        /\ UNCHANGED <<recording, armedFinal>>
        /\ StartPass([Current EXCEPT !.armedRead = FALSE])
     \/ /\ ~call.isFinal
        /\ ~(call.kind = "read" /\ armedRead)
        /\ UNCHANGED <<recording, armedFinal, armedRead, wires>>

(* handleEmittedAction(): what arrives after the recording stopped is lost. *)
HandleEmitted(p) ==
  /\ fromPage[p] # <<>>
  /\ Head(fromPage[p]).kind # "config"
  /\ fromPage' = [fromPage EXCEPT ![p] = Tail(@)]
  /\ \/ /\ recording
        /\ Len(actions) < MaxActions
        /\ PushReported(Head(fromPage[p]))
     \/ /\ ~recording
        /\ UNCHANGED <<recording, armedFinal, armedRead, actions, wires>>
  /\ UNCHANGED <<pages, active, lastTab, doc, asked, fresh, requests, visits>>

(* The __recorderConfig binding answers with the configuration of now. *)
AnswerConfig(p) ==
  /\ fromPage[p] # <<>>
  /\ Head(fromPage[p]).kind = "config"
  /\ fromPage' = [fromPage EXCEPT ![p] = Tail(@)]
  /\ toPage' = Send(toPage, p, Current, NoPass)
  /\ UNCHANGED <<sessionSide, passes, skipped, doc, asked, fresh, requests, visits>>

(***************************************************************************)
(* The pages' own events                                                   *)
(***************************************************************************)

(* The "framenavigated" listener.  The new document has a script of its     *)
(* own, and what was being evaluated in the old one is given up; the        *)
(* navigation is an action when the user asked for it.                      *)
Navigated(p, byUser) ==
  /\ IsOpen(p)
  /\ visits < MaxVisits
  /\ visits' = visits + 1
  /\ doc' = [doc EXCEPT ![p] = AllOff]
  /\ asked' = [asked EXCEPT ![p] = FALSE]
  /\ Advance(Awaiting(p), pages, [toPage EXCEPT ![p] = <<>>])
  /\ skipped' = skipped \ {q \in Pages : Len(toPage'[q]) > Len(toPage[q])}
  /\ IF recording /\ byUser
     THEN Len(actions) < MaxActions /\ Record("other")
     ELSE UNCHANGED actions
  /\ UNCHANGED <<recording, armedFinal, armedRead, pages, active, lastTab, fromPage, requests>>

(* The site, or a link, takes the page elsewhere. *)
SiteNavigates(p) == Navigated(p, FALSE) /\ UNCHANGED fresh

(* Mutant: the tab is numbered once more when it is made the active one. *)
TrackPageNumberedTwice ==
  /\ lastTab < MaxTabs
  /\ visits < MaxVisits
  /\ visits' = visits + 1
  /\ lastTab' = lastTab + 1
  /\ pages' = Append(pages, lastTab')
  /\ active' = lastTab' + 1
  /\ fresh' = fresh \cup {lastTab'}
  /\ UNCHANGED <<recording, armedFinal, armedRead, actions, wires, doc, asked, fromPage, requests>>

(* trackPage(): the page is numbered, listed and made the active one. *)
TrackPage ==
  /\ lastTab < MaxTabs
  /\ visits < MaxVisits
  /\ visits' = visits + 1
  /\ lastTab' = lastTab + 1
  /\ pages' = Append(pages, lastTab')
  /\ active' = lastTab'
  /\ fresh' = fresh \cup {lastTab'}
  /\ IF recording
     THEN Len(actions) < MaxActions /\ Record("other")
     ELSE UNCHANGED actions
  /\ UNCHANGED <<recording, armedFinal, armedRead, wires, doc, asked, fromPage, requests>>

(* The "download" listener: the last action, if it is a click, becomes the  *)
(* download, whichever page it was on and whenever it was.                  *)
Download(p) ==
  /\ IsOpen(p)
  /\ recording
  /\ \/ /\ actions # <<>>
        /\ actions[Len(actions)].kind = "click"
        /\ actions' = [actions EXCEPT ![Len(actions)].kind = "download"]
     \/ /\ actions # <<>> => actions[Len(actions)].kind # "click"
        /\ Len(actions) < MaxActions
        /\ Record("download")
  /\ UNCHANGED <<recording, armedFinal, armedRead, pages, active, lastTab, fresh, wires,
                 pageSide>>

(* The "close" listener.  The list is spliced while the passes are walking  *)
(* it: one that has reached the closed page, or a later one, goes past the  *)
(* page that takes its next index.                                          *)
Close(p) ==
  /\ IsOpen(p)
  /\ LET i    == CHOOSE j \in DOMAIN pages : pages[j] = p
         left == [j \in 1..(Len(pages) - 1) |-> pages[IF j < i THEN j ELSE j + 1]]
     IN /\ pages' = left
        /\ active' = IF active # p THEN active
                     ELSE IF left = <<>> THEN 0 ELSE left[Len(left)]
        /\ Advance(Awaiting(p), left, [toPage EXCEPT ![p] = <<>>])
        /\ skipped' = (skipped \cup {pages[passes[k] + 1] :
                          k \in {j \in Passes : i <= passes[j] /\ passes[j] < Len(pages)}})
                      \ ({p} \cup {q \in Pages : Len(toPage'[q]) > Len(toPage[q])})
  /\ fresh' = fresh \ {p}
  /\ fromPage' = [fromPage EXCEPT ![p] = <<>>]
  /\ doc' = [doc EXCEPT ![p] = AllOff]
  /\ asked' = [asked EXCEPT ![p] = FALSE]
  /\ UNCHANGED <<recording, armedFinal, armedRead, actions, lastTab, requests, visits>>
=============================================================================
