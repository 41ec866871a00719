----------------------------- MODULE EditorPage -----------------------------
\* The workflow page: the poll that brings the recording in, the list the user
\* edits at any time, and the buttons.
EXTENDS EditorServer

Saving == \E r \in Requests : op[r].kind \in {"save", "run"}
Scheduling == \E r \in Requests : op[r].kind = "schedule"

\* Clear empties the list, a save writes it and takes what comes back.
Replaces(kind) == kind \in {"save", "run", "schedule", "clear"}

\* pullRecording, once the recording has arrived. Only an answer that brought
\* something marks the list unsaved.
pullRecording(answer) ==
    LET merged == mergeRecording(answer.steps)
    IN /\ lastPulled' = ById(answer.steps)
       /\ steps' = merged
       /\ dirty' = (dirty \/ merged # steps)
       /\ applied' = IF answer.stamp > applied THEN answer.stamp ELSE applied
       /\ crossed' = (crossed \/ answer.stamp < applied)
       /\ blurred' = (blurred \/ (Scheduling /\ merged # steps))
       /\ UNCHANGED <<removed, own, overlapped>>

\* setSession(). When another session takes the place of one that is held, the
\* effect that lets go of the old one stops the timer, whosever it is.
Hold(id) ==
    /\ held' = id
    /\ timer' = IF held \in {0, id} THEN timer ELSE 0

Merge(id) == IF held = 0 THEN UNCHANGED holding ELSE Hold(id)

forgetSession == held' = 0 /\ timer' = 0 /\ wasRecording' = FALSE

Elsewhere == UNCHANGED <<user, made, opened, worker, op, server>>
NoPull == UNCHANGED <<editor, seen>>

\* The timer fires whether or not the ticks before it have ended.
PollAsk(p) ==
    /\ timer # 0 /\ poll[p] = NoPoll
    /\ poll' = [poll EXCEPT ![p] = [NoPoll EXCEPT !.at = "told", !.of = timer,
                    !.alive = (session = timer), !.on = (session = timer /\ recording)]]
    /\ UNCHANGED <<holding, wasRecording>> /\ NoPull /\ Elsewhere

PollEnds(p) == poll' = [poll EXCEPT ![p] = NoPoll]

\* GET /sessions/:id has answered, and what it says, its session's id included,
\* is put over the session held. The recording is asked for while it runs and
\* once more after it has stopped; 404 when the session has gone meanwhile.
PollTold(p) ==
    LET pulls == poll[p].on \/ wasRecording
    IN /\ poll[p].at = "told"
       /\ \/ /\ ~poll[p].alive \/ (pulls /\ session # poll[p].of)
             /\ forgetSession /\ PollEnds(p)
          \/ /\ poll[p].alive /\ pulls /\ session = poll[p].of
             /\ poll' = [poll EXCEPT ![p].at = "pulled",
                                     ![p].answer = [steps |-> rec, stamp |-> stamp]]
             /\ Merge(poll[p].of) /\ UNCHANGED wasRecording
          \/ /\ poll[p].alive /\ ~pulls
             /\ wasRecording' = poll[p].on /\ PollEnds(p)
             /\ Merge(poll[p].of)
       /\ NoPull /\ Elsewhere

PollApply(p) ==
    /\ poll[p].at = "pulled"
    /\ pullRecording(poll[p].answer)
    /\ wasRecording' = poll[p].on /\ PollEnds(p)
    /\ UNCHANGED holding /\ Elsewhere

-----------------------------------------------------------------------------
\* The next definition without remembering.
onChangeForgetful(next, i, did) ==
    /\ edits < MaxEdits /\ edits' = edits + 1
    /\ steps' = next /\ dirty' = TRUE
    /\ own' = [own EXCEPT ![i] = IF Saving \/ i \in removed THEN "none" ELSE did]
    /\ blurred' = (blurred \/ Scheduling)
    /\ UNCHANGED <<clicks, opened, worker, holding, lastPulled, removed, wasRecording, poll, op,
                   server, applied, crossed, overlapped>>

\* onChange: what the editor removed is remembered, or the next poll would hand
\* it straight back. `did` is what the user did to step `i`; done under a save
\* that will replace the list, it may be lost, and so may what is done to a step
\* that was deleted under one and came back with it.
onChange(next, i, did) ==
    /\ edits < MaxEdits /\ edits' = edits + 1
    /\ removed' = removed \cup (IdsOf(steps) \ IdsOf(next))
    /\ steps' = next /\ dirty' = TRUE
    /\ own' = [own EXCEPT ![i] = IF Saving \/ i \in removed THEN "none" ELSE did]
    /\ blurred' = (blurred \/ Scheduling)
    /\ UNCHANGED <<clicks, opened, worker, holding, lastPulled, wasRecording, poll, op, server,
                   applied, crossed, overlapped>>

update == \E k \in DOMAIN steps :
    /\ steps[k].says # Mine
    /\ onChange([steps EXCEPT ![k].says = Mine], steps[k].id, "mine")
    /\ UNCHANGED made

remove == \E k \in DOMAIN steps :
    onChange(RemoveAt(steps, k), steps[k].id, "gone") /\ UNCHANGED made

move == \E k, to \in DOMAIN steps :
    /\ to \in {k - 1, k + 1} /\ canMove(steps, k, to)
    /\ onChange([steps EXCEPT ![k] = steps[to], ![to] = steps[k]],
                steps[k].id, own[steps[k].id])
    /\ UNCHANGED made

insert ==
    /\ made < MaxSteps /\ made' = made + 1
    /\ onChange(InsertAt(steps, insertionIndex(steps), Typed(made + 1)), made + 1, "mine")

-----------------------------------------------------------------------------
\* The buttons are disabled while one is `busy`, but whichever request ends first
\* clears that (run(), page.tsx:206), and the Enter of a new name (671) or of a
\* text (906) and the cancelling of a schedule (1170) are disabled by nothing:
\* another button may be pressed at any moment of a request.
Send(r, kind, at, payload) ==
    /\ clicks < MaxClicks /\ clicks' = clicks + 1
    /\ op[r] = NoOp
    /\ op' = [op EXCEPT ![r] = [NoOp EXCEPT !.kind = kind, !.at = at, !.of = held,
                                            !.payload = payload]]
    /\ overlapped' = (overlapped \/ (Replaces(kind) /\ \E q \in Requests : Replaces(op[q].kind)))
    /\ UNCHANGED <<edits, made, opened, worker, holding, editor, wasRecording, poll, server,
                   own, applied, crossed, blurred>>

startBrowser(r) == held = 0 /\ Send(r, "open", "sent", <<>>)
\* Arming, highlighting and the tooltip are to the page as recording on is.
setRecording(r) == held # 0 /\ (\E kind \in {"record", "stop"} : Send(r, kind, "sent", <<>>))
clearRecording(r) == held # 0 /\ Send(r, "clear", "sent", <<>>)
closeSession(r) == held # 0 /\ Send(r, "close", "sent", <<>>)

\* persistSteps: the secrets first, when a session is held, and then the steps.
First == IF held # 0 THEN "creds" ELSE "put"
save(r) == Send(r, "save", First, steps)
runOrRepeat(r) == dirty /\ Send(r, "run", First, steps)  \* execute, scheduleRecurring
schedule(r) == dirty /\ Send(r, "schedule", "put", steps)

Ends(r) == op' = [op EXCEPT ![r] = NoOp]
Reply == UNCHANGED <<user, made, opened, worker, poll, server>>

\* The answers. Opening starts the timer; Stop goes on to pull; Clear forgets
\* what was pulled and removed and empties the list. All but Close put back the
\* session they were asked of, also when it was let go of meanwhile.
Opened(r) ==
    /\ op[r].kind = "open" /\ op[r].at = "served" /\ Ends(r)
    /\ held' = op[r].of
    /\ timer' = IF held = 0 THEN op[r].of ELSE 0
    /\ UNCHANGED <<editor, wasRecording, seen>> /\ Reply

Recording(r) ==
    /\ op[r].at = "served" /\ op[r].kind \in {"record", "stop"}
    /\ IF op[r].kind = "stop" THEN op' = [op EXCEPT ![r].at = "pull"] ELSE Ends(r)
    /\ Hold(op[r].of)
    /\ UNCHANGED <<editor, wasRecording, seen>> /\ Reply

Stopped(r) ==
    /\ op[r].at = "pulled" /\ Ends(r)
    /\ pullRecording(op[r].answer)
    /\ wasRecording' = FALSE
    /\ UNCHANGED holding /\ Reply

Cleared(r) ==
    /\ op[r].kind = "clear" /\ op[r].at = "served" /\ Ends(r)
    /\ lastPulled' = <<>> /\ removed' = {} /\ steps' = <<>> /\ dirty' = TRUE
    /\ own' = [i \in StepIds |-> "none"]
    /\ Hold(op[r].of)
    /\ UNCHANGED <<wasRecording, applied, crossed, blurred, overlapped>> /\ Reply

Closed(r) ==
    /\ op[r].kind = "close" /\ op[r].at = "served" /\ Ends(r)
    /\ held' = 0 /\ timer' = 0
    /\ UNCHANGED <<editor, wasRecording, seen>> /\ Reply

\* The next definition with the list left as it is, as schedule() leaves it.
StepsSavedKeepsList(r) ==
    /\ op[r].at = "saved"
    /\ IF op[r].kind = "save" THEN op' = [op EXCEPT ![r].at = "load"] ELSE Ends(r)
    /\ dirty' = FALSE
    /\ UNCHANGED <<holding, steps, lastPulled, removed, wasRecording, seen>> /\ Reply

\* The rows come back and replace the list; save() then reads them once more.
\* schedule() keeps the list it has and only clears the mark.
StepsSaved(r) ==
    /\ op[r].at = "saved"
    /\ IF op[r].kind = "save" THEN op' = [op EXCEPT ![r].at = "load"] ELSE Ends(r)
    /\ steps' = IF op[r].kind = "schedule" THEN steps ELSE op[r].answer.steps
    /\ dirty' = FALSE
    /\ UNCHANGED <<holding, lastPulled, removed, wasRecording, seen>> /\ Reply

Loaded(r) ==
    /\ op[r].at = "loaded" /\ Ends(r)
    /\ steps' = op[r].answer.steps /\ dirty' = FALSE
    /\ UNCHANGED <<holding, lastPulled, removed, wasRecording, seen>> /\ Reply

Press(r) ==
    \/ startBrowser(r) \/ setRecording(r) \/ clearRecording(r) \/ closeSession(r)
    \/ save(r) \/ runOrRepeat(r) \/ schedule(r)

Reacts(r) ==
    \/ Opened(r) \/ Recording(r) \/ Stopped(r) \/ Cleared(r) \/ Closed(r)
    \/ StepsSaved(r) \/ Loaded(r)

PageNext ==
    \/ \E p \in Polls : PollAsk(p) \/ PollTold(p) \/ PollApply(p)
    \/ update \/ remove \/ move \/ insert
    \/ \E r \in Requests : Press(r) \/ Reacts(r)
=============================================================================
