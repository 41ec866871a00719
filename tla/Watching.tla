------------------------------ MODULE Watching ------------------------------
\* The page of one execution: a snapshot asked for when it opens, the stream,
\* and one more reading when the stream says it is over.
EXTENDS LogStream

VARIABLES
    snapshot,   \* the first GET: "asked", "answered" with what it read, "done", "failed"
    reload,     \* the GET after `end`: "no", "asked", "answered", "done", "failed"
    status,     \* what the page says of the run: "none", "live", "over"
    known,      \* ids the page has handled (`seen`)
    shown       \* the lines on the page, in order

page == <<snapshot, reload, status, known, shown>>
vars == <<run, stream, page>>

Reading(at) == [at |-> at, lines |-> 0, over |-> FALSE]
Answer == [at |-> "answered", lines |-> Len(log), over |-> over]
Says(isOver) == IF isOver THEN "over" ELSE "live"

Init ==
    /\ StreamInit
    /\ snapshot = Reading("asked") /\ reload = Reading("no")
    /\ status = "none" /\ known = {} /\ shown = <<>>

\* GET /executions/:id, for either reading.
SnapshotRead ==
    /\ snapshot.at = "asked" /\ snapshot' = Answer
    /\ UNCHANGED <<run, stream, reload, status, known, shown>>
ReloadRead ==
    /\ reload.at = "asked" /\ reload' = Answer
    /\ UNCHANGED <<run, stream, snapshot, status, known, shown>>

\* Either may fail, and neither is tried again.
SnapshotFails ==
    /\ snapshot.at = "asked" /\ snapshot' = Reading("failed")
    /\ UNCHANGED <<run, stream, reload, status, known, shown>>
ReloadFails ==
    /\ reload.at = "asked" /\ reload' = Reading("failed")
    /\ UNCHANGED <<run, stream, snapshot, status, known, shown>>

\* The snapshot replaces the lines on the page, those the stream brought first
\* included.
SnapshotShown ==
    /\ snapshot.at = "answered" /\ snapshot' = Reading("done")
    /\ status' = Says(snapshot.over)
    /\ known' = known \cup 1..snapshot.lines
    /\ shown' = [i \in 1..snapshot.lines |-> i]
    /\ UNCHANGED <<run, stream, reload>>

\* The reading at the end brings the status and not the lines.
ReloadShown ==
    /\ reload.at = "answered" /\ reload' = Reading("done")
    /\ status' = Says(reload.over)
    /\ UNCHANGED <<run, stream, snapshot, known, shown>>

Event(kind) == channel # <<>> /\ Head(channel)[1] = kind /\ channel' = Tail(channel)
Aside == UNCHANGED <<run, cursor, lastSeen, closed, broken, tick, sent>>

\* The next definition trusting the stream to send a line once.
LogEventTrusting ==
    /\ Event("log")
    /\ known' = known \cup {Head(channel)[2]}
    /\ shown' = Append(shown, Head(channel)[2])
    /\ UNCHANGED <<snapshot, reload, status>> /\ Aside

LogEvent ==
    /\ Event("log")
    /\ LET line == Head(channel)[2]
       IN IF line \in known THEN UNCHANGED <<known, shown>>
          ELSE known' = known \cup {line} /\ shown' = Append(shown, line)
    /\ UNCHANGED <<snapshot, reload, status>> /\ Aside

\* A status that comes before the snapshot is dropped.
StatusEvent ==
    /\ Event("status")
    /\ status' = IF status = "none" THEN "none" ELSE Says(Head(channel)[2])
    /\ UNCHANGED <<snapshot, reload, known, shown>> /\ Aside

EndEvent ==
    /\ Event("end") /\ reload' = Reading("asked")
    /\ UNCHANGED <<snapshot, status, known, shown>> /\ Aside

PageNext ==
    \/ SnapshotRead \/ SnapshotShown \/ SnapshotFails
    \/ ReloadRead \/ ReloadShown \/ ReloadFails
    \/ LogEvent \/ StatusEvent \/ EndEvent

Behind == UNCHANGED page    \* a step of the run or of the API
Next == (StreamNext /\ Behind) \/ PageNext

\* Timers fire, queries and requests are answered or fail, and the connection
\* delivers or drops. The run is not assumed to end.
Fairness ==
    /\ \A t \in Ticks : WF_vars(Tick(t) /\ Behind)
    /\ WF_vars(PageNext)

Spec == Init /\ [][Next]_vars /\ Fairness

-----------------------------------------------------------------------------
\* The stream leaves no gap: when a line was sent, so was every line of an
\* earlier millisecond, although lines share milliseconds, a query returns a
\* limited number of rows and a slow tick may end after a faster one
\* (executions.ts:281-310).
StreamHasNoGap ==
    \A i \in sent : \A j \in Lines : log[j] < log[i] => j \in sent

\* A line is on the page once, although slow ticks send lines again and the
\* snapshot holds lines the stream sends too (page.tsx:50, :88-90).
LinesShownOnce == \A j, k \in DOMAIN shown : shown[j] = shown[k] => j = k

\* A page that had its snapshot before the end of the stream reached it comes to
\* say that the run is over, and stays with it. A snapshot that arrives after the
\* end brings an older status back for good. Nothing is asked again: a stream that
\* breaks, by a query that failed (executions.ts:320-323) or by the connection, and
\* a last reading that fails after the status was dropped, leave the page as it is.
PageLearnsEnd ==
    (over /\ snapshot.at = "done" /\ reload.at = "no")
        ~> [](status = "over" \/ broken \/ reload.at = "failed")
=============================================================================
