----------------------------- MODULE LogStream -----------------------------
\* The live log of an execution: the run writes rows, the API polls them and
\* pushes what is new to the page as server-sent events.
EXTENDS Integers, Sequences, SequencesExt, FiniteSets

CONSTANTS
    MaxLines,   \* bound: lines the run writes
    MaxUnread,  \* bound: events on their way to the page
    Take,       \* rows one query returns, 200 in the code
    Ticks       \* ticks of the timer that may be under way together

ASSUME StreamAssumption == MaxLines \in Nat /\ MaxUnread \in Nat /\ Take \in Nat \ {0}

VARIABLES
    log,        \* the rows: log[i] is the millisecond line i was created in
    over,       \* the execution's status is terminal
    cursor,     \* millisecond of the newest row sent, 0 before the first
    lastSeen,   \* the rows of that millisecond
    closed,     \* the stream was ended
    broken,     \* it ended, or what it sent was lost, before the page had it all
    tick,       \* the ticks under way
    channel,    \* events written to the connection and not yet handled
    sent        \* lines ever written to the connection

run == <<log, over>>
stream == <<cursor, lastSeen, closed, broken, tick, channel, sent>>

Lines == DOMAIN log
Now == IF log = <<>> THEN 1 ELSE Last(log)
NoTick == [at |-> "idle", from |-> 0, rows |-> {}, over |-> FALSE]

StreamInit ==
    /\ log = <<>> /\ over = FALSE
    /\ cursor = 0 /\ lastSeen = {} /\ closed = FALSE /\ broken = FALSE
    /\ tick = [t \in Ticks |-> NoTick]
    /\ channel = <<>> /\ sent = {}

-----------------------------------------------------------------------------
\* writeLog. Lines of one millisecond are fewer than a query returns; milliseconds
\* are counted from the first line.
WriteLine ==
    /\ Len(log) < MaxLines
    /\ \E ms \in {Now, Now + 1} :
        /\ log = <<>> => ms = Now
        /\ Cardinality({i \in Lines : log[i] = ms}) < Take - 1
        /\ log' = Append(log, ms)
    /\ UNCHANGED <<over, stream>>

\* finish(), or a cancellation. Lines may follow it: the API writes its own after
\* the status, and a cancelled run goes on to the end of its step.
EndRun == ~over /\ over' = TRUE /\ UNCHANGED <<log, stream>>

-----------------------------------------------------------------------------
\* The timer fires every 500 ms whether or not the tick before has ended. The
\* query is built with the cursor as it stands.
TickStart(t) ==
    /\ ~closed /\ tick[t] = NoTick /\ Len(channel) < MaxUnread
    /\ tick' = [tick EXCEPT ![t] = [NoTick EXCEPT !.at = "query", !.from = cursor]]
    /\ UNCHANGED <<run, cursor, lastSeen, closed, broken, channel, sent>>

\* createdAt > cursor: a line of the cursor's own millisecond is never asked for.
AfterCursor(i, from) == log[i] > from
\* createdAt >= cursor
FromCursor(i, from) == log[i] >= from

\* The query: of the lines from the cursor on, the Take that came first.
FirstRows(from) ==
    {i \in Lines : /\ FromCursor(i, from)
                   /\ Cardinality({j \in 1..(i - 1) : FromCursor(j, from)}) < Take}

TickRead(t) ==
    /\ tick[t].at = "query"
    /\ tick' = [tick EXCEPT ![t].at = "rows", ![t].rows = FirstRows(tick[t].from)]
    /\ UNCHANGED <<run, cursor, lastSeen, closed, broken, channel, sent>>

\* The rows are sent, except those already sent for this millisecond, and the
\* cursor moves to the newest - back, when a slower tick ends after a faster one.
TickSend(t) ==
    /\ tick[t].at = "rows"
    /\ LET rows  == tick[t].rows
           fresh == rows \ lastSeen
           lines == SelectSeq([i \in Lines |-> i], LAMBDA i : i \in fresh)
       IN /\ channel' = IF closed THEN channel
                        ELSE channel \o [k \in DOMAIN lines |-> <<"log", lines[k]>>]
          /\ sent' = IF closed THEN sent ELSE sent \cup fresh
          /\ \/ rows = {} /\ UNCHANGED <<cursor, lastSeen>>
             \/ \E newest \in rows :
                  /\ \A i \in rows : i <= newest
                  /\ cursor' = log[newest]
                  /\ lastSeen' = {i \in rows : log[i] = log[newest]}
    /\ tick' = [tick EXCEPT ![t].at = "asking", ![t].rows = {}]
    /\ UNCHANGED <<run, closed, broken>>

TickStatus(t) ==
    /\ tick[t].at = "asking"
    /\ tick' = [tick EXCEPT ![t].at = "status", ![t].over = over]
    /\ UNCHANGED <<run, cursor, lastSeen, closed, broken, channel, sent>>

\* The next definition with the stream closed before it is told why.
TickEndCloseFirst(t) ==
    /\ tick[t].at = "status"
    /\ channel' = IF closed \/ tick[t].over THEN channel
                  ELSE Append(channel, <<"status", FALSE>>)
    /\ closed' = (closed \/ tick[t].over)
    /\ tick' = [tick EXCEPT ![t] = NoTick]
    /\ UNCHANGED <<run, cursor, lastSeen, broken, sent>>

\* The status is sent, and once it is terminal the stream ends.
TickEnd(t) ==
    /\ tick[t].at = "status"
    /\ channel' = IF closed THEN channel
                  ELSE channel \o <<<<"status", tick[t].over>>>>
                               \o IF tick[t].over THEN <<<<"end", TRUE>>>> ELSE <<>>
    /\ closed' = (closed \/ tick[t].over)
    /\ tick' = [tick EXCEPT ![t] = NoTick]
    /\ UNCHANGED <<run, cursor, lastSeen, broken, sent>>

\* A query that fails ends the stream, and the page is told nothing: no `end`.
TickFails(t) ==
    /\ tick[t].at \in {"query", "asking"}
    /\ closed' = TRUE /\ broken' = (broken \/ ~closed)
    /\ tick' = [tick EXCEPT ![t] = NoTick]
    /\ UNCHANGED <<run, cursor, lastSeen, channel, sent>>

Tick(t) ==
    TickStart(t) \/ TickRead(t) \/ TickSend(t) \/ TickStatus(t) \/ TickEnd(t) \/ TickFails(t)

\* The connection drops: what was on its way is lost, the API stops its timer and
\* the page does not open another stream (onerror).
ConnectionDrops ==
    /\ ~closed \/ channel # <<>>
    /\ closed' = TRUE /\ broken' = TRUE /\ channel' = <<>>
    /\ UNCHANGED <<run, cursor, lastSeen, tick, sent>>

StreamNext == WriteLine \/ EndRun \/ ConnectionDrops \/ \E t \in Ticks : Tick(t)
=============================================================================
