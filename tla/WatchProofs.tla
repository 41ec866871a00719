---------------------------- MODULE WatchProofs ----------------------------
(***************************************************************************)
(* The page shows a line once, whatever the stream sends twice and         *)
(* whenever the snapshot comes: it knows every line it shows, and adds     *)
(* only lines it does not know.  The snapshot itself replaces the list.    *)
(* The stream leaves no gap: what its cursor has passed was sent.          *)
(***************************************************************************)
EXTENDS Watching, FiniteSetTheorems, TLAPS

ShownInv ==
  /\ log \in Seq(Nat)
  /\ snapshot.lines \in Nat
  /\ shown \in Seq(known)
  /\ LinesShownOnce

-----------------------------------------------------------------------------

(* A line that is not in the list goes to its end.                         *)
LEMMA NewLine ==
  ASSUME NEW K, NEW list \in Seq(K), NEW line, line \notin K,
         \A j, k \in DOMAIN list : list[j] = list[k] => j = k
  PROVE  /\ Append(list, line) \in Seq(K \cup {line})
         /\ \A j, k \in DOMAIN Append(list, line) :
               Append(list, line)[j] = Append(list, line)[k] => j = k
<1> DEFINE longer == Append(list, line)
<1>1. list \in Seq(K \cup {line}) /\ longer \in Seq(K \cup {line})
  OBVIOUS
<1>2. /\ DOMAIN longer = 1..(Len(list) + 1) /\ DOMAIN list = 1..Len(list)
      /\ Len(list) \in Nat
      /\ \A k \in 1..Len(list) : longer[k] = list[k] /\ list[k] \in K
      /\ longer[Len(list) + 1] = line
  BY <1>1
<1>3. \A k \in DOMAIN longer : k \in DOMAIN list \/ k = Len(list) + 1
  BY <1>2
<1>4. \A j, k \in DOMAIN longer : longer[j] = longer[k] => j = k
  BY <1>2, <1>3
<1> QED BY <1>1, <1>4

(* The lines of the snapshot, in their order.                              *)
LEMMA FirstLines ==
  ASSUME NEW n \in Nat, NEW K
  PROVE  [i \in 1..n |-> i] \in Seq(K \cup 1..n)
  OBVIOUS

(* What the page shows depends on the page alone.                          *)
LEMMA PageStays ==
  ASSUME ShownInv, UNCHANGED <<known, shown>>, log' \in Seq(Nat), snapshot'.lines \in Nat
  PROVE  ShownInv'
  BY DEF ShownInv, LinesShownOnce

(* The rows are milliseconds, whoever writes.                               *)
LEMMA LogGrows ==
  ASSUME ShownInv, StreamNext
  PROVE  log' \in Seq(Nat)
<1>1. log \in Seq(Nat)
  BY DEF ShownInv
<1>2. CASE WriteLine
  <2>1. Now \in Nat
    BY <1>1 DEF Now, Last
  <2>2. PICK ms \in {Now, Now + 1} : log' = Append(log, ms)
    BY <1>2 DEF WriteLine
  <2>3. ms \in Nat
    BY <2>1, <2>2
  <2> QED BY <1>1, <2>2, <2>3
<1>3. CASE EndRun
  BY <1>1, <1>3 DEF EndRun
<1>4. CASE \E t \in Ticks : Tick(t)
  BY <1>1, <1>4 DEF Tick, TickStart, TickRead, TickSend, TickStatus, TickEnd, TickFails, run
<1>5. CASE ConnectionDrops
  BY <1>1, <1>5 DEF ConnectionDrops, run
<1> QED BY <1>2, <1>3, <1>4, <1>5 DEF StreamNext

-----------------------------------------------------------------------------

(* The page opens empty.                                                    *)
LEMMA ShownAtFirst == Init => ShownInv
  BY DEF Init, StreamInit, Reading, ShownInv, LinesShownOnce

(* The page adds only lines it does not know.                               *)
LEMMA PageKeeps == ASSUME ShownInv, PageNext PROVE ShownInv'
<1>0. log \in Seq(Nat) /\ Len(log) \in Nat /\ snapshot.lines \in Nat
  BY DEF ShownInv
<1>1. CASE SnapshotRead
  <2>1. snapshot'.lines = Len(log)
    BY <1>1 DEF SnapshotRead, Answer
  <2> QED BY <1>0, <1>1, <2>1, PageStays DEF SnapshotRead, run
<1>2. CASE ReloadRead
  BY <1>0, <1>2, PageStays DEF ReloadRead, run
<1>3. CASE ReloadShown
  BY <1>0, <1>3, PageStays DEF ReloadShown, run
<1>4. CASE StatusEvent \/ EndEvent
  BY <1>0, <1>4, PageStays DEF StatusEvent, EndEvent, Event, Aside, run
<1>5. CASE SnapshotShown
  <2> DEFINE n == snapshot.lines
  <2>1. /\ shown' = [i \in 1..n |-> i] /\ known' = known \cup 1..n
        /\ snapshot'.lines = 0 /\ log' = log
    BY <1>5 DEF SnapshotShown, Reading, run
  <2>2. shown' \in Seq(known')
    BY <1>0, <2>1, FirstLines
  <2>3. LinesShownOnce'
    BY <2>1 DEF LinesShownOnce
  <2> QED BY <1>0, <2>1, <2>2, <2>3 DEF ShownInv
<1>6. CASE LogEvent
  <2> DEFINE line == Head(channel)[2]
  <2>1. log' = log /\ snapshot' = snapshot
    BY <1>6 DEF LogEvent, Aside, run
  <2>2. CASE line \in known
    <3>1. UNCHANGED <<known, shown>>
      BY <1>6, <2>2 DEF LogEvent
    <3> QED BY <1>0, <2>1, <3>1, PageStays
  <2>3. CASE line \notin known
    <3>1. known' = known \cup {line} /\ shown' = Append(shown, line)
      BY <1>6, <2>3 DEF LogEvent
    <3>2. shown' \in Seq(known') /\ LinesShownOnce'
      BY <2>3, <3>1, NewLine DEF ShownInv, LinesShownOnce
    <3> QED BY <1>0, <2>1, <3>2 DEF ShownInv
  <2> QED BY <2>2, <2>3
<1>7. CASE SnapshotFails
  <2>1. snapshot'.lines = 0
    BY <1>7 DEF SnapshotFails, Reading
  <2> QED BY <1>0, <1>7, <2>1, PageStays DEF SnapshotFails, run
<1>8. CASE ReloadFails
  BY <1>0, <1>8, PageStays DEF ReloadFails, run
<1> QED BY <1>1, <1>2, <1>3, <1>4, <1>5, <1>6, <1>7, <1>8 DEF PageNext

(* Neither the page nor the stream shows a line again.                      *)
LEMMA ShownStep == ShownInv /\ [Next]_vars => ShownInv'
<1> SUFFICES ASSUME ShownInv, [Next]_vars PROVE ShownInv'
  OBVIOUS
<1>1. CASE StreamNext /\ Behind
  <2>1. UNCHANGED <<known, shown, snapshot>>
    BY <1>1 DEF Behind, page
  <2> QED BY <1>1, <2>1, LogGrows, PageStays DEF ShownInv
<1>2. CASE PageNext
  BY <1>2, PageKeeps
<1>3. CASE UNCHANGED vars
  BY <1>3, PageStays DEF vars, page, run, ShownInv
<1> QED BY <1>1, <1>2, <1>3 DEF Next

(* No line is on the page twice, for any number of lines and of ticks that *)
(* overlap, and wherever the snapshot falls (page.tsx:45-56, :87-92).      *)
THEOREM NoLineTwice == Spec => []LinesShownOnce
<1>1. ShownInv => LinesShownOnce
  BY DEF ShownInv
<1> QED BY <1>1, ShownAtFirst, ShownStep, PTL DEF Spec

-----------------------------------------------------------------------------
(* The stream leaves no gap.                                               *)

TickState ==
  [at : {"idle", "query", "rows", "asking", "status"}, from : Nat, rows : SUBSET Nat,
   over : BOOLEAN]

StreamTypes ==
  /\ log \in Seq(Nat)
  /\ over \in BOOLEAN /\ closed \in BOOLEAN
  /\ cursor \in Nat
  /\ tick \in [Ticks -> TickState]

(* Rows come in the order of their milliseconds.                           *)
InOrder == \A i, j \in Lines : i <= j => log[i] <= log[j]

(* Every line of an earlier millisecond than this was sent, and no line of  *)
(* one will come.                                                          *)
Covered(ms) == ms <= Now /\ (~closed => \A j \in Lines : log[j] < ms => j \in sent)

(* What a tick read goes on from where it asked without leaving one out.    *)
ReadsOn(t) ==
  /\ tick[t].rows \subseteq Lines
  /\ \A i \in tick[t].rows : \A j \in Lines :
        j < i /\ log[j] >= tick[t].from => j \in tick[t].rows

GapInv ==
  /\ StreamTypes
  /\ InOrder
  /\ sent \subseteq Lines
  /\ StreamHasNoGap
  /\ Covered(cursor)
  /\ ~closed => lastSeen \subseteq sent
  /\ \A t \in Ticks : tick[t].at \in {"query", "rows"} => Covered(tick[t].from)
  /\ \A t \in Ticks : tick[t].at = "rows" => ReadsOn(t)

(* The last row is the newest.                                              *)
LEMMA NowIsNewest ==
  ASSUME log \in Seq(Nat), InOrder
  PROVE  /\ Now \in Nat
         /\ \A i \in Lines : log[i] <= Now
<1> USE DEF Lines
<1>1. CASE log = <<>>
  BY <1>1 DEF Now
<1>2. CASE log # <<>>
  <2>1. Len(log) \in Lines /\ Now = log[Len(log)] /\ Lines = 1..Len(log) /\ Len(log) \in Nat
    BY <1>2 DEF Now, Last
  <2> QED BY <2>1 DEF InOrder
<1> QED BY <1>1, <1>2

(* A tick that starts or asks changes nothing but itself.                   *)
LEMMA GapUndisturbed ==
  ASSUME GapInv, UNCHANGED <<log, cursor, lastSeen, sent>>,
         over' \in BOOLEAN, closed' \in BOOLEAN, closed => closed',
         NEW t \in Ticks, tick' \in [Ticks -> TickState],
         \A u \in Ticks \ {t} : tick'[u] = tick[u],
         tick'[t].at \in {"query", "rows"} => Covered(tick'[t].from),
         tick'[t].at = "rows" => ReadsOn(t)'
  PROVE  GapInv'
<1> USE DEF Lines
<1>1. StreamTypes' /\ InOrder' /\ (sent \subseteq Lines)' /\ StreamHasNoGap'
      /\ (~closed => lastSeen \subseteq sent)'
  BY DEF GapInv, StreamTypes, InOrder, StreamHasNoGap
<1>2. Covered(cursor)'
  BY DEF GapInv, Covered, Now
<1>3. ASSUME NEW u \in Ticks, tick'[u].at \in {"query", "rows"} PROVE Covered(tick[u].from)'
  BY <1>3 DEF GapInv, Covered, Now
<1>4. ASSUME NEW u \in Ticks, tick'[u].at = "rows" PROVE ReadsOn(u)'
  BY <1>4 DEF GapInv, ReadsOn
<1> QED BY <1>1, <1>2, <1>3, <1>4 DEF GapInv

(* A new line comes after every line there is.                              *)
LEMMA WriteKeepsGap == ASSUME GapInv, WriteLine PROVE GapInv'
<1> USE DEF Lines
<1>0. /\ log \in Seq(Nat) /\ Len(log) \in Nat /\ Now \in Nat /\ Lines = 1..Len(log)
      /\ \A i \in Lines : log[i] \in Nat /\ log[i] <= Now
      /\ UNCHANGED <<over, cursor, lastSeen, closed, tick, sent>>
  BY NowIsNewest DEF GapInv, StreamTypes, WriteLine, stream
<1>1. PICK ms \in {Now, Now + 1} : log' = Append(log, ms)
  BY DEF WriteLine
<1>2. /\ log' \in Seq(Nat) /\ Len(log') = Len(log) + 1 /\ ms \in Nat /\ Now <= ms
      /\ \A i \in Lines : log'[i] = log[i]
      /\ log'[Len(log) + 1] = ms
      /\ Lines' = Lines \cup {Len(log) + 1}
  BY <1>0, <1>1
<1>3. Now' = ms
  BY <1>2 DEF Now, Last
<1>4. StreamTypes' /\ InOrder'
  BY <1>0, <1>2 DEF GapInv, StreamTypes, InOrder
<1>5. (sent \subseteq Lines)' /\ StreamHasNoGap' /\ (~closed => lastSeen \subseteq sent)'
  BY <1>0, <1>2 DEF GapInv, StreamHasNoGap
<1>6. ASSUME NEW m \in Nat, Covered(m)
      PROVE  m <= Now' /\ (~closed' => \A j \in Lines' : log'[j] < m => j \in sent')
  BY <1>0, <1>2, <1>3, <1>6 DEF Covered
<1>7. Covered(cursor)' /\ \A t \in Ticks : tick'[t].at \in {"query", "rows"} => Covered(tick[t].from)'
  BY <1>0, <1>6 DEF GapInv, Covered, StreamTypes, TickState
<1>8. ASSUME NEW t \in Ticks, tick'[t].at = "rows" PROVE ReadsOn(t)'
  BY <1>0, <1>2, <1>8 DEF GapInv, ReadsOn
<1> QED BY <1>4, <1>5, <1>7, <1>8 DEF GapInv

(* The query returns the first rows from its cursor on.                     *)
LEMMA QueryReadsOn ==
  ASSUME NEW from \in Nat, log \in Seq(Nat)
  PROVE  /\ FirstRows(from) \subseteq Lines
         /\ \A i \in FirstRows(from) : \A j \in Lines :
               j < i /\ log[j] >= from => j \in FirstRows(from)
<1> USE DEF Lines
<1> DEFINE Before(i) == {j \in 1..(i - 1) : FromCursor(j, from)}
<1>1. ASSUME NEW i \in FirstRows(from), NEW j \in Lines, j < i, log[j] >= from
      PROVE  j \in FirstRows(from)
  <2>1. i \in Nat /\ j \in Nat /\ Cardinality(Before(i)) < Take
    BY DEF FirstRows
  <2>2. IsFiniteSet(1..(i - 1))
    BY <2>1, FS_Interval
  <2>3. IsFiniteSet(Before(i))
    BY <2>2, FS_Subset
  <2>4. Before(j) \subseteq Before(i)
    BY <1>1, <2>1
  <2>5. /\ Cardinality(Before(i)) \in Nat /\ Cardinality(Before(j)) \in Nat
        /\ Cardinality(Before(j)) <= Cardinality(Before(i))
    BY <2>3, <2>4, FS_Subset, FS_CardinalityType
  <2>6. Cardinality(Before(j)) < Take
    BY <2>1, <2>5, StreamAssumption
  <2> QED BY <1>1, <2>6 DEF FirstRows, FromCursor
<1> QED BY <1>1 DEF FirstRows

(* Sending what a tick read covers what is before its newest row.           *)
LEMMA SendKeepsGap == ASSUME GapInv, NEW t \in Ticks, TickSend(t) PROVE GapInv'
<1> USE DEF Lines
<1> DEFINE rows == tick[t].rows
           from == tick[t].from
<1>0. /\ log \in Seq(Nat) /\ Lines = 1..Len(log) /\ Len(log) \in Nat /\ Now \in Nat
      /\ \A i \in Lines : log[i] \in Nat /\ log[i] <= Now
      /\ from \in Nat /\ rows \subseteq Lines /\ Covered(from) /\ ReadsOn(t)
      /\ UNCHANGED <<log, over, closed>>
  BY NowIsNewest DEF GapInv, StreamTypes, TickState, TickSend, ReadsOn, run
<1>1. /\ tick' = [tick EXCEPT ![t].at = "asking", ![t].rows = {}]
      /\ sent' = IF closed THEN sent ELSE sent \cup (rows \ lastSeen)
  BY DEF TickSend
<1>2. tick' \in [Ticks -> TickState] /\ tick'[t].at = "asking"
      /\ \A u \in Ticks \ {t} : tick'[u] = tick[u]
  BY <1>1 DEF GapInv, StreamTypes, TickState
<1>3. sent \subseteq sent' /\ (sent \subseteq Lines)' /\ (~closed => rows \subseteq sent')
  BY <1>0, <1>1 DEF GapInv
<1>4. ASSUME NEW i \in rows, NEW j \in Lines, log[j] < log[i], ~closed PROVE j \in sent'
  <2>1. CASE log[j] < from
    BY <1>0, <1>3, <1>4, <2>1 DEF Covered
  <2>2. CASE log[j] >= from
    <3>1. j < i
      BY <1>0, <1>4 DEF GapInv, InOrder
    <3> QED BY <1>0, <1>3, <1>4, <2>2, <3>1 DEF ReadsOn
  <2> QED BY <1>0, <2>1, <2>2
<1>5. StreamHasNoGap'
  <2>1. ASSUME NEW i \in sent', NEW j \in Lines, log[j] < log[i] PROVE j \in sent'
    BY <1>1, <1>3, <1>4, <2>1 DEF GapInv, StreamHasNoGap
  <2> QED BY <1>0, <2>1 DEF StreamHasNoGap
<1>6. cursor' \in Nat /\ Covered(cursor)' /\ (~closed => lastSeen \subseteq sent)'
  <2>1. CASE rows = {} /\ UNCHANGED <<cursor, lastSeen>>
    BY <1>0, <1>3, <2>1 DEF GapInv, StreamTypes, Covered, Now
  <2>2. ASSUME NEW newest \in rows, cursor' = log[newest],
               lastSeen' = {i \in rows : log[i] = log[newest]}
        PROVE  cursor' \in Nat /\ Covered(cursor)' /\ (~closed => lastSeen \subseteq sent)'
    BY <1>0, <1>3, <1>4, <2>2 DEF Covered, Now
  <2> QED BY <2>1, <2>2 DEF TickSend
<1>7. ASSUME NEW u \in Ticks, tick'[u].at \in {"query", "rows"}
      PROVE  Covered(tick[u].from)' /\ (tick'[u].at = "rows" => ReadsOn(u)')
  BY <1>0, <1>2, <1>3, <1>7 DEF GapInv, Covered, Now, ReadsOn
<1> QED BY <1>0, <1>2, <1>3, <1>5, <1>6, <1>7 DEF GapInv, StreamTypes, InOrder

(* The other steps of a tick.                                              *)
LEMMA TickKeepsGap == ASSUME GapInv, NEW t \in Ticks, Tick(t) PROVE GapInv'
<1> USE DEF Lines
<1>0. /\ log \in Seq(Nat) /\ cursor \in Nat /\ over \in BOOLEAN /\ closed \in BOOLEAN
      /\ tick \in [Ticks -> TickState]
  BY DEF GapInv, StreamTypes
<1>1. CASE TickStart(t)
  <2>1. /\ UNCHANGED <<log, over, cursor, lastSeen, closed, sent>>
        /\ tick' = [tick EXCEPT ![t] = [NoTick EXCEPT !.at = "query", !.from = cursor]]
    BY <1>1 DEF TickStart, run
  <2>2. tick' \in [Ticks -> TickState] /\ tick'[t].at = "query" /\ tick'[t].from = cursor
        /\ \A u \in Ticks \ {t} : tick'[u] = tick[u]
    BY <1>0, <2>1 DEF TickState, NoTick
  <2> QED BY <1>0, <2>1, <2>2, GapUndisturbed DEF GapInv
<1>2. CASE TickRead(t)
  <2>1. /\ UNCHANGED <<log, over, cursor, lastSeen, closed, sent>> /\ tick[t].at = "query"
        /\ tick' = [tick EXCEPT ![t].at = "rows", ![t].rows = FirstRows(tick[t].from)]
    BY <1>2 DEF TickRead, run
  <2>2. tick[t].from \in Nat /\ FirstRows(tick[t].from) \subseteq Lines
    BY <1>0, QueryReadsOn DEF TickState
  <2>3. tick' \in [Ticks -> TickState] /\ tick'[t].at = "rows" /\ tick'[t].from = tick[t].from
        /\ tick'[t].rows = FirstRows(tick[t].from)
        /\ \A u \in Ticks \ {t} : tick'[u] = tick[u]
    <3>0. FirstRows(tick[t].from) \in SUBSET Nat /\ tick[t] \in TickState
      BY <1>0, <2>2
    <3>1. [tick[t] EXCEPT !.at = "rows", !.rows = FirstRows(tick[t].from)] \in TickState
      BY <3>0 DEF TickState
    <3>2. tick' = [tick EXCEPT ![t] = [tick[t] EXCEPT !.at = "rows", !.rows = FirstRows(tick[t].from)]]
      BY <1>0, <2>1
    <3> QED BY <1>0, <3>1, <3>2 DEF TickState
  <2>4. ReadsOn(t)'
    BY <1>0, <2>1, <2>2, <2>3, QueryReadsOn DEF ReadsOn
  <2> QED BY <1>0, <2>1, <2>3, <2>4, GapUndisturbed DEF GapInv
<1>3. CASE TickSend(t)
  BY <1>3, SendKeepsGap
<1>4. CASE TickStatus(t)
  <2>1. /\ UNCHANGED <<log, over, cursor, lastSeen, closed, sent>>
        /\ tick' = [tick EXCEPT ![t].at = "status", ![t].over = over]
    BY <1>4 DEF TickStatus, run
  <2>2. tick' \in [Ticks -> TickState] /\ tick'[t].at = "status"
        /\ \A u \in Ticks \ {t} : tick'[u] = tick[u]
    BY <1>0, <2>1 DEF TickState
  <2> QED BY <1>0, <2>1, <2>2, GapUndisturbed
<1>5. CASE TickEnd(t)
  <2>1. /\ UNCHANGED <<log, over, cursor, lastSeen, sent>>
        /\ closed' = (closed \/ tick[t].over)
        /\ tick' = [tick EXCEPT ![t] = NoTick]
    BY <1>5 DEF TickEnd, run
  <2>2. tick' \in [Ticks -> TickState] /\ tick'[t].at = "idle"
        /\ \A u \in Ticks \ {t} : tick'[u] = tick[u]
    BY <1>0, <2>1 DEF TickState, NoTick
  <2> QED BY <1>0, <2>1, <2>2, GapUndisturbed
<1>6. CASE TickFails(t)
  <2>1. /\ UNCHANGED <<log, over, cursor, lastSeen, sent>> /\ closed' = TRUE
        /\ tick' = [tick EXCEPT ![t] = NoTick]
    BY <1>6 DEF TickFails, run
  <2>2. tick' \in [Ticks -> TickState] /\ tick'[t].at = "idle"
        /\ \A u \in Ticks \ {t} : tick'[u] = tick[u]
    BY <1>0, <2>1 DEF TickState, NoTick
  <2> QED BY <1>0, <2>1, <2>2, GapUndisturbed
<1> QED BY <1>1, <1>2, <1>3, <1>4, <1>5, <1>6 DEF Tick

(* Where nothing of the stream changes but that it ends, nothing is missed. *)
LEMMA GapStays ==
  ASSUME GapInv, UNCHANGED <<log, cursor, lastSeen, tick, sent>>, over' \in BOOLEAN,
         closed' \in BOOLEAN, closed => closed'
  PROVE  GapInv'
BY DEF Lines, GapInv, StreamTypes, InOrder, StreamHasNoGap, Covered, ReadsOn, Now

(* The stream is sent nothing out of order: once a line of a millisecond was *)
(* sent, so was every line of the milliseconds before it, for any number of  *)
(* lines, any size of a query and any ticks that overlap or end in another   *)
(* order than they began (executions.ts:281-310).                            *)
THEOREM NothingIsSkipped == Spec => []StreamHasNoGap
<1> USE DEF Lines
<1>1. Init => GapInv
  <2> SUFFICES ASSUME Init PROVE GapInv
    OBVIOUS
  <2>1. /\ log = <<>> /\ over = FALSE /\ cursor = 0 /\ lastSeen = {} /\ closed = FALSE /\ sent = {}
        /\ tick = [t \in Ticks |-> NoTick]
    BY DEF Init, StreamInit
  <2>2. NoTick \in TickState /\ NoTick.at = "idle"
    BY DEF NoTick, TickState
  <2>3. tick \in [Ticks -> TickState] /\ \A t \in Ticks : tick[t].at = "idle"
    BY <2>1, <2>2
  <2>4. Now = 1 /\ Lines = {} /\ log \in Seq(Nat)
    BY <2>1 DEF Now
  <2>5. StreamTypes
    BY <2>1, <2>3, <2>4 DEF StreamTypes
  <2> QED BY <2>1, <2>3, <2>4, <2>5 DEF GapInv, InOrder, StreamHasNoGap, Covered
<1>2. GapInv /\ [Next]_vars => GapInv'
  <2> SUFFICES ASSUME GapInv, [Next]_vars PROVE GapInv'
    OBVIOUS
  <2>0. over \in BOOLEAN /\ closed \in BOOLEAN
    BY DEF GapInv, StreamTypes
  <2>1. CASE StreamNext
    BY <2>0, <2>1, WriteKeepsGap, TickKeepsGap, GapStays
       DEF StreamNext, EndRun, ConnectionDrops, run, stream
  <2>2. CASE PageNext
    BY <2>0, <2>2, GapStays DEF PageNext, SnapshotRead, SnapshotShown, SnapshotFails,
       ReloadRead, ReloadShown, ReloadFails,
       LogEvent, StatusEvent, EndEvent, Aside, Event, run, stream
  <2>3. CASE UNCHANGED vars
    BY <2>0, <2>3, GapStays DEF vars, run, stream
  <2> QED BY <2>1, <2>2, <2>3 DEF Next
<1>3. GapInv => StreamHasNoGap
  BY DEF GapInv
<1> QED BY <1>1, <1>2, <1>3, PTL DEF Spec
=============================================================================
