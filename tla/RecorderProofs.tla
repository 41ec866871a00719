--------------------------- MODULE RecorderProofs ---------------------------
(***************************************************************************)
(* A closing action closes the recording, and a page to which nothing is   *)
(* under way agrees with the worker, for any pages, bounds and passes.     *)
(*                                                                         *)
(* The first needs of the pages only that the calls they have under way    *)
(* are calls: a closing action is reported as a click.  The second says of *)
(* every open page why it does, or will, agree.                            *)
(***************************************************************************)
EXTENDS Recorder, FiniteSetTheorems, SequenceTheorems, TLAPS

Calls == fromPage \in [Pages -> Seq(Call)]

RecorderInv ==
  /\ recording \in BOOLEAN
  /\ actions \in Seq(Action)
  /\ Calls
  /\ FinalClosesRecording

-----------------------------------------------------------------------------

(* While a recording runs nothing in it is closing, so whatever is appended *)
(* then keeps the invariant if a closing action stops the recording.        *)
LEMMA RecordedWhileRecording ==
  ASSUME actions \in Seq(Action), FinalClosesRecording, recording,
         NEW a \in Action, actions' = Append(actions, a),
         a.isFinal => ~recording'
  PROVE  actions' \in Seq(Action) /\ FinalClosesRecording'
<1>1. \A i \in DOMAIN actions : ~actions[i].isFinal
  BY DEF FinalClosesRecording
<1>2. /\ DOMAIN actions' = 1..(Len(actions) + 1)
      /\ \A i \in DOMAIN actions : actions'[i] = actions[i]
      /\ actions'[Len(actions) + 1] = a
      /\ DOMAIN actions = 1..Len(actions)
      /\ Len(actions) \in Nat
  OBVIOUS
<1>3. \A i \in DOMAIN actions' : actions'[i].isFinal => i = Len(actions) + 1 /\ a.isFinal
  BY <1>1, <1>2
<1>4. FinalClosesRecording'
  BY <1>2, <1>3 DEF FinalClosesRecording
<1> QED BY <1>4

(* A wait may be appended at any time. *)
LEMMA WaitedAtAnyTime ==
  ASSUME actions \in Seq(Action), FinalClosesRecording, recording' = recording,
         Record("wait")
  PROVE  actions' \in Seq(Action) /\ FinalClosesRecording'
<1> DEFINE a == [kind |-> "wait", isFinal |-> FALSE]
<1>1. a \in Action
  BY DEF Action
<1>2. /\ DOMAIN actions' = 1..(Len(actions) + 1)
      /\ \A i \in DOMAIN actions : actions'[i] = actions[i]
      /\ actions'[Len(actions) + 1] = a
      /\ DOMAIN actions = 1..Len(actions)
      /\ Len(actions) \in Nat
  BY DEF Record
<1>3. \A i \in DOMAIN actions' : actions'[i].isFinal => i \in DOMAIN actions
  BY <1>2
<1>4. FinalClosesRecording'
  BY <1>2, <1>3 DEF FinalClosesRecording
<1> QED BY <1>1, <1>4 DEF Record

(* The last action of a running recording may become another kind.          *)
LEMMA Upgraded ==
  ASSUME actions \in Seq(Action), FinalClosesRecording, recording, actions # <<>>,
         actions' = [actions EXCEPT ![Len(actions)].kind = "download"]
  PROVE  actions' \in Seq(Action) /\ FinalClosesRecording'
<1>1. \A i \in DOMAIN actions : ~actions[i].isFinal
  BY DEF FinalClosesRecording
<1>2. /\ DOMAIN actions = 1..Len(actions)
      /\ Len(actions) \in Nat
      /\ \A i \in DOMAIN actions : actions[i] \in Action
  OBVIOUS
<1>3. [actions[Len(actions)] EXCEPT !.kind = "download"] \in Action
  BY <1>2 DEF Action
<1>4. actions' \in Seq(Action)
  BY <1>2, <1>3
<1>5. /\ DOMAIN actions' = DOMAIN actions
      /\ \A i \in DOMAIN actions : actions'[i].isFinal = actions[i].isFinal
  BY <1>2 DEF Action
<1>6. FinalClosesRecording'
  BY <1>1, <1>5 DEF FinalClosesRecording
<1> QED BY <1>4, <1>6

(* An emitted call joins the calls under way. *)
LEMMA EmitsACall ==
  ASSUME Calls, NEW p \in Pages, NEW kind \in PageKinds, NEW isFinal \in BOOLEAN,
         isFinal => kind = "click", Emit(p, kind, isFinal)
  PROVE  Calls'
<1>1. [kind |-> kind, isFinal |-> isFinal] \in Call
  BY DEF Call, PageKinds
<1>2. fromPage[p] \in Seq(Call)
  BY DEF Calls
<1>3. Append(fromPage[p], [kind |-> kind, isFinal |-> isFinal]) \in Seq(Call)
  BY <1>1, <1>2
<1> QED BY <1>3 DEF Calls, Emit

-----------------------------------------------------------------------------

(* The pages only report; they record nothing themselves.                   *)
LEMMA PageStep ==
  ASSUME RecorderInv, NEW p \in Pages, Click(p) \/ Input(p) \/ Bootstrap(p)
  PROVE  RecorderInv'
<1> USE DEF RecorderInv
<1>1. UNCHANGED <<recording, actions>>
  BY DEF Click, Input, Bootstrap, sessionSide
<1>2. Calls'
  <2>1. CASE Click(p)
    BY <2>1, EmitsACall DEF Click, PageKinds
  <2>2. CASE Input(p)
    BY <2>2, EmitsACall DEF Input, PageKinds
  <2>3. CASE Bootstrap(p)
    <3>1. fromPage[p] \in Seq(Call) /\ [kind |-> "config"] \in Call
      BY DEF Calls, Call
    <3> QED BY <2>3, <3>1 DEF Bootstrap, Calls
  <2> QED BY <2>1, <2>2, <2>3
<1> QED BY <1>1, <1>2 DEF FinalClosesRecording

(* A closing action is recorded while nothing closes, and stops the recording. *)
LEMMA HandleEmittedStep ==
  ASSUME RecorderInv, NEW p \in Pages, HandleEmitted(p)
  PROVE  RecorderInv'
<1> USE DEF RecorderInv
<1> DEFINE call == Head(fromPage[p])
<1>1. fromPage[p] \in Seq(Call) /\ fromPage[p] # <<>> /\ call.kind # "config"
  BY DEF Calls, HandleEmitted
<1>2. call \in Call /\ Tail(fromPage[p]) \in Seq(Call)
  BY <1>1
<1>3. call \in Action
  BY <1>1, <1>2 DEF Call, Action, PageKinds
<1>4. call.isFinal => call.kind = "click"
  BY <1>1, <1>2 DEF Call
<1>5. Calls'
  BY <1>2 DEF HandleEmitted, Calls
<1>6. CASE recording /\ PushReported(call)
  <2>1. actions' = Append(actions, call) /\ (call.isFinal => ~recording')
    BY <1>4, <1>6 DEF PushReported
  <2>2. recording' \in BOOLEAN
    BY <1>6 DEF PushReported
  <2> HIDE DEF call
  <2>3. actions' \in Seq(Action) /\ FinalClosesRecording'
    BY <1>3, <1>6, <2>1, RecordedWhileRecording
  <2> QED BY <1>5, <2>2, <2>3
<1>7. CASE UNCHANGED <<recording, actions>>
  BY <1>5, <1>7 DEF FinalClosesRecording
<1> QED BY <1>6, <1>7 DEF HandleEmitted

(* Configurations travel without touching what is recorded.                 *)
LEMMA ConfiguringStep ==
  ASSUME RecorderInv, NEW p \in Pages, AnswerConfig(p) \/ DeliverConfig(p) \/ ConfigureRead(p)
  PROVE  RecorderInv'
<1> USE DEF RecorderInv
<1>1. UNCHANGED <<recording, actions>>
  BY DEF AnswerConfig, DeliverConfig, ConfigureRead, sessionSide
<1>2. Calls'
  <2>1. CASE AnswerConfig(p)
    <3>1. fromPage[p] \in Seq(Call) /\ fromPage[p] # <<>>
      BY <2>1 DEF Calls, AnswerConfig
    <3>2. Tail(fromPage[p]) \in Seq(Call)
      BY <3>1
    <3> QED BY <2>1, <3>2 DEF Calls, AnswerConfig
  <2>2. CASE DeliverConfig(p) \/ ConfigureRead(p)
    BY <2>2 DEF Calls, DeliverConfig, ConfigureRead, pageSide
  <2> QED BY <2>1, <2>2
<1> QED BY <1>1, <1>2 DEF FinalClosesRecording

(* What the pages do of their own accord, and the address bar. *)
LEMMA PageEventStep ==
  ASSUME RecorderInv, NEW p,
         (\E byUser \in BOOLEAN : Navigated(p, byUser)) \/ TrackPage \/ Download(p) \/ Close(p)
  PROVE  RecorderInv'
<1> USE DEF RecorderInv
<1>1. recording' = recording
  BY DEF Navigated, TrackPage, Download, Close
<1>2. Calls'
  <2>1. CASE Close(p)
    <3>1. <<>> \in Seq(Call)
      OBVIOUS
    <3> QED BY <2>1, <3>1 DEF Close, Calls
  <2> QED BY <2>1 DEF Navigated, TrackPage, Download, Calls, pageSide
<1>3. actions' \in Seq(Action) /\ FinalClosesRecording'
  <2>1. CASE UNCHANGED actions
    BY <1>1, <2>1 DEF FinalClosesRecording
  <2>2. CASE recording /\ (Record("other") \/ Record("download"))
    <3>1. PICK kind \in {"other", "download"} :
            actions' = Append(actions, [kind |-> kind, isFinal |-> FALSE])
      BY <2>2 DEF Record
    <3> DEFINE a == [kind |-> kind, isFinal |-> FALSE]
    <3>2. a \in Action /\ ~a.isFinal
      BY DEF Action, PageKinds
    <3> HIDE DEF a
    <3> QED BY <2>2, <3>1, <3>2, RecordedWhileRecording DEF a
  <2>3. CASE /\ recording
             /\ actions # <<>>
             /\ actions' = [actions EXCEPT ![Len(actions)].kind = "download"]
    BY <2>3, Upgraded
  <2> QED BY <2>1, <2>2, <2>3 DEF Navigated, TrackPage, Download, Close
<1> QED BY <1>1, <1>2, <1>3

(* A request does not turn the recording on once it is closed.              *)
LEMMA ControlStep ==
  ASSUME RecorderInv, ToggleRoutes \/ StreamRoutes, UNCHANGED fromPage
  PROVE  RecorderInv'
<1> USE DEF RecorderInv
<1>1. Calls'
  BY DEF Calls
<1>2. CASE \E enabled \in BOOLEAN : SetRecording(enabled)
  <2>1. PICK enabled \in BOOLEAN : SetRecording(enabled)
    BY <1>2
  <2>2. recording' = enabled
    BY <2>1 DEF SetRecording
  <2>3. CASE UNCHANGED actions
    BY <1>1, <2>1, <2>2, <2>3 DEF SetRecording, HasFinal, FinalClosesRecording
  <2>4. CASE actions = <<>> /\ Record("other")
    <3>1. actions' = <<[kind |-> "other", isFinal |-> FALSE]>>
      BY <2>4 DEF Record
    <3>2. actions' \in Seq(Action)
      BY <3>1 DEF Action, PageKinds
    <3>3. FinalClosesRecording'
      BY <3>1 DEF FinalClosesRecording
    <3> QED BY <1>1, <2>2, <3>2, <3>3
  <2> QED BY <2>1, <2>3, <2>4 DEF SetRecording
<1>3. CASE (\E enabled \in BOOLEAN : SetArmedFinal(enabled) \/ SetArmedRead(enabled)) \/ SetOverlay
  <2>1. UNCHANGED <<recording, actions>>
    BY <1>3 DEF SetArmedFinal, SetArmedRead, SetOverlay
  <2> QED BY <1>1, <2>1 DEF FinalClosesRecording
<1>4. CASE ClearRecording
  BY <1>1, <1>4 DEF ClearRecording, FinalClosesRecording
<1>5. CASE AddManualWait
  BY <1>1, <1>5, WaitedAtAnyTime DEF AddManualWait
<1> QED BY <1>2, <1>3, <1>4, <1>5 DEF ToggleRoutes, StreamRoutes

-----------------------------------------------------------------------------

(* Every step of the user, the pages or the worker keeps the invariant.     *)
LEMMA RecorderInvStep ==
  ASSUME RecorderInv, [RecorderNext]_recorderVars
  PROVE  RecorderInv'
<1>1. CASE Asked
  <2>1. PICK u \in Users : ApiToggles(u) \/ ApiStream(u) \/ ApiPages(u) \/ ApiInteract(u)
    BY <1>1 DEF Asked
  <2>2. CASE ApiToggles(u) \/ ApiStream(u)
    BY <2>2, ControlStep DEF ApiToggles, ApiStream, Requested
  <2>3. CASE ApiPages(u)
    <3>1. CASE NavigateRoute
      <4>1. \E byUser \in BOOLEAN : Navigated(active, byUser)
        BY <3>1 DEF NavigateRoute
      <4> QED BY <4>1, PageEventStep
    <3>2. CASE \E p \in Pages : SwitchPageRoute(p)
      BY <3>2 DEF SwitchPageRoute, RecorderInv, Calls, FinalClosesRecording, pageSide
    <3> QED BY <2>3, <3>1, <3>2 DEF ApiPages
  <2>4. CASE ApiInteract(u)
    BY <2>4, PageStep DEF ApiInteract, InteractRoute, Interact
  <2> QED BY <2>1, <2>2, <2>3, <2>4
<1>2. CASE PageNext
  BY <1>2, PageStep DEF PageNext
<1>3. CASE Reported
  BY <1>3, HandleEmittedStep, ConfiguringStep DEF Reported
<1>4. CASE Configured
  BY <1>4, ConfiguringStep DEF Configured
<1>5. CASE PageEvents
  <2>1. CASE TrackPage
    BY <2>1, PageEventStep
  <2>2. CASE \E p \in Pages : SiteNavigates(p) \/ Download(p) \/ Close(p)
    <3>1. PICK p \in Pages : SiteNavigates(p) \/ Download(p) \/ Close(p)
      BY <2>2
    <3>2. (\E byUser \in BOOLEAN : Navigated(p, byUser)) \/ Download(p) \/ Close(p)
      BY <3>1 DEF SiteNavigates
    <3> QED BY <3>2, PageEventStep
  <2> QED BY <1>5, <2>1, <2>2 DEF PageEvents
<1>6. CASE UNCHANGED recorderVars
  <2>1. UNCHANGED <<recording, actions, fromPage>>
    BY <1>6 DEF recorderVars
  <2> QED BY <2>1 DEF RecorderInv, Calls, FinalClosesRecording
<1> QED BY <1>1, <1>2, <1>3, <1>4, <1>5, <1>6 DEF RecorderNext

(* Nothing is recorded at first.                                           *)
LEMMA RecorderInvAtFirst ==
  ASSUME RecorderInit
  PROVE  RecorderInv
<1>1. recording = FALSE /\ actions = <<>> /\ fromPage = [p \in Pages |-> <<>>]
  BY DEF RecorderInit
<1>2. <<>> \in Seq(Action) /\ <<>> \in Seq(Call)
  OBVIOUS
<1>3. Calls
  BY <1>1, <1>2 DEF Calls
<1>4. DOMAIN actions = {}
  BY <1>1
<1>5. FinalClosesRecording
  BY <1>4 DEF FinalClosesRecording
<1> QED BY <1>1, <1>2, <1>3, <1>5 DEF RecorderInv

(* session.ts pushAction() "nothing may follow it": once a closing action is *)
(* recorded, the recording is off and nothing but a wait follows, whatever   *)
(* the pages report, whoever arms and disarms and whichever pages close.     *)
THEOREM ClosingActionCloses == RecorderSpec => []FinalClosesRecording
<1>1. RecorderInit => RecorderInv
  BY RecorderInvAtFirst
<1>2. RecorderInv /\ [RecorderNext]_recorderVars => RecorderInv'
  BY RecorderInvStep
<1>3. RecorderInv => FinalClosesRecording
  BY DEF RecorderInv
<1> QED BY <1>1, <1>2, <1>3, PTL DEF RecorderSpec

-----------------------------------------------------------------------------

\* The last configuration under way on a wire is c.
LastIs(wire, c) == wire # <<>> /\ wire[Len(wire)].config = c

(* A finite set put in some order.                                         *)
LEMMA InSomeOrder ==
  ASSUME NEW S, IsFiniteSet(S)
  PROVE  SetToSeq(S) \in Seq(S) /\ (S # {} => SetToSeq(S) # <<>>)
<1> DEFINE n == Cardinality(S)
           f == SetToSeq(S)
<1>1. n \in Nat /\ ExistsBijection(1..n, S)
  BY FS_CardinalityType
<1>2. PICK g \in [1..n -> S] : IsInjective(g)
  BY <1>1 DEF ExistsBijection, Bijection, Injection
<1>3. f \in [1..n -> S]
  BY <1>2 DEF SetToSeq
<1> HIDE DEF f
<1>4. f \in Seq(S) /\ Len(f) = n
  BY <1>1, <1>3
<1>5. S # {} => n # 0
  BY FS_EmptySet
<1> QED BY <1>4, <1>5 DEF f

(* What is put behind a wire comes last on it.                             *)
LEMMA PutBehind ==
  ASSUME NEW w \in Seq(Applied), NEW s \in Seq(Applied), NEW c,
         \A n \in DOMAIN s : s[n].config = c
  PROVE  /\ w \o s \in Seq(Applied)
         /\ Len(w \o s) >= Len(w)
         /\ w \o s = w \/ (LastIs(w \o s, c) /\ Len(w \o s) > Len(w))
         /\ s # <<>> => LastIs(w \o s, c)
<1>1. /\ w \o s \in Seq(Applied) /\ Len(w \o s) = Len(w) + Len(s)
      /\ \A n \in 1..Len(w) + Len(s) :
           (w \o s)[n] = IF n <= Len(w) THEN w[n] ELSE s[n - Len(w)]
  BY ConcatProperties
<1>2. CASE s = <<>>
  BY <1>1, <1>2
<1>3. CASE s # <<>>
  <2>1. Len(s) \in Nat /\ Len(s) > 0 /\ Len(w) \in Nat
    BY <1>3
  <2>2. (w \o s)[Len(w \o s)] = s[Len(s)] /\ Len(s) \in DOMAIN s
    BY <1>1, <2>1
  <2>3. w \o s # <<>>
    BY <1>1, <2>1
  <2> QED BY <1>1, <2>1, <2>2, <2>3 DEF LastIs
<1> QED BY <1>2, <1>3

(* A pass that was to come to a page still is, or has brought it the        *)
(* configuration of now; nothing else is put on a wire.                     *)
LEMMA Advanced ==
  ASSUME RecorderTypeOK, NEW K \in SUBSET Passes, IsFiniteSet(K),
         NEW open \in Seq(Pages), NEW wire \in [Pages -> Seq(Applied)],
         Advance(K, open, wire)
  PROVE  /\ passes' \in [Passes -> Nat]
         /\ toPage' \in [Pages -> Seq(Applied)]
         /\ \A q \in Pages :
              /\ Len(toPage'[q]) >= Len(wire[q])
              /\ toPage'[q] = wire[q] \/ (LastIs(toPage'[q], Current) /\ Len(toPage'[q]) > Len(wire[q]))
         /\ \A i \in DOMAIN open : \A k \in Passes :
              passes[k] # 0 /\ passes[k] < i =>
                (passes'[k] # 0 /\ passes'[k] < i) \/ LastIs(toPage'[open[i]], Current)
<1> DEFINE goOn     == {k \in K : passes[k] < Len(open)}
           next(k)  == open[passes[k] + 1]
           reach(p) == {j \in goOn : next(j) = p}
           all(p)   == {[config |-> Current, pass |-> k] : k \in reach(p)}
           sends(p) == SetToSeq(all(p))
<1>1. /\ passes' = [k \in Passes |-> IF k \notin K THEN passes[k]
                                     ELSE IF k \in goOn THEN passes[k] + 1 ELSE 0]
      /\ toPage' = [p \in Pages |-> wire[p] \o sends(p)]
  BY DEF Advance
<1>2. Len(open) \in Nat /\ DOMAIN open = 1..Len(open) /\ passes \in [Passes -> Nat]
  BY DEF RecorderTypeOK
<1>3. Current \in Config
  BY DEF RecorderTypeOK, Config, Current
<1>4. ASSUME NEW p \in Pages
      PROVE  /\ sends(p) \in Seq(Applied)
             /\ \A n \in DOMAIN sends(p) : sends(p)[n].config = Current
             /\ reach(p) # {} => sends(p) # <<>>
  <2> DEFINE f == [k \in reach(p) |-> [config |-> Current, pass |-> k]]
  <2>1. IsFiniteSet(reach(p))
    BY FS_Subset
  <2>2. f \in Surjection(reach(p), all(p))
    BY DEF Surjection
  <2>3. IsFiniteSet(all(p))
    BY <2>1, <2>2, FS_Surjection
  <2>4. \A a \in all(p) : a \in Applied /\ a.config = Current
    BY <1>3 DEF Applied
  <2>5. reach(p) # {} => all(p) # {}
    OBVIOUS
  <2>6. sends(p) \in Seq(all(p)) /\ (all(p) # {} => sends(p) # <<>>)
    BY <2>3, InSomeOrder
  <2> HIDE DEF all, sends, reach
  <2>7. \A n \in DOMAIN sends(p) : sends(p)[n] \in all(p)
    BY <2>6
  <2>8. sends(p) \in Seq(Applied)
    BY <2>4, <2>6, SeqMonotonic
  <2> QED BY <2>4, <2>5, <2>6, <2>7, <2>8
<1>5. passes' \in [Passes -> Nat]
  <2> SUFFICES ASSUME NEW k \in Passes
               PROVE  (IF k \notin K THEN passes[k]
                        ELSE IF k \in goOn THEN passes[k] + 1 ELSE 0) \in Nat
    BY <1>1
  <2> QED BY <1>2
<1> HIDE DEF sends
<1>6. ASSUME NEW q \in Pages
      PROVE  /\ toPage'[q] \in Seq(Applied)
             /\ Len(toPage'[q]) >= Len(wire[q])
             /\ toPage'[q] = wire[q] \/ (LastIs(toPage'[q], Current) /\ Len(toPage'[q]) > Len(wire[q]))
             /\ sends(q) # <<>> => LastIs(toPage'[q], Current)
  <2>1. toPage'[q] = wire[q] \o sends(q) /\ wire[q] \in Seq(Applied)
    BY <1>1
  <2> DEFINE w == wire[q]
             s == sends(q)
  <2>2. s \in Seq(Applied) /\ \A n \in DOMAIN s : s[n].config = Current
    BY <1>4
  <2> HIDE DEF s, w
  <2>3. w \in Seq(Applied)
    BY <2>1 DEF w
  <2>4. /\ w \o s \in Seq(Applied)
        /\ Len(w \o s) >= Len(w)
        /\ w \o s = w \/ (LastIs(w \o s, Current) /\ Len(w \o s) > Len(w))
        /\ s # <<>> => LastIs(w \o s, Current)
    BY <2>2, <2>3, PutBehind
  <2> QED BY <2>1, <2>4 DEF w, s
<1>7. toPage' \in [Pages -> Seq(Applied)]
  <2>1. DOMAIN toPage' = Pages /\ toPage' = [p \in Pages |-> toPage'[p]]
    BY <1>1
  <2> QED BY <1>6, <2>1
<1>8. ASSUME NEW i \in DOMAIN open, NEW k \in Passes, passes[k] # 0, passes[k] < i
      PROVE  (passes'[k] # 0 /\ passes'[k] < i) \/ LastIs(toPage'[open[i]], Current)
  <2>1. CASE k \notin K
    BY <1>1, <1>8, <2>1
  <2>2. CASE k \in K
    <3>1. k \in goOn
      BY <1>2, <1>8, <2>2
    <3>2. passes'[k] = passes[k] + 1
      BY <1>1, <2>2, <3>1
    <3>3. CASE passes[k] + 1 < i
      BY <1>2, <3>2, <3>3
    <3>4. CASE passes[k] + 1 = i
      <4>1. open[i] \in Pages
        OBVIOUS
      <4>2. k \in reach(open[i])
        BY <3>1, <3>4
      <4>3. sends(open[i]) # <<>>
        BY <1>4, <4>1, <4>2
      <4> QED BY <1>6, <4>1, <4>3
    <3> QED BY <1>2, <1>8, <3>3, <3>4
  <2> QED BY <2>1, <2>2
<1> QED BY <1>5, <1>6, <1>7, <1>8

(* Only so many passes await what is under way to one page.                *)
LEMMA FewAwait ==
  ASSUME RecorderTypeOK, NEW p \in Pages
  PROVE  Awaiting(p) \subseteq Passes /\ IsFiniteSet(Awaiting(p))
<1> DEFINE w == toPage[p]
           all == {w[i].pass : i \in DOMAIN w}
           f == [i \in DOMAIN w |-> w[i].pass]
<1>1. w \in Seq(Applied)
  BY DEF RecorderTypeOK
<1>2. Len(w) \in Nat /\ DOMAIN w = 1..Len(w) /\ \A i \in DOMAIN w : w[i] \in Applied
  BY <1>1
<1>3. IsFiniteSet(DOMAIN w)
  BY <1>2, FS_Interval
<1> HIDE DEF w
<1>4. f \in Surjection(DOMAIN w, all)
  BY DEF Surjection
<1>5. IsFiniteSet(all)
  BY <1>3, <1>4, FS_Surjection
<1>6. Awaiting(p) = all \ {NoPass}
  BY DEF Awaiting, w
<1>7. all \subseteq Passes \cup {NoPass}
  BY <1>2 DEF Applied
<1> HIDE DEF all
<1>8. IsFiniteSet(all \ {NoPass})
  BY <1>5, FS_Subset
<1> QED BY <1>6, <1>7, <1>8

(* One more on a wire.                                                     *)
LEMMA Sends ==
  ASSUME NEW wire \in [Pages -> Seq(Applied)], NEW p \in Pages, NEW c \in Config,
         NEW k \in Passes \cup {NoPass}
  PROVE  /\ Send(wire, p, c, k) \in [Pages -> Seq(Applied)]
         /\ LastIs(Send(wire, p, c, k)[p], c)
         /\ \A q \in Pages \ {p} : Send(wire, p, c, k)[q] = wire[q]
<1> DEFINE a == [config |-> c, pass |-> k]
<1>1. a \in Applied /\ a.config = c
  BY DEF Applied
<1> HIDE DEF a
<1>2. wire[p] \in Seq(Applied)
  OBVIOUS
<1>3. /\ Append(wire[p], a) \in Seq(Applied) /\ Append(wire[p], a) # <<>>
      /\ Len(Append(wire[p], a)) = Len(wire[p]) + 1
      /\ Append(wire[p], a)[Len(wire[p]) + 1] = a
  BY <1>1, <1>2, AppendProperties
<1>4. Send(wire, p, c, k) = [wire EXCEPT ![p] = Append(wire[p], a)]
  BY DEF Send, a
<1>5. LastIs(Append(wire[p], a), c)
  BY <1>1, <1>3 DEF LastIs
<1> QED BY <1>3, <1>4, <1>5

-----------------------------------------------------------------------------

\* The page has this call under way.
Calling(p, call) == Contains(fromPage[p], call)

ConfigCall == [kind |-> "config"]
FinalCall  == [kind |-> "click", isFinal |-> TRUE]
ReadCall   == [kind |-> "read", isFinal |-> FALSE]

(* The i-th page is still to be brought the configuration: its document has *)
(* not asked yet or is asking, a pass went past it, or one is to come.      *)
Owed(i) ==
  \/ ~asked[pages[i]]
  \/ Calling(pages[i], ConfigCall)
  \/ pages[i] \in skipped
  \/ \E k \in Passes : passes[k] # 0 /\ passes[k] < i

(* Nothing is under way to the page, and its copy is the worker's, but for  *)
(* an arm that a click has taken off and the worker will hear of.           *)
Follows(p) ==
  /\ toPage[p] = <<>>
  /\ doc[p].recording = recording
  /\ doc[p].armedFinal => armedFinal
  /\ doc[p].armedRead => armedRead
  /\ recording /\ armedFinal => doc[p].armedFinal \/ Calling(p, FinalCall)
  /\ recording /\ armedRead => doc[p].armedRead \/ Calling(p, ReadCall)

Told(i) == Owed(i) \/ LastIs(toPage[pages[i]], Current) \/ Follows(pages[i])

Informed == \A i \in DOMAIN pages : Told(i)

(* A page is listed once, under a number given out, and a number not given  *)
(* out is no page's.                                                        *)
PagesNumbered ==
  /\ \A i, j \in DOMAIN pages : pages[i] = pages[j] => i = j
  /\ \A i \in DOMAIN pages : pages[i] <= lastTab
  /\ \A p \in Pages : p > lastTab => ~asked[p]

SettledInv == RecorderTypeOK /\ PagesNumbered /\ Informed

(* A pass that starts sends to the first page and is to come to the others. *)
LEMMA PassStarts ==
  ASSUME RecorderTypeOK, RecorderAssumption, NEW config \in Config, StartPass(config), config = Current',
         pages' = pages
  PROVE  /\ passes' \in [Passes -> Nat]
         /\ toPage' \in [Pages -> Seq(Applied)]
         /\ skipped' \subseteq Pages
         /\ Informed'
<1>1. CASE pages = <<>>
  <2>1. DOMAIN pages' = {} /\ UNCHANGED wires
    BY <1>1 DEF StartPass
  <2> QED BY <2>1 DEF wires, RecorderTypeOK, Informed
<1>2. CASE pages # <<>>
  <2>1. PICK k \in Passes : /\ passes' = [passes EXCEPT ![k] = 1]
                            /\ toPage' = Send(toPage, pages[1], config, k)
                            /\ skipped' = skipped \ {pages[1]}
    BY <1>2 DEF StartPass
  <2>2. pages \in Seq(Pages) /\ pages # <<>> /\ toPage \in [Pages -> Seq(Applied)]
        /\ passes \in [Passes -> Nat] /\ skipped \subseteq Pages
    BY <1>2 DEF RecorderTypeOK
  <2>3. pages[1] \in Pages /\ DOMAIN pages = 1..Len(pages) /\ Len(pages) \in Nat
    BY <2>2
  <2>4. toPage' \in [Pages -> Seq(Applied)] /\ LastIs(toPage'[pages[1]], config)
    BY <2>1, <2>2, <2>3, Sends
  <2>5. passes' \in [Passes -> Nat] /\ passes'[k] = 1
    BY <2>1, <2>2
  <2>6. ASSUME NEW i \in DOMAIN pages
        PROVE  Owed(i)' \/ LastIs(toPage[pages[i]], Current)'
    <3>1. CASE i = 1
      BY <2>4, <3>1 DEF LastIs
    <3>2. CASE 1 < i
      BY <2>5, <3>2 DEF Owed
    <3> QED BY <2>3, <3>1, <3>2
  <2> QED BY <2>1, <2>2, <2>4, <2>5, <2>6 DEF Informed, Told
<1> QED BY <1>1, <1>2

(* A call joins those under way, or the first of them leaves.              *)
LEMMA CallAdded ==
  ASSUME NEW s \in Seq(Call), NEW c \in Call
  PROVE  /\ Append(s, c) \in Seq(Call) /\ Contains(Append(s, c), c)
         /\ \A d : Contains(s, d) => Contains(Append(s, c), d)
<1>1. /\ Append(s, c) \in Seq(Call) /\ Len(Append(s, c)) = Len(s) + 1 /\ Len(s) \in Nat
      /\ \A i \in 1..Len(s) : Append(s, c)[i] = s[i]
      /\ Append(s, c)[Len(s) + 1] = c
  BY AppendProperties
<1> DEFINE t == Append(s, c)
<1> HIDE DEF t
<1>2. Contains(t, c)
  BY <1>1 DEF Contains, t
<1>3. ASSUME NEW d, Contains(s, d) PROVE Contains(t, d)
  BY <1>1, <1>3 DEF Contains, t
<1> QED BY <1>1, <1>2, <1>3 DEF t

LEMMA CallTaken ==
  ASSUME NEW s \in Seq(Call), s # <<>>
  PROVE  /\ Head(s) \in Call /\ Tail(s) \in Seq(Call)
         /\ \A d : Contains(s, d) /\ d # Head(s) => Contains(Tail(s), d)
<1> DEFINE t == Tail(s)
<1>1. /\ Head(s) = s[1] /\ Head(s) \in Call
      /\ t \in Seq(Call) /\ Len(t) = Len(s) - 1 /\ Len(s) \in Nat
      /\ \A i \in 1..Len(t) : t[i] = s[i + 1]
  BY HeadTailProperties
<1> HIDE DEF t
<1>2. ASSUME NEW d, Contains(s, d), d # Head(s)
      PROVE  Contains(t, d)
  <2>1. PICK i \in 1..Len(s) : s[i] = d
    BY <1>2 DEF Contains
  <2>2. i # 1
    BY <1>1, <1>2, <2>1
  <2> DEFINE j == i - 1
  <2>3. j \in 1..Len(t) /\ j + 1 = i
    BY <1>1, <2>2
  <2> HIDE DEF j
  <2>4. t[j] = d
    BY <1>1, <2>1, <2>3
  <2> QED BY <2>3, <2>4 DEF Contains
<1> QED BY <1>1, <1>2 DEF t

(* The pages only report; an armed click they report is as good as the arm. *)
LEMMA PageTold ==
  ASSUME SettledInv, NEW p \in Pages, Click(p) \/ Input(p) \/ Bootstrap(p)
  PROVE  SettledInv'
<1> USE DEF SettledInv
<1>1. UNCHANGED <<sessionSide, wires, fresh, requests, visits>> /\ IsOpen(p)
  BY DEF Click, Input, Bootstrap
<1>2. fromPage \in [Pages -> Seq(Call)] /\ fromPage[p] \in Seq(Call) /\ doc \in [Pages -> Config]
      /\ doc[p] \in Config /\ asked \in [Pages -> BOOLEAN]
  BY DEF RecorderTypeOK
<1>3. PICK n \in DOMAIN pages : pages[n] = p
  BY <1>1 DEF IsOpen
<1>4. ASSUME NEW kind \in PageKinds, NEW isFinal \in BOOLEAN, isFinal => kind = "click",
             Emit(p, kind, isFinal)
      PROVE  /\ fromPage' \in [Pages -> Seq(Call)]
             /\ \A q \in Pages : \A d : Calling(q, d) => Calling(q, d)'
             /\ doc[p].recording => Calling(p, [kind |-> kind, isFinal |-> isFinal])'
  <2> DEFINE c == [kind |-> kind, isFinal |-> isFinal]
             t == Append(fromPage[p], c)
  <2>1. c \in Call
    BY <1>4 DEF Call, PageKinds
  <2> HIDE DEF c
  <2>2. t \in Seq(Call) /\ Contains(t, c) /\ \A d : Contains(fromPage[p], d) => Contains(t, d)
    BY <1>2, <2>1, CallAdded
  <2>3. fromPage' = IF doc[p].recording THEN [fromPage EXCEPT ![p] = t] ELSE fromPage
    BY <1>4 DEF Emit, c
  <2> HIDE DEF t
  <2> QED BY <1>2, <2>2, <2>3 DEF Calling, c
<1>5. /\ fromPage' \in [Pages -> Seq(Call)]
      /\ \A q \in Pages : \A d : Calling(q, d) => Calling(q, d)'
  <2>1. CASE Click(p) \/ Input(p)
    BY <1>4, <2>1 DEF Click, Input, PageKinds
  <2>2. CASE Bootstrap(p)
    <3> DEFINE t == Append(fromPage[p], ConfigCall)
    <3>1. ConfigCall \in Call
      BY DEF Call, ConfigCall
    <3>2. t \in Seq(Call) /\ \A d : Contains(fromPage[p], d) => Contains(t, d)
      BY <1>2, <3>1, CallAdded
    <3>3. fromPage' = [fromPage EXCEPT ![p] = t]
      BY <2>2 DEF Bootstrap, ConfigCall
    <3> HIDE DEF t
    <3> QED BY <1>2, <3>2, <3>3 DEF Calling
  <2> QED BY <2>1, <2>2
<1>6. doc' \in [Pages -> Config] /\ \A q \in Pages \ {p} : doc'[q] = doc[q]
  <2>1. CASE Click(p)
    <3>1. [doc[p] EXCEPT !.armedRead = FALSE] \in Config /\ [doc[p] EXCEPT !.armedFinal = FALSE] \in Config
      BY <1>2 DEF Config
    <3> QED BY <1>2, <2>1, <3>1 DEF Click
  <2>2. CASE Input(p) \/ Bootstrap(p)
    BY <1>2, <2>2 DEF Input, Bootstrap
  <2> QED BY <2>1, <2>2
<1>7. asked' \in [Pages -> BOOLEAN] /\ \A q \in Pages \ {p} : asked'[q] = asked[q]
  BY <1>2 DEF Click, Input, Bootstrap
<1>8. RecorderTypeOK'
  BY <1>1, <1>5, <1>6, <1>7 DEF RecorderTypeOK, sessionSide, wires
<1>9. PagesNumbered'
  <2>1. p <= lastTab /\ lastTab \in Nat /\ \A q \in Pages : q \in Nat
    BY <1>3 DEF PagesNumbered, RecorderTypeOK, Pages, RecorderAssumption
  <2>2. \A q \in Pages : q > lastTab => ~asked'[q]
    BY <1>7, <2>1 DEF PagesNumbered
  <2> QED BY <1>1, <2>2 DEF PagesNumbered, sessionSide
<1>10. Owed(n) => Owed(n)'
  <2>1. CASE Click(p) \/ Input(p)
    BY <1>1, <1>3, <1>5, <2>1 DEF Click, Input, Owed, sessionSide, wires
  <2>2. CASE Bootstrap(p)
    <3>1. Calling(p, ConfigCall)'
      <4>1. ConfigCall \in Call
        BY DEF Call, ConfigCall
      <4>2. fromPage'[p] = Append(fromPage[p], ConfigCall)
        BY <1>2, <2>2 DEF Bootstrap, ConfigCall
      <4> QED BY <1>2, <4>1, <4>2, CallAdded DEF Calling
    <3>2. pages'[n] = p
      BY <1>1, <1>3 DEF sessionSide
    <3> QED BY <3>1, <3>2 DEF Owed
  <2> QED BY <2>1, <2>2
<1>11. Follows(p) => Owed(n)' \/ Follows(p)'
  <2> HAVE Follows(p)
  <2>1. CASE Click(p)
    <3>0. UNCHANGED <<recording, armedFinal, armedRead, toPage>>
      BY <1>1 DEF sessionSide, wires
    <3>1. CASE doc[p].armedRead /\ doc' = [doc EXCEPT ![p].armedRead = FALSE] /\ Emit(p, "read", FALSE)
      <4>1. doc[p].recording => Calling(p, ReadCall)'
        BY <1>4, <3>1 DEF PageKinds, ReadCall
      <4>2. doc'[p] = [doc[p] EXCEPT !.armedRead = FALSE]
        BY <1>2, <3>1
      <4>3. doc'[p].recording = doc[p].recording /\ doc'[p].armedFinal = doc[p].armedFinal
            /\ doc'[p].armedRead = FALSE
        BY <1>2, <4>2 DEF Config
      <4> QED BY <1>5, <3>0, <4>1, <4>3 DEF Follows
    <3>2. CASE doc[p].armedFinal /\ doc' = [doc EXCEPT ![p].armedFinal = FALSE] /\ Emit(p, "click", TRUE)
      <4>1. doc[p].recording => Calling(p, FinalCall)'
        BY <1>4, <3>2 DEF PageKinds, FinalCall
      <4>2. doc'[p] = [doc[p] EXCEPT !.armedFinal = FALSE]
        BY <1>2, <3>2
      <4>3. doc'[p].recording = doc[p].recording /\ doc'[p].armedRead = doc[p].armedRead
            /\ doc'[p].armedFinal = FALSE
        BY <1>2, <4>2 DEF Config
      <4> QED BY <1>5, <3>0, <4>1, <4>3 DEF Follows
    <3>3. CASE doc' = doc
      BY <1>5, <3>0, <3>3 DEF Follows
    <3> QED BY <2>1, <3>1, <3>2, <3>3 DEF Click
  <2>2. CASE Input(p) \/ Bootstrap(p)
    BY <1>1, <1>5, <2>2 DEF Input, Bootstrap, Follows, sessionSide, wires
  <2> QED BY <2>1, <2>2
<1>12. LastIs(toPage[p], Current) => LastIs(toPage[p], Current)'
  BY <1>1 DEF LastIs, Current, sessionSide, wires
<1>13. ASSUME NEW i \in DOMAIN pages
       PROVE  Told(i)'
  <2>1. Told(i)
    BY DEF Informed, Told
  <2>2. pages' = pages /\ pages[i] \in Pages
    BY <1>1 DEF sessionSide, RecorderTypeOK
  <2>3. CASE i = n
    BY <1>3, <1>10, <1>11, <1>12, <2>1, <2>2, <2>3 DEF Told
  <2>4. CASE i # n
    <3>1. pages[i] # p
      BY <1>3, <2>4 DEF PagesNumbered
    <3> DEFINE q == pages[i]
    <3>2. UNCHANGED <<doc[q], asked[q]>> /\ q \in Pages /\ \A d : Calling(q, d) => Calling(q, d)'
      BY <1>5, <1>6, <1>7, <2>2, <3>1
    <3>3. Owed(i) => Owed(i)'
      BY <1>1, <2>2, <3>2 DEF Owed, wires
    <3>4. Follows(q) => Follows(q)'
      BY <1>1, <3>2 DEF Follows, sessionSide, wires
    <3>5. LastIs(toPage[q], Current) => LastIs(toPage[q], Current)'
      BY <1>1 DEF LastIs, Current, sessionSide, wires
    <3> QED BY <2>1, <2>2, <3>3, <3>4, <3>5 DEF Told
  <2> QED BY <2>3, <2>4
<1>14. Informed'
  BY <1>1, <1>13 DEF Informed, Told, sessionSide
<1> QED BY <1>8, <1>9, <1>14

LEMMA SameConfig ==
  ASSUME NEW c \in Config, NEW d \in Config,
         c.recording = d.recording, c.armedFinal = d.armedFinal, c.armedRead = d.armedRead
  PROVE  c = d
BY DEF Config

(* The configuration with one thing, or two, made otherwise.                *)
LEMMA Becomes ==
  ASSUME {recording, armedFinal, armedRead} \subseteq BOOLEAN, NEW v \in BOOLEAN,
         {recording', armedFinal', armedRead'} \subseteq BOOLEAN
  PROVE  /\ recording' = v /\ UNCHANGED <<armedFinal, armedRead>> =>
              [Current EXCEPT !.recording = v] = Current'
         /\ armedFinal' = v /\ UNCHANGED <<recording, armedRead>> =>
              [Current EXCEPT !.armedFinal = v] = Current'
         /\ armedRead' = v /\ UNCHANGED <<recording, armedFinal>> =>
              [Current EXCEPT !.armedRead = v] = Current'
         /\ recording' = v /\ armedFinal' = v /\ UNCHANGED armedRead =>
              [Current EXCEPT !.recording = v, !.armedFinal = v] = Current'
         /\ armedFinal' = v /\ armedRead' = v /\ UNCHANGED recording =>
              [Current EXCEPT !.armedFinal = v, !.armedRead = v] = Current'
         /\ Current' \in Config
<1> DEFINE c == Current
           d == Current'
<1>1. /\ c \in Config /\ c.recording = recording /\ c.armedFinal = armedFinal
      /\ c.armedRead = armedRead
  BY DEF Current, Config
<1>2. /\ d \in Config /\ d.recording = recording' /\ d.armedFinal = armedFinal'
      /\ d.armedRead = armedRead'
  BY DEF Current, Config
<1> HIDE DEF c, d
<1>3. ASSUME recording' = v, UNCHANGED <<armedFinal, armedRead>>
      PROVE  [c EXCEPT !.recording = v] = d
  <2> DEFINE e == [c EXCEPT !.recording = v]
  <2>1. e \in Config /\ e.recording = v /\ e.armedFinal = c.armedFinal /\ e.armedRead = c.armedRead
    BY <1>1 DEF Config
  <2> HIDE DEF e
  <2>2. e.recording = d.recording /\ e.armedFinal = d.armedFinal /\ e.armedRead = d.armedRead
    BY <1>1, <1>2, <1>3, <2>1
  <2>3. e = d
    BY <1>2, <2>1, <2>2, SameConfig
  <2> QED BY <2>3 DEF e
<1>4. ASSUME armedFinal' = v, UNCHANGED <<recording, armedRead>>
      PROVE  [c EXCEPT !.armedFinal = v] = d
  <2> DEFINE e == [c EXCEPT !.armedFinal = v]
  <2>1. e \in Config /\ e.recording = c.recording /\ e.armedFinal = v /\ e.armedRead = c.armedRead
    BY <1>1 DEF Config
  <2> HIDE DEF e
  <2>2. e.recording = d.recording /\ e.armedFinal = d.armedFinal /\ e.armedRead = d.armedRead
    BY <1>1, <1>2, <1>4, <2>1
  <2>3. e = d
    BY <1>2, <2>1, <2>2, SameConfig
  <2> QED BY <2>3 DEF e
<1>5. ASSUME armedRead' = v, UNCHANGED <<recording, armedFinal>>
      PROVE  [c EXCEPT !.armedRead = v] = d
  <2> DEFINE e == [c EXCEPT !.armedRead = v]
  <2>1. e \in Config /\ e.recording = c.recording /\ e.armedFinal = c.armedFinal /\ e.armedRead = v
    BY <1>1 DEF Config
  <2> HIDE DEF e
  <2>2. e.recording = d.recording /\ e.armedFinal = d.armedFinal /\ e.armedRead = d.armedRead
    BY <1>1, <1>2, <1>5, <2>1
  <2>3. e = d
    BY <1>2, <2>1, <2>2, SameConfig
  <2> QED BY <2>3 DEF e
<1>6. ASSUME recording' = v, armedFinal' = v, UNCHANGED armedRead
      PROVE  [c EXCEPT !.recording = v, !.armedFinal = v] = d
  <2> DEFINE e == [c EXCEPT !.recording = v, !.armedFinal = v]
  <2>1. e \in Config /\ e.recording = v /\ e.armedFinal = v /\ e.armedRead = c.armedRead
    BY <1>1 DEF Config
  <2> HIDE DEF e
  <2>2. e.recording = d.recording /\ e.armedFinal = d.armedFinal /\ e.armedRead = d.armedRead
    BY <1>1, <1>2, <1>6, <2>1
  <2>3. e = d
    BY <1>2, <2>1, <2>2, SameConfig
  <2> QED BY <2>3 DEF e
<1>7. ASSUME armedFinal' = v, armedRead' = v, UNCHANGED recording
      PROVE  [c EXCEPT !.armedFinal = v, !.armedRead = v] = d
  <2> DEFINE e == [c EXCEPT !.armedFinal = v, !.armedRead = v]
  <2>1. e \in Config /\ e.recording = c.recording /\ e.armedFinal = v /\ e.armedRead = v
    BY <1>1 DEF Config
  <2> HIDE DEF e
  <2>2. e.recording = d.recording /\ e.armedFinal = d.armedFinal /\ e.armedRead = d.armedRead
    BY <1>1, <1>2, <1>7, <2>1
  <2>3. e = d
    BY <1>2, <2>1, <2>2, SameConfig
  <2> QED BY <2>3 DEF e
<1> QED BY <1>2, <1>3, <1>4, <1>5, <1>6, <1>7 DEF c, d

(* Nothing that matters to the pages changes.                               *)
LEMMA Unconcerned ==
  ASSUME SettledInv, actions' \in Seq(Action), active' \in Pages, requests' \in Nat,
         UNCHANGED <<recording, armedFinal, armedRead, pages, lastTab, wires, doc, asked,
                     fresh, fromPage, visits>>
  PROVE  SettledInv'
<1>1. RecorderTypeOK'
  BY DEF SettledInv, RecorderTypeOK, wires
<1>2. PagesNumbered'
  BY DEF SettledInv, PagesNumbered
<1>3. Informed'
  BY DEF SettledInv, Informed, Told, Owed, Follows, LastIs, Current, Calling, wires
<1> QED BY <1>1, <1>2, <1>3 DEF SettledInv

(* A pass started with the configuration as it has become.                  *)
LEMMA ToldByPass ==
  ASSUME SettledInv, actions' \in Seq(Action), requests' \in Nat,
         {recording', armedFinal', armedRead'} \subseteq BOOLEAN,
         NEW config \in Config, StartPass(config), config = Current',
         fromPage' \in [Pages -> Seq(Call)],
         UNCHANGED <<pages, active, lastTab, doc, asked, fresh, visits>>
  PROVE  SettledInv'
<1>1. RecorderTypeOK
  BY DEF SettledInv
<1>2. /\ passes' \in [Passes -> Nat]
      /\ toPage' \in [Pages -> Seq(Applied)]
      /\ skipped' \subseteq Pages
      /\ Informed'
  BY <1>1, RecorderAssumption, PassStarts
<1>3. RecorderTypeOK'
  BY <1>1, <1>2 DEF RecorderTypeOK
<1>4. PagesNumbered'
  BY DEF SettledInv, PagesNumbered
<1> QED BY <1>2, <1>3, <1>4 DEF SettledInv

(* A read or a closing action that disarms is followed by a pass; any other *)
(* call leaves nothing to be told.                                          *)
LEMMA EmittedTold ==
  ASSUME SettledInv, actions' \in Seq(Action), NEW p \in Pages, HandleEmitted(p)
  PROVE  SettledInv'
<1> DEFINE call == Head(fromPage[p])
<1>1. /\ fromPage \in [Pages -> Seq(Call)] /\ fromPage[p] \in Seq(Call) /\ fromPage[p] # <<>>
      /\ {recording, armedFinal, armedRead} \subseteq BOOLEAN /\ requests \in Nat
      /\ active \in Pages
  BY DEF SettledInv, RecorderTypeOK, HandleEmitted
<1>2. /\ call \in Call /\ Tail(fromPage[p]) \in Seq(Call)
      /\ \A d : Contains(fromPage[p], d) /\ d # call => Contains(Tail(fromPage[p]), d)
  BY <1>1, CallTaken
<1>3. /\ fromPage' = [fromPage EXCEPT ![p] = Tail(fromPage[p])]
      /\ call.kind # "config"
      /\ UNCHANGED <<pages, active, lastTab, doc, asked, fresh, requests, visits>>
  BY DEF HandleEmitted
<1>4. fromPage' \in [Pages -> Seq(Call)]
  BY <1>1, <1>2, <1>3
<1>5. \A q \in Pages : \A d : Calling(q, d) /\ (q = p => d # call) => Calling(q, d)'
  BY <1>1, <1>2, <1>3 DEF Calling
<1> HIDE DEF call
<1>6. CASE recording /\ call.isFinal /\ PushReported(call)
           /\ StartPass([Current EXCEPT !.recording = FALSE, !.armedFinal = FALSE])
           /\ recording' = FALSE /\ armedFinal' = FALSE /\ UNCHANGED armedRead
  <2> DEFINE config == [Current EXCEPT !.recording = FALSE, !.armedFinal = FALSE]
  <2>1. config = Current' /\ config \in Config
    BY <1>1, <1>6, Becomes
  <2>2. StartPass(config) /\ {recording', armedFinal', armedRead'} \subseteq BOOLEAN
    BY <1>1, <1>6
  <2> HIDE DEF config
  <2> QED BY <1>1, <1>3, <1>4, <2>1, <2>2, ToldByPass
<1>7. CASE armedRead' = FALSE /\ UNCHANGED <<recording, armedFinal>>
           /\ StartPass([Current EXCEPT !.armedRead = FALSE])
  <2> DEFINE config == [Current EXCEPT !.armedRead = FALSE]
  <2>1. config = Current' /\ config \in Config
    BY <1>1, <1>7, Becomes
  <2>2. StartPass(config) /\ {recording', armedFinal', armedRead'} \subseteq BOOLEAN
    BY <1>1, <1>7
  <2> HIDE DEF config
  <2> QED BY <1>1, <1>3, <1>4, <2>1, <2>2, ToldByPass
<1>8. CASE /\ UNCHANGED <<recording, armedFinal, armedRead, wires>>
           /\ recording => ~call.isFinal /\ ~(call.kind = "read" /\ armedRead)
  <2>1. RecorderTypeOK'
    BY <1>3, <1>4, <1>8 DEF SettledInv, RecorderTypeOK, wires
  <2>2. PagesNumbered'
    BY <1>3 DEF SettledInv, PagesNumbered
  <2>3. /\ call # ConfigCall
        /\ recording => call # FinalCall
        /\ recording /\ armedRead => call # ReadCall
    BY <1>3, <1>8 DEF ConfigCall, FinalCall, ReadCall
  <2>4. ASSUME NEW i \in DOMAIN pages
        PROVE  Told(i)'
    <3> DEFINE q == pages[i]
    <3>1. q \in Pages /\ pages' = pages
      BY <1>3 DEF SettledInv, RecorderTypeOK
    <3>2. Told(i)
      BY DEF SettledInv, Informed, Told
    <3>3. Owed(i) => Owed(i)'
      BY <1>3, <1>5, <1>8, <2>3, <3>1 DEF Owed, wires
    <3>4. Follows(q) => Follows(q)'
      BY <1>3, <1>5, <1>8, <2>3, <3>1 DEF Follows, wires
    <3>5. LastIs(toPage[q], Current) => LastIs(toPage[q], Current)'
      <4>1. Current' = Current
        BY <1>8 DEF Current
      <4> QED BY <1>8, <4>1, <3>1 DEF LastIs, wires
    <3> QED BY <3>1, <3>2, <3>3, <3>4, <3>5 DEF Told
  <2>5. Informed'
    BY <1>3, <2>4 DEF Informed, Told
  <2> QED BY <2>1, <2>2, <2>5 DEF SettledInv
<1>9. \/ recording /\ PushReported(call)
      \/ ~recording /\ UNCHANGED <<recording, armedFinal, armedRead, wires>>
  BY DEF HandleEmitted, call
<1> QED BY <1>6, <1>7, <1>8, <1>9 DEF PushReported

(* A page that asked, or whose document was read, is sent what is current.  *)
LEMMA AnsweredTold ==
  ASSUME SettledInv, NEW p \in Pages, AnswerConfig(p) \/ ConfigureRead(p)
  PROVE  SettledInv'
<1>1. /\ fromPage \in [Pages -> Seq(Call)] /\ fromPage[p] \in Seq(Call)
      /\ toPage \in [Pages -> Seq(Applied)] /\ Current \in Config /\ fresh \subseteq Pages
  BY DEF SettledInv, RecorderTypeOK, Current, Config
<1>2. /\ toPage' = Send(toPage, p, Current, NoPass)
      /\ UNCHANGED <<sessionSide, passes, skipped, doc, asked, requests, visits>>
      /\ fresh' \subseteq Pages
  BY <1>1 DEF AnswerConfig, ConfigureRead, pageSide
<1>3. UNCHANGED <<recording, armedFinal, armedRead, actions, pages, active, lastTab>> /\ Current' = Current
  BY <1>2 DEF sessionSide, Current
<1>4. /\ toPage' \in [Pages -> Seq(Applied)]
      /\ LastIs(toPage'[p], Current)
      /\ \A q \in Pages \ {p} : toPage'[q] = toPage[q]
  <2>1. PICK c \in Config, k \in Passes \cup {NoPass} :
           c = Current /\ toPage' = Send(toPage, p, c, k)
    BY <1>1, <1>2
  <2>2. toPage \in [Pages -> Seq(Applied)]
    BY <1>1
  <2> QED BY <2>1, <2>2, Sends
<1>5. fromPage' \in [Pages -> Seq(Call)] /\ \A q \in Pages \ {p} : fromPage'[q] = fromPage[q]
  <2>1. CASE AnswerConfig(p)
    <3>1. Tail(fromPage[p]) \in Seq(Call) /\ fromPage' = [fromPage EXCEPT ![p] = Tail(fromPage[p])]
      BY <1>1, <2>1, CallTaken DEF AnswerConfig
    <3> QED BY <1>1, <3>1
  <2>2. CASE ConfigureRead(p)
    BY <1>1, <2>2 DEF ConfigureRead, pageSide
  <2> QED BY <2>1, <2>2
<1>6. RecorderTypeOK'
  BY <1>2, <1>3, <1>4, <1>5 DEF SettledInv, RecorderTypeOK
<1>7. PagesNumbered'
  BY <1>2, <1>3 DEF SettledInv, PagesNumbered
<1>8. ASSUME NEW i \in DOMAIN pages
      PROVE  Told(i)'
  <2>1. pages[i] \in Pages /\ Told(i)
    BY DEF SettledInv, RecorderTypeOK, Informed, Told
  <2>2. CASE pages[i] = p
    BY <1>3, <1>4, <2>2 DEF Told, LastIs
  <2>3. CASE pages[i] # p
    BY <1>2, <1>3, <1>4, <1>5, <2>1, <2>3 DEF Told, Owed, Follows, LastIs, Calling
  <2> QED BY <2>2, <2>3
<1>9. Informed'
  BY <1>3, <1>8 DEF Informed, Told
<1> QED BY <1>6, <1>7, <1>9 DEF SettledInv

(* The passes in K go on over the pages: a page they were to come to still  *)
(* is to be told, or has been sent what is current.                         *)
LEMMA WalkedOn ==
  ASSUME SettledInv, NEW K \in SUBSET Passes, IsFiniteSet(K),
         NEW wire \in [Pages -> Seq(Applied)], \A q \in Pages : Len(wire[q]) <= Len(toPage[q]),
         Advance(K, pages, wire),
         skipped' = skipped \ {q \in Pages : Len(toPage'[q]) > Len(toPage[q])},
         UNCHANGED <<recording, armedFinal, armedRead, pages>>
  PROVE  /\ passes' \in [Passes -> Nat]
         /\ toPage' \in [Pages -> Seq(Applied)]
         /\ skipped' \subseteq Pages
         /\ \A q \in Pages : toPage'[q] = wire[q] \/ LastIs(toPage'[q], Current')
         /\ \A i \in DOMAIN pages :
              /\ pages[i] \in skipped => pages[i] \in skipped' \/ LastIs(toPage'[pages[i]], Current')
              /\ (\E k \in Passes : passes[k] # 0 /\ passes[k] < i)
                   => \/ \E k \in Passes : passes'[k] # 0 /\ passes'[k] < i
                      \/ LastIs(toPage'[pages[i]], Current')
<1>1. /\ RecorderTypeOK /\ pages \in Seq(Pages) /\ toPage \in [Pages -> Seq(Applied)]
      /\ skipped \subseteq Pages
  BY DEF SettledInv, RecorderTypeOK
<1>2. Current' = Current
  BY DEF Current
<1> DEFINE open == pages
<1>3. open \in Seq(Pages) /\ Advance(K, open, wire)
  BY <1>1
<1> HIDE DEF open
<1>4. /\ passes' \in [Passes -> Nat]
      /\ toPage' \in [Pages -> Seq(Applied)]
      /\ \A q \in Pages :
           /\ Len(toPage'[q]) >= Len(wire[q])
           /\ toPage'[q] = wire[q] \/ (LastIs(toPage'[q], Current) /\ Len(toPage'[q]) > Len(wire[q]))
      /\ \A i \in DOMAIN open : \A k \in Passes :
           passes[k] # 0 /\ passes[k] < i =>
             (passes'[k] # 0 /\ passes'[k] < i) \/ LastIs(toPage'[open[i]], Current)
  BY <1>1, <1>3, Advanced
<1>5. skipped' \subseteq Pages
  BY <1>1
<1>6. ASSUME NEW q \in Pages, q \in skipped, q \notin skipped'
      PROVE  LastIs(toPage'[q], Current')
  <2>1. Len(toPage'[q]) > Len(toPage[q])
    BY <1>6
  <2>2. toPage'[q] # wire[q]
    <3>1. Len(wire[q]) <= Len(toPage[q]) /\ Len(wire[q]) \in Nat /\ Len(toPage[q]) \in Nat
      BY <1>1
    <3> QED BY <2>1, <3>1
  <2> QED BY <1>2, <1>4, <2>2
<1>7. \A q \in Pages : toPage'[q] = wire[q] \/ LastIs(toPage'[q], Current')
  BY <1>2, <1>4
<1>8. ASSUME NEW i \in DOMAIN pages, NEW k \in Passes, passes[k] # 0, passes[k] < i
      PROVE  \/ \E j \in Passes : passes'[j] # 0 /\ passes'[j] < i
             \/ LastIs(toPage'[pages[i]], Current')
  BY <1>2, <1>4, <1>8 DEF open
<1>9. \A i \in DOMAIN pages : pages[i] \in Pages
  BY <1>1
<1> QED BY <1>4, <1>5, <1>6, <1>7, <1>8, <1>9

(* Then a page none of whose own was touched has still been told.           *)
LEMMA OthersTold ==
  ASSUME NEW i \in DOMAIN pages, pages[i] \in Pages, Told(i),
         pages' = pages, UNCHANGED <<recording, armedFinal, armedRead>>,
         doc'[pages[i]] = doc[pages[i]], asked'[pages[i]] = asked[pages[i]],
         fromPage'[pages[i]] = fromPage[pages[i]],
         toPage'[pages[i]] = toPage[pages[i]] \/ LastIs(toPage'[pages[i]], Current'),
         pages[i] \in skipped => pages[i] \in skipped' \/ LastIs(toPage'[pages[i]], Current'),
         (\E k \in Passes : passes[k] # 0 /\ passes[k] < i)
            => \/ \E k \in Passes : passes'[k] # 0 /\ passes'[k] < i
               \/ LastIs(toPage'[pages[i]], Current')
  PROVE  Told(i)'
<1>1. Current' = Current
  BY DEF Current
<1>2. Owed(i) => Owed(i)' \/ LastIs(toPage'[pages[i]], Current')
  BY DEF Owed, Calling
<1>3. CASE LastIs(toPage'[pages[i]], Current')
  BY <1>3 DEF Told, LastIs
<1>4. CASE toPage'[pages[i]] = toPage[pages[i]]
  <2>1. Follows(pages[i]) => Follows(pages[i])'
    BY <1>4 DEF Follows, Calling
  <2>2. LastIs(toPage[pages[i]], Current) => LastIs(toPage'[pages[i]], Current')
    BY <1>1, <1>4
  <2> QED BY <1>2, <1>3, <2>1, <2>2 DEF Told
<1> QED BY <1>3, <1>4

(* What reaches a page last is what is current, unless more is to come.     *)
LEMMA DeliveredTold ==
  ASSUME SettledInv, NEW p \in Pages, DeliverConfig(p)
  PROVE  SettledInv'
<1> DEFINE a == Head(toPage[p])
           wire == [toPage EXCEPT ![p] = Tail(@)]
           K == {a.pass} \ {NoPass}
<1>1. /\ toPage \in [Pages -> Seq(Applied)] /\ toPage[p] \in Seq(Applied) /\ toPage[p] # <<>>
      /\ pages \in Seq(Pages) /\ doc \in [Pages -> Config]
  BY DEF SettledInv, RecorderTypeOK, DeliverConfig
<1>2. /\ a = toPage[p][1] /\ a \in Applied /\ Tail(toPage[p]) \in Seq(Applied)
      /\ Len(Tail(toPage[p])) = Len(toPage[p]) - 1 /\ Len(toPage[p]) \in Nat
      /\ \A n \in 1..Len(Tail(toPage[p])) : Tail(toPage[p])[n] = toPage[p][n + 1]
  BY <1>1, HeadTailProperties
<1>3. /\ wire \in [Pages -> Seq(Applied)] /\ wire[p] = Tail(toPage[p])
      /\ \A q \in Pages \ {p} : wire[q] = toPage[q]
  BY <1>1, <1>2
<1>4. \A q \in Pages : Len(wire[q]) <= Len(toPage[q])
  BY <1>1, <1>2, <1>3
<1>5. K \in SUBSET Passes /\ IsFiniteSet(K)
  <2>1. a.pass \in Passes \cup {NoPass}
    BY <1>2 DEF Applied
  <2>2. IsFiniteSet({a.pass})
    BY FS_Singleton
  <2> QED BY <2>1, <2>2, FS_Subset
<1>6. /\ Advance(K, pages, wire)
      /\ skipped' = skipped \ {q \in Pages : Len(toPage'[q]) > Len(toPage[q])}
      /\ UNCHANGED <<recording, armedFinal, armedRead, actions, pages, active, lastTab,
                     asked, fresh, fromPage, requests, visits>>
      /\ doc' = [doc EXCEPT ![p] = a.config]
  BY DEF DeliverConfig, Apply, sessionSide
<1>7. a.config \in Config
  BY <1>2 DEF Applied
<1> HIDE DEF a, wire, K
<1>8. /\ passes' \in [Passes -> Nat]
      /\ toPage' \in [Pages -> Seq(Applied)]
      /\ skipped' \subseteq Pages
      /\ \A q \in Pages : toPage'[q] = wire[q] \/ LastIs(toPage'[q], Current')
      /\ \A i \in DOMAIN pages :
           /\ pages[i] \in skipped => pages[i] \in skipped' \/ LastIs(toPage'[pages[i]], Current')
           /\ (\E k \in Passes : passes[k] # 0 /\ passes[k] < i)
                => \/ \E k \in Passes : passes'[k] # 0 /\ passes'[k] < i
                   \/ LastIs(toPage'[pages[i]], Current')
  BY <1>3, <1>4, <1>5, <1>6, WalkedOn
<1>9. doc' \in [Pages -> Config] /\ doc'[p] = a.config /\ \A q \in Pages \ {p} : doc'[q] = doc[q]
  BY <1>1, <1>6, <1>7
<1>10. RecorderTypeOK'
  BY <1>6, <1>8, <1>9 DEF SettledInv, RecorderTypeOK
<1>11. PagesNumbered'
  BY <1>6 DEF SettledInv, PagesNumbered
<1>12. ASSUME NEW i \in DOMAIN pages
       PROVE  Told(i)'
  <2>1. pages[i] \in Pages /\ Told(i)
    BY <1>1 DEF SettledInv, Informed, Told
  <2>2. CASE pages[i] # p
    BY <1>3, <1>6, <1>8, <1>9, <2>1, <2>2, OthersTold
  <2>3. CASE pages[i] = p
    <3>1. CASE LastIs(toPage'[p], Current')
      BY <1>6, <2>3, <3>1 DEF Told, LastIs
    <3>2. CASE toPage'[p] = wire[p] /\ LastIs(toPage[p], Current)
      <4>1. Current' = Current
        BY <1>6 DEF Current
      <4> DEFINE w == toPage[p]
                 rest == Tail(toPage[p])
      <4>4. /\ rest \in Seq(Applied) /\ Len(rest) = Len(w) - 1 /\ Len(w) \in Nat
            /\ \A n \in 1..Len(rest) : rest[n] = w[n + 1]
        BY <1>2
      <4> HIDE DEF w, rest
      <4>2. CASE rest = <<>>
        <5>1. Len(w) = 1
          BY <4>2, <4>4
        <5>2. a.config = Current
          BY <1>2, <3>2, <5>1 DEF LastIs, w
        <5>3. doc'[p] = Current' /\ toPage'[p] = <<>>
          BY <1>3, <1>9, <3>2, <4>1, <4>2, <5>2 DEF rest
        <5>4. Follows(p)'
          BY <5>3 DEF Follows, Current
        <5> QED BY <1>6, <2>3, <5>4 DEF Told
      <4>3. CASE rest # <<>>
        <5>1. Len(rest) \in Nat /\ Len(rest) # 0
          BY <4>3, <4>4
        <5>2. rest[Len(rest)] = w[Len(w)]
          BY <4>4, <5>1
        <5>3. LastIs(toPage'[p], Current')
          BY <1>3, <3>2, <4>1, <4>3, <5>2 DEF LastIs, w, rest
        <5> QED BY <3>1, <5>3
      <4> QED BY <4>2, <4>3
    <3>3. CASE Owed(i)
      BY <1>6, <1>8, <2>3, <3>1, <3>3 DEF Owed, Calling, Told
    <3>4. ~Follows(p)
      BY <1>1 DEF Follows
    <3> QED BY <1>8, <2>1, <2>3, <3>1, <3>2, <3>3, <3>4 DEF Told
  <2> QED BY <2>2, <2>3
<1>13. Informed'
  BY <1>6, <1>12 DEF Informed, Told
<1> QED BY <1>10, <1>11, <1>13 DEF SettledInv

(* A new document asks for the configuration itself.                        *)
LEMMA NavigatedTold ==
  ASSUME SettledInv, NEW p \in Pages, NEW byUser, Navigated(p, byUser),
         actions' \in Seq(Action), fresh' \subseteq Pages
  PROVE  SettledInv'
<1> DEFINE wire == [toPage EXCEPT ![p] = <<>>]
           K == Awaiting(p)
<1>1. /\ toPage \in [Pages -> Seq(Applied)] /\ RecorderTypeOK
      /\ pages \in Seq(Pages) /\ doc \in [Pages -> Config] /\ asked \in [Pages -> BOOLEAN]
      /\ visits \in Nat
  BY DEF SettledInv, RecorderTypeOK
<1>2. K \in SUBSET Passes /\ IsFiniteSet(K)
  BY <1>1, FewAwait
<1>3. /\ wire \in [Pages -> Seq(Applied)] /\ wire[p] = <<>>
      /\ \A q \in Pages \ {p} : wire[q] = toPage[q]
  <2>1. <<>> \in Seq(Applied)
    OBVIOUS
  <2> QED BY <1>1, <2>1
<1>4. \A q \in Pages : Len(wire[q]) <= Len(toPage[q])
  <2> TAKE q \in Pages
  <2>1. Len(toPage[q]) \in Nat
    BY <1>1
  <2>2. CASE q = p
    <3>1. Len(wire[q]) = 0
      BY <1>3, <2>2
    <3> QED BY <2>1, <3>1
  <2>3. CASE q # p
    BY <1>3, <2>1, <2>3
  <2> QED BY <2>2, <2>3
<1>5. /\ Advance(K, pages, wire)
      /\ skipped' = skipped \ {q \in Pages : Len(toPage'[q]) > Len(toPage[q])}
      /\ UNCHANGED <<recording, armedFinal, armedRead, pages, active, lastTab, fromPage, requests>>
      /\ doc' = [doc EXCEPT ![p] = AllOff]
      /\ asked' = [asked EXCEPT ![p] = FALSE]
      /\ visits' = visits + 1
  BY DEF Navigated
<1> HIDE DEF wire, K
<1>6. /\ passes' \in [Passes -> Nat]
      /\ toPage' \in [Pages -> Seq(Applied)]
      /\ skipped' \subseteq Pages
      /\ \A q \in Pages : toPage'[q] = wire[q] \/ LastIs(toPage'[q], Current')
      /\ \A i \in DOMAIN pages :
           /\ pages[i] \in skipped => pages[i] \in skipped' \/ LastIs(toPage'[pages[i]], Current')
           /\ (\E k \in Passes : passes[k] # 0 /\ passes[k] < i)
                => \/ \E k \in Passes : passes'[k] # 0 /\ passes'[k] < i
                   \/ LastIs(toPage'[pages[i]], Current')
  BY <1>2, <1>3, <1>4, <1>5, WalkedOn
<1>7. /\ doc' \in [Pages -> Config] /\ \A q \in Pages \ {p} : doc'[q] = doc[q]
      /\ asked' \in [Pages -> BOOLEAN] /\ ~asked'[p] /\ \A q \in Pages \ {p} : asked'[q] = asked[q]
  BY <1>1, <1>5 DEF AllOff, Config
<1>8. RecorderTypeOK'
  BY <1>1, <1>5, <1>6, <1>7 DEF RecorderTypeOK
<1>9. PagesNumbered'
  BY <1>5, <1>7 DEF SettledInv, PagesNumbered
<1>10. ASSUME NEW i \in DOMAIN pages
       PROVE  Told(i)'
  <2>1. pages[i] \in Pages /\ Told(i)
    BY <1>1 DEF SettledInv, Informed, Told
  <2>2. CASE pages[i] # p
    BY <1>3, <1>5, <1>6, <1>7, <2>1, <2>2, OthersTold
  <2>3. CASE pages[i] = p
    BY <1>5, <1>7, <2>3 DEF Told, Owed
  <2> QED BY <2>2, <2>3
<1>11. Informed'
  BY <1>5, <1>10 DEF Informed, Told
<1> QED BY <1>8, <1>9, <1>11 DEF SettledInv

(* A new tab has asked for nothing yet.                                     *)
LEMMA TrackedTold ==
  ASSUME SettledInv, TrackPage, actions' \in Seq(Action)
  PROVE  SettledInv'
<1> DEFINE t == lastTab + 1
<1>1. /\ pages \in Seq(Pages) /\ lastTab \in Pages /\ asked \in [Pages -> BOOLEAN] /\ visits \in Nat
      /\ fresh \subseteq Pages /\ RecorderTypeOK
  BY DEF SettledInv, RecorderTypeOK
<1>2. /\ lastTab < MaxTabs /\ lastTab' = t /\ pages' = Append(pages, t) /\ active' = t
      /\ fresh' = fresh \cup {t} /\ visits' = visits + 1
      /\ UNCHANGED <<recording, armedFinal, armedRead, wires, doc, asked, fromPage, requests>>
  BY DEF TrackPage
<1>3. t \in Pages /\ t > lastTab /\ lastTab \in Nat /\ \A q \in Pages : q \in Nat
  BY <1>1, <1>2, RecorderAssumption DEF Pages
<1> HIDE DEF t
<1>4. /\ Append(pages, t) \in Seq(Pages) /\ Len(pages) \in Nat
      /\ Len(Append(pages, t)) = Len(pages) + 1
      /\ \A i \in 1..Len(pages) : Append(pages, t)[i] = pages[i]
      /\ Append(pages, t)[Len(pages) + 1] = t
  BY <1>1, <1>3, AppendProperties
<1>5. /\ pages' \in Seq(Pages) /\ DOMAIN pages' = 1..Len(pages) + 1 /\ DOMAIN pages = 1..Len(pages)
      /\ \A i \in DOMAIN pages : pages'[i] = pages[i]
      /\ pages'[Len(pages) + 1] = t
  BY <1>1, <1>2, <1>4
<1>6. RecorderTypeOK'
  <2>1. fresh' \subseteq Pages /\ visits' \in Nat
    BY <1>1, <1>2, <1>3
  <2> QED BY <1>1, <1>2, <1>3, <1>5, <2>1 DEF RecorderTypeOK, wires
<1>7. PagesNumbered'
  <2>1. \A i \in DOMAIN pages : pages[i] <= lastTab /\ pages[i] \in Nat /\ pages[i] # t
    <3> TAKE i \in DOMAIN pages
    <3>1. pages[i] \in Pages
      BY <1>1
    <3>2. pages[i] <= lastTab
      BY DEF SettledInv, PagesNumbered
    <3> QED BY <1>3, <3>1, <3>2
  <2>2. \A i \in DOMAIN pages' : i \in DOMAIN pages \/ i = Len(pages) + 1
    BY <1>4, <1>5
  <2>3. \A i, j \in DOMAIN pages' : pages'[i] = pages'[j] => i = j
    BY <1>5, <2>1, <2>2 DEF SettledInv, PagesNumbered
  <2>4. \A i \in DOMAIN pages' : pages'[i] <= lastTab'
    BY <1>2, <1>3, <1>5, <2>1, <2>2
  <2>5. \A q \in Pages : q > t => ~asked[q]
    BY <1>3 DEF SettledInv, PagesNumbered
  <2> QED BY <1>2, <2>3, <2>4, <2>5 DEF PagesNumbered
<1>8. ~asked[t]
  BY <1>3 DEF SettledInv, PagesNumbered
<1>9. ASSUME NEW i \in DOMAIN pages'
      PROVE  Told(i)'
  <2>1. CASE i = Len(pages) + 1
    BY <1>2, <1>5, <1>8, <2>1 DEF Told, Owed
  <2>2. CASE i \in DOMAIN pages
    <3>1. Told(i) /\ pages'[i] = pages[i] /\ Current' = Current
      BY <1>2, <1>5, <2>2 DEF SettledInv, Informed, Told, Current
    <3> QED BY <1>2, <3>1 DEF Told, Owed, Follows, LastIs, Calling, wires
  <2> QED BY <1>5, <2>1, <2>2
<1>10. Informed'
  BY <1>9 DEF Informed, Told
<1> QED BY <1>6, <1>7, <1>10 DEF SettledInv

(* The list closes up: a pass that had reached the closed page, or a later  *)
(* one, goes past the page that takes its place, which is then skipped.     *)
LEMMA ClosedTold ==
  ASSUME SettledInv, NEW p \in Pages, Close(p)
  PROVE  SettledInv'
<1> DEFINE c    == CHOOSE j \in DOMAIN pages : pages[j] = p
           old(j) == IF j < c THEN j ELSE j + 1
           left == [j \in 1..(Len(pages) - 1) |-> pages[IF j < c THEN j ELSE j + 1]]
           wire == [toPage EXCEPT ![p] = <<>>]
           K    == Awaiting(p)
           passed == {pages[passes[k] + 1] :
                        k \in {j \in Passes : c <= passes[j] /\ passes[j] < Len(pages)}}
<1>1. /\ toPage \in [Pages -> Seq(Applied)] /\ RecorderTypeOK
      /\ pages \in Seq(Pages) /\ doc \in [Pages -> Config] /\ asked \in [Pages -> BOOLEAN]
      /\ fromPage \in [Pages -> Seq(Call)] /\ passes \in [Passes -> Nat]
      /\ skipped \subseteq Pages /\ fresh \subseteq Pages /\ active \in Pages
  BY DEF SettledInv, RecorderTypeOK
<1>2. /\ DOMAIN pages = 1..Len(pages) /\ Len(pages) \in Nat
      /\ \A j \in DOMAIN pages : pages[j] \in Pages
  BY <1>1
<1>3. c \in DOMAIN pages /\ pages[c] = p
  BY DEF Close, IsOpen
<1>4. /\ pages' = left
      /\ active' = IF active # p THEN active
                   ELSE IF left = <<>> THEN 0 ELSE left[Len(left)]
      /\ Advance(K, left, wire)
      /\ skipped' = (skipped \cup passed) \ ({p} \cup {q \in Pages : Len(toPage'[q]) > Len(toPage[q])})
      /\ fresh' = fresh \ {p}
      /\ fromPage' = [fromPage EXCEPT ![p] = <<>>]
      /\ doc' = [doc EXCEPT ![p] = AllOff]
      /\ asked' = [asked EXCEPT ![p] = FALSE]
      /\ UNCHANGED <<recording, armedFinal, armedRead, actions, lastTab, requests, visits>>
  BY DEF Close
<1>5. K \in SUBSET Passes /\ IsFiniteSet(K)
  BY <1>1, FewAwait
<1>6. /\ wire \in [Pages -> Seq(Applied)] /\ wire[p] = <<>>
      /\ \A q \in Pages \ {p} : wire[q] = toPage[q]
  <2>1. <<>> \in Seq(Applied)
    OBVIOUS
  <2> QED BY <1>1, <2>1
<1> HIDE DEF c, wire, K
<1>7. \A j \in 1..(Len(pages) - 1) : old(j) \in DOMAIN pages /\ old(j) # c
  BY <1>2, <1>3
<1>8. /\ left \in Seq(Pages) /\ Len(left) = Len(pages) - 1 /\ DOMAIN left = 1..(Len(pages) - 1)
      /\ \A j \in DOMAIN left : left[j] = pages[old(j)]
  <2>1. Len(pages) - 1 \in Nat
    BY <1>2, <1>3
  <2>2. \A j \in 1..(Len(pages) - 1) : pages[old(j)] \in Pages
    BY <1>2, <1>7
  <2> QED BY <2>1, <2>2
<1> HIDE DEF left
<1>9. \A j \in DOMAIN left : left[j] \in Pages /\ left[j] # p
  BY <1>2, <1>3, <1>7, <1>8 DEF SettledInv, PagesNumbered
<1>10. /\ passes' \in [Passes -> Nat]
       /\ toPage' \in [Pages -> Seq(Applied)]
       /\ \A q \in Pages :
            /\ Len(toPage'[q]) >= Len(wire[q])
            /\ toPage'[q] = wire[q] \/ (LastIs(toPage'[q], Current) /\ Len(toPage'[q]) > Len(wire[q]))
       /\ \A i \in DOMAIN left : \A k \in Passes :
            passes[k] # 0 /\ passes[k] < i =>
              (passes'[k] # 0 /\ passes'[k] < i) \/ LastIs(toPage'[left[i]], Current)
  BY <1>1, <1>4, <1>5, <1>6, <1>8, Advanced
<1>11. Current' = Current
  BY <1>4 DEF Current
<1>12. passed \subseteq Pages
  <2> SUFFICES ASSUME NEW k \in Passes, c <= passes[k], passes[k] < Len(pages)
               PROVE  pages[passes[k] + 1] \in Pages
    OBVIOUS
  <2>1. passes[k] \in Nat /\ c \in Nat
    BY <1>1, <1>2, <1>3
  <2>2. passes[k] + 1 \in DOMAIN pages
    BY <1>2, <1>3, <2>1
  <2> QED BY <1>2, <2>2
<1> HIDE DEF passed
<1>13. /\ doc' \in [Pages -> Config] /\ \A q \in Pages \ {p} : doc'[q] = doc[q]
       /\ asked' \in [Pages -> BOOLEAN] /\ ~asked'[p] /\ \A q \in Pages \ {p} : asked'[q] = asked[q]
       /\ fromPage' \in [Pages -> Seq(Call)] /\ \A q \in Pages \ {p} : fromPage'[q] = fromPage[q]
  <2>1. <<>> \in Seq(Call) /\ AllOff \in Config
    BY DEF AllOff, Config
  <2> QED BY <1>1, <1>4, <2>1
<1>14. RecorderTypeOK'
  <2>1. active' \in Pages
    <3>1. left # <<>> => Len(left) \in DOMAIN left
      BY <1>2, <1>8
    <3>2. 0 \in Pages
      BY RecorderAssumption DEF Pages
    <3> QED BY <1>1, <1>4, <1>9, <3>1, <3>2
  <2>2. skipped' \subseteq Pages /\ fresh' \subseteq Pages
    BY <1>1, <1>4, <1>12
  <2> QED BY <1>1, <1>4, <1>8, <1>10, <1>13, <2>1, <2>2 DEF RecorderTypeOK
<1>15. PagesNumbered'
  <2>1. \A i, j \in DOMAIN left : old(i) = old(j) => i = j
    BY <1>2, <1>3, <1>8
  <2> HIDE DEF old
  <2>2. \A i, j \in DOMAIN left : left[i] = left[j] => i = j
    BY <1>7, <1>8, <2>1 DEF SettledInv, PagesNumbered
  <2>3. \A i \in DOMAIN left : left[i] <= lastTab
    BY <1>7, <1>8 DEF SettledInv, PagesNumbered
  <2>4. \A q \in Pages : q > lastTab => ~asked'[q]
    BY <1>13 DEF SettledInv, PagesNumbered
  <2> QED BY <1>4, <2>2, <2>3, <2>4 DEF PagesNumbered
<1>16. ASSUME NEW j \in DOMAIN left
       PROVE  Told(j)'
  <2>1. PICK i \in DOMAIN pages, q \in Pages :
          i = (IF j < c THEN j ELSE j + 1) /\ q = left[j] /\ q = pages[i] /\ q # p
    BY <1>7, <1>8, <1>9
  <2>2. /\ doc'[q] = doc[q] /\ asked'[q] = asked[q] /\ fromPage'[q] = fromPage[q]
        /\ wire[q] = toPage[q] /\ pages'[j] = q
    BY <1>4, <1>6, <1>13, <2>1
  <2>3. CASE LastIs(toPage'[q], Current')
    BY <2>2, <2>3 DEF Told, LastIs
  <2>4. CASE ~LastIs(toPage'[q], Current')
    <3>1. toPage'[q] = toPage[q]
      BY <1>10, <1>11, <2>1, <2>2, <2>4
    <3>2. q \in skipped \cup passed => q \in skipped'
      <4>1. Len(toPage[q]) \in Nat
        BY <1>1, <2>1
      <4>2. ~(Len(toPage'[q]) > Len(toPage[q]))
        BY <3>1, <4>1
      <4> QED BY <1>4, <2>1, <4>2
    <3>3. ASSUME NEW k \in Passes, passes[k] # 0, passes[k] < i
          PROVE  q \in skipped' \/ (passes'[k] # 0 /\ passes'[k] < j)
      <4>1. passes[k] \in Nat /\ j \in Nat /\ c \in Nat
        <5>1. passes[k] \in Nat
          BY <1>1
        <5>2. DOMAIN left \subseteq Nat /\ DOMAIN pages \subseteq Nat
          BY <1>2, <1>8
        <5> QED BY <1>3, <5>1, <5>2
      <4>2. CASE passes[k] < j
        BY <1>10, <1>11, <2>1, <2>4, <3>3, <4>2
      <4>3. CASE ~(passes[k] < j)
        <5>1. c <= passes[k] /\ passes[k] < Len(pages) /\ passes[k] + 1 = i
          BY <1>2, <1>8, <2>1, <3>3, <4>1, <4>3
        <5>2. q \in passed
          BY <2>1, <5>1 DEF passed
        <5> QED BY <3>2, <5>2
      <4> QED BY <4>2, <4>3
    <3>4. Told(i)
      BY <2>1 DEF SettledInv, Informed, Told
    <3>5. Owed(i) => Owed(j)'
      BY <2>1, <2>2, <3>2, <3>3 DEF Owed, Calling
    <3>6. Follows(q) => Follows(q)'
      BY <1>4, <2>2, <3>1 DEF Follows, Calling
    <3>7. ~LastIs(toPage[q], Current)
      BY <1>11, <2>4, <3>1
    <3> QED BY <2>1, <2>2, <3>4, <3>5, <3>6, <3>7 DEF Told
  <2> QED BY <2>3, <2>4
<1>17. Informed'
  BY <1>4, <1>16 DEF Informed, Told
<1> QED BY <1>14, <1>15, <1>17 DEF SettledInv

(* Every request that changes the configuration ends in a pass with it.     *)
LEMMA AskedTold ==
  ASSUME SettledInv, ToggleRoutes \/ StreamRoutes, Requested, actions' \in Seq(Action)
  PROVE  SettledInv'
<1>1. /\ {recording, armedFinal, armedRead} \subseteq BOOLEAN /\ requests \in Nat
      /\ active \in Pages /\ fromPage \in [Pages -> Seq(Call)]
  BY DEF SettledInv, RecorderTypeOK
<1>2. /\ requests' \in Nat /\ fromPage' \in [Pages -> Seq(Call)]
      /\ UNCHANGED <<pages, active, lastTab, doc, asked, fresh, fromPage, visits>>
  BY <1>1 DEF Requested
<1>3. ASSUME NEW config, StartPass(config), config = Current',
             {recording', armedFinal', armedRead'} \subseteq BOOLEAN
      PROVE  SettledInv'
  <2>1. config \in Config
    BY <1>3 DEF Current, Config
  <2> QED BY <1>2, <1>3, <2>1, ToldByPass
<1>4. CASE \E enabled \in BOOLEAN : SetRecording(enabled)
  <2>1. PICK enabled \in BOOLEAN : SetRecording(enabled)
    BY <1>4
  <2>2. recording' = enabled /\ UNCHANGED <<armedFinal, armedRead>>
        /\ StartPass([Current EXCEPT !.recording = enabled])
    BY <2>1 DEF SetRecording
  <2>3. {recording', armedFinal', armedRead'} \subseteq BOOLEAN
    BY <1>1, <2>2
  <2>4. [Current EXCEPT !.recording = enabled] = Current'
    BY <1>1, <2>2, <2>3, Becomes
  <2> QED BY <1>3, <2>2, <2>3, <2>4
<1>5. CASE \E enabled \in BOOLEAN : SetArmedFinal(enabled)
  <2>1. PICK enabled \in BOOLEAN : SetArmedFinal(enabled)
    BY <1>5
  <2>2. armedFinal' = enabled /\ UNCHANGED <<recording, armedRead>>
        /\ StartPass([Current EXCEPT !.armedFinal = enabled])
    BY <2>1 DEF SetArmedFinal
  <2>3. {recording', armedFinal', armedRead'} \subseteq BOOLEAN
    BY <1>1, <2>2
  <2>4. [Current EXCEPT !.armedFinal = enabled] = Current'
    BY <1>1, <2>2, <2>3, Becomes
  <2> QED BY <1>3, <2>2, <2>3, <2>4
<1>6. CASE \E enabled \in BOOLEAN : SetArmedRead(enabled)
  <2>1. PICK enabled \in BOOLEAN : SetArmedRead(enabled)
    BY <1>6
  <2>2. armedRead' = enabled /\ UNCHANGED <<recording, armedFinal>>
        /\ StartPass([Current EXCEPT !.armedRead = enabled])
    BY <2>1 DEF SetArmedRead
  <2>3. {recording', armedFinal', armedRead'} \subseteq BOOLEAN
    BY <1>1, <2>2
  <2>4. [Current EXCEPT !.armedRead = enabled] = Current'
    BY <1>1, <2>2, <2>3, Becomes
  <2> QED BY <1>3, <2>2, <2>3, <2>4
<1>7. CASE SetOverlay
  <2>1. StartPass(Current) /\ UNCHANGED <<recording, armedFinal, armedRead>>
    BY <1>7 DEF SetOverlay
  <2>2. Current' = Current /\ {recording', armedFinal', armedRead'} \subseteq BOOLEAN
    BY <1>1, <2>1 DEF Current
  <2> QED BY <1>3, <2>1, <2>2
<1>8. CASE ClearRecording
  <2>1. armedFinal' = FALSE /\ armedRead' = FALSE /\ UNCHANGED recording
        /\ StartPass([Current EXCEPT !.armedFinal = FALSE, !.armedRead = FALSE])
    BY <1>8 DEF ClearRecording
  <2>2. {recording', armedFinal', armedRead'} \subseteq BOOLEAN
    BY <1>1, <2>1
  <2>3. [Current EXCEPT !.armedFinal = FALSE, !.armedRead = FALSE] = Current'
    BY <1>1, <2>1, <2>2, Becomes
  <2> QED BY <1>3, <2>1, <2>2, <2>3
<1>9. CASE AddManualWait
  <2>1. active' \in Pages
    BY <1>1, <1>2
  <2>2. UNCHANGED <<recording, armedFinal, armedRead, wires>>
    BY <1>9 DEF AddManualWait
  <2> QED BY <1>2, <2>1, <2>2, Unconcerned
<1> QED BY <1>4, <1>5, <1>6, <1>7, <1>8, <1>9 DEF ToggleRoutes, StreamRoutes

(* Every step keeps every page told.                                        *)
LEMMA SettledStep ==
  ASSUME SettledInv, actions' \in Seq(Action), [RecorderNext]_recorderVars
  PROVE  SettledInv'
<1>0. /\ active \in Pages /\ requests \in Nat /\ fresh \subseteq Pages /\ pages \in Seq(Pages)
  BY DEF SettledInv, RecorderTypeOK
<1>1. CASE Asked
  <2>1. PICK u \in Users : ApiToggles(u) \/ ApiStream(u) \/ ApiPages(u) \/ ApiInteract(u)
    BY <1>1 DEF Asked
  <2>2. CASE ApiToggles(u) \/ ApiStream(u)
    BY <2>2, AskedTold DEF ApiToggles, ApiStream
  <2>3. CASE ApiPages(u)
    <3>1. CASE NavigateRoute
      <4>1. Navigated(active, TRUE) /\ fresh' \subseteq Pages
        BY <1>0, <3>1 DEF NavigateRoute
      <4> QED BY <1>0, <4>1, NavigatedTold
    <3>2. CASE \E p \in Pages : SwitchPageRoute(p)
      <4>1. /\ active' \in Pages /\ requests' \in Nat
            /\ UNCHANGED <<recording, armedFinal, armedRead, pages, lastTab, wires, doc, asked,
                           fresh, fromPage, visits>>
        BY <1>0, <3>2 DEF SwitchPageRoute, pageSide
      <4> QED BY <4>1, Unconcerned
    <3> QED BY <2>3, <3>1, <3>2 DEF ApiPages
  <2>4. CASE ApiInteract(u)
    BY <2>4, PageTold DEF ApiInteract, InteractRoute, Interact
  <2> QED BY <2>1, <2>2, <2>3, <2>4
<1>2. CASE PageNext
  BY <1>2, PageTold DEF PageNext
<1>3. CASE Reported
  BY <1>3, EmittedTold, AnsweredTold DEF Reported
<1>4. CASE Configured
  BY <1>4, DeliveredTold, AnsweredTold DEF Configured
<1>5. CASE PageEvents
  <2>1. CASE TrackPage
    BY <2>1, TrackedTold
  <2>2. CASE \E p \in Pages : SiteNavigates(p) \/ Close(p)
    <3>1. PICK p \in Pages : SiteNavigates(p) \/ Close(p)
      BY <2>2
    <3>2. CASE SiteNavigates(p)
      <4>1. Navigated(p, FALSE) /\ fresh' \subseteq Pages
        BY <1>0, <3>2 DEF SiteNavigates
      <4> QED BY <4>1, NavigatedTold
    <3> QED BY <3>1, <3>2, ClosedTold
  <2>3. CASE \E p \in Pages : Download(p)
    <3>1. /\ active' \in Pages /\ requests' \in Nat
          /\ UNCHANGED <<recording, armedFinal, armedRead, pages, lastTab, wires, doc, asked,
                         fresh, fromPage, visits>>
      BY <1>0, <2>3 DEF Download, pageSide
    <3> QED BY <3>1, Unconcerned
  <2> QED BY <1>5, <2>1, <2>2, <2>3 DEF PageEvents
<1>6. CASE UNCHANGED recorderVars
  <2>1. /\ active' \in Pages /\ requests' \in Nat
        /\ UNCHANGED <<recording, armedFinal, armedRead, pages, lastTab, wires, doc, asked,
                       fresh, fromPage, visits>>
    BY <1>0, <1>6 DEF recorderVars, wires
  <2> QED BY <2>1, Unconcerned
<1> QED BY <1>1, <1>2, <1>3, <1>4, <1>5, <1>6 DEF RecorderNext

(* At first there is one page, which has what the worker has.               *)
LEMMA SettledAtFirst ==
  ASSUME RecorderInit
  PROVE  SettledInv
<1>1. /\ AllOff \in Config /\ 0 \in Pages
      /\ <<>> \in Seq(Action) /\ <<>> \in Seq(Applied) /\ <<>> \in Seq(Call)
  BY RecorderAssumption DEF AllOff, Config, Pages
<1>2. <<0>> \in Seq(Pages)
  BY <1>1
<1>3. RecorderTypeOK
  BY <1>1, <1>2 DEF RecorderInit, RecorderTypeOK
<1>4. DOMAIN pages = {1} /\ pages[1] = 0
  BY DEF RecorderInit
<1>5. PagesNumbered
  <2>1. \A p \in Pages : p > lastTab => p # 0
    BY DEF RecorderInit, Pages
  <2>2. pages[1] <= lastTab
    BY <1>4 DEF RecorderInit
  <2> QED BY <1>4, <2>1, <2>2 DEF RecorderInit, PagesNumbered
<1>6. Follows(0)
  <2>1. doc[0] = AllOff /\ toPage[0] = <<>> /\ recording = FALSE
    BY <1>1 DEF RecorderInit
  <2>2. doc[0].recording = FALSE /\ doc[0].armedFinal = FALSE /\ doc[0].armedRead = FALSE
    BY <2>1 DEF AllOff
  <2> QED BY <2>1, <2>2 DEF Follows
<1>7. Informed
  BY <1>4, <1>6 DEF Informed, Told
<1> QED BY <1>3, <1>5, <1>7 DEF SettledInv

(* A page that is owed nothing and has nothing under way follows.           *)
LEMMA ToldPagesAgree ==
  ASSUME SettledInv
  PROVE  SettledPagesAgree
<1> SUFFICES ASSUME NEW i \in DOMAIN pages, ~Unsettled(pages[i])
             PROVE  LET p == pages[i]
                    IN /\ doc[p].recording = recording
                       /\ doc[p].armedFinal => armedFinal
                       /\ doc[p].armedRead => armedRead
                       /\ recording => doc[p] = Current
  BY DEF SettledPagesAgree
<1>1. PICK p \in Pages : p = pages[i]
  BY DEF SettledInv, RecorderTypeOK
<1>2. /\ asked[p] /\ toPage[p] = <<>> /\ fromPage[p] = <<>> /\ p \notin skipped
      /\ \A k \in Passes : passes[k] # 0 => ~(i > passes[k])
  BY <1>1 DEF Unsettled
<1>3. \A call : ~Calling(p, call)
  <2>1. Len(fromPage[p]) = 0
    BY <1>2
  <2> QED BY <2>1 DEF Calling, Contains
<1>4. i \in Nat /\ passes \in [Passes -> Nat]
  BY DEF SettledInv, RecorderTypeOK
<1>5. ~Owed(i)
  BY <1>1, <1>2, <1>3, <1>4 DEF Owed
<1>6. Follows(p)
  BY <1>1, <1>2, <1>5 DEF SettledInv, Informed, Told, LastIs
<1>7. /\ doc[p] \in Config /\ Current \in Config
      /\ Current.recording = recording /\ Current.armedFinal = armedFinal
      /\ Current.armedRead = armedRead
  BY DEF SettledInv, RecorderTypeOK, Current, Config
<1>8. ASSUME recording
      PROVE  doc[p] = Current
  <2>1. /\ doc[p].recording = recording /\ doc[p].armedFinal = armedFinal
        /\ doc[p].armedRead = armedRead
    <3>1. {recording, armedFinal, armedRead} \subseteq BOOLEAN
          /\ doc[p].armedFinal \in BOOLEAN /\ doc[p].armedRead \in BOOLEAN
      BY <1>7 DEF SettledInv, RecorderTypeOK, Config
    <3> QED BY <1>3, <1>6, <1>8, <3>1 DEF Follows
  <2> QED BY <1>7, <2>1, SameConfig
<1> QED BY <1>1, <1>6, <1>8 DEF Follows

(* The recorder's state is typed, for any pages, bounds and passes.         *)
THEOREM RecorderTyped == RecorderSpec => []RecorderTypeOK
<1> DEFINE Inv == RecorderInv /\ SettledInv
<1>1. RecorderInit => Inv
  BY RecorderInvAtFirst, SettledAtFirst
<1>2. Inv /\ [RecorderNext]_recorderVars => Inv'
  <2> SUFFICES ASSUME Inv, [RecorderNext]_recorderVars PROVE Inv'
    OBVIOUS
  <2>1. RecorderInv'
    BY RecorderInvStep
  <2> QED BY <2>1, SettledStep DEF RecorderInv
<1>3. Inv => RecorderTypeOK
  BY DEF SettledInv
<1> HIDE DEF Inv
<1> QED BY <1>1, <1>2, <1>3, PTL DEF RecorderSpec

(* session.ts applyConfigToAllPages() and browser-script.ts: an open page to *)
(* which nothing is under way has what the worker has, armed for nobody's    *)
(* click and recording no longer than the worker does, whichever requests,   *)
(* clicks, passes, navigations and closing tabs cross; but for the pages a   *)
(* pass went past because another closed under it.                           *)
THEOREM PagesFollowTheWorker == RecorderSpec => []SettledPagesAgree
<1> DEFINE Inv == RecorderInv /\ SettledInv
<1>1. RecorderInit => Inv
  BY RecorderInvAtFirst, SettledAtFirst
<1>2. Inv /\ [RecorderNext]_recorderVars => Inv'
  <2> SUFFICES ASSUME Inv, [RecorderNext]_recorderVars PROVE Inv'
    OBVIOUS
  <2>1. RecorderInv'
    BY RecorderInvStep
  <2> QED BY <2>1, SettledStep DEF RecorderInv
<1>3. Inv => SettledPagesAgree
  BY ToldPagesAgree
<1> HIDE DEF Inv
<1> QED BY <1>1, <1>2, <1>3, PTL DEF RecorderSpec
=============================================================================
