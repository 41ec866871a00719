---------------------------- MODULE EditorProofs ----------------------------
(***************************************************************************)
(* For any bounds and any overlap of polls, edits and requests: a list     *)
(* that is not marked unsaved is the saved one, and what the user did to a *)
(* step stays done, as long as no two requests that replace the list were  *)
(* under way together.                                                     *)
(*                                                                         *)
(* What makes the first inductive is what a save under way carries: until  *)
(* it is served, the list it was pressed with - still the editor's own, if *)
(* nothing marked it since - and afterwards, the rows as they are.  Only   *)
(* its own rows: this is where a second save, or a list cleared, would     *)
(* come between.                                                           *)
(*                                                                         *)
(* The second needs to know which steps an answer can still bring: a step  *)
(* the page has and that can come again was in the last answer, so the     *)
(* merge can tell that the user has rewritten it.  That stays so because   *)
(* the recorder never has again a step it has dropped.                     *)
(***************************************************************************)
EXTENDS Editing, FiniteSetTheorems, SequenceTheorems, WellFoundedInduction, NaturalsInduction, TLAPS

\* A request's state written out.
IsOp(o) == \E kind, at, of, payload, list, n :
  o = [kind |-> kind, at |-> at, of |-> of, payload |-> payload,
       answer |-> [steps |-> list, stamp |-> n]]

OpShape == op = [r \in Requests |-> op[r]] /\ \A r \in Requests : IsOp(op[r])

\* The stages of a request that writes the list it was pressed with.
TakingStages == {"creds", "put", "saved", "load", "loaded"}

OnlySavesTake ==
  \A r \in Requests : op[r].at \in TakingStages => op[r].kind \in {"save", "run", "schedule"}

OneReplacer ==
  \A r, q \in Requests : Replaces(op[r].kind) /\ Replaces(op[q].kind) => r = q

CleanIsStored == ~dirty /\ ~blurred => SameSteps(steps, stored)

\* A request on its way to the rows carries the list, as long as the list is not
\* marked; back from them, it brings the rows.
Sound(o, list, marked, rows, blur) ==
  /\ o.at \in {"creds", "put"} /\ (~marked \/ (o.kind = "schedule" /\ ~blur)) =>
       SameSteps(list, o.payload)
  /\ o.at = "saved" /\ o.kind = "schedule" /\ ~blur => SameSteps(list, rows)
  /\ o.at \in {"saved", "loaded"} => o.answer.steps = rows

SavesAreSound == \A r \in Requests : Sound(op[r], steps, dirty, stored, blurred)

SavedInv == OpShape /\ OnlySavesTake /\ OneReplacer /\ CleanIsStored /\ SavesAreSound

-----------------------------------------------------------------------------

\* A list says what it says.
LEMMA SameAsItself == \A list : SameSteps(list, list)
  BY DEF SameSteps

\* The record a request starts from.
LEMMA NoOpShape ==
  IsOp(NoOp) /\ NoOp.at = "none" /\ NoOp.kind = "none" /\ ~Replaces(NoOp.kind)
  BY DEF IsOp, NoOp, NoAnswer, Replaces

\* One request changes, the others are what they were.
LEMMA OneRequest ==
  ASSUME OpShape, NEW r \in Requests, NEW o, IsOp(o), op' = [op EXCEPT ![r] = o]
  PROVE  OpShape' /\ op'[r] = o /\ \A q \in Requests : q # r => op'[q] = op[q]
<1>1. op = [q \in Requests |-> op[q]] /\ \A q \in Requests : IsOp(op[q])
  BY DEF OpShape
<1>2. /\ op' = [q \in Requests |-> op'[q]] /\ op'[r] = o
      /\ \A q \in Requests : q # r => op'[q] = op[q]
  BY <1>1
<1>3. \A q \in Requests : IsOp(op'[q])
  BY <1>1, <1>2
<1> QED BY <1>2, <1>3 DEF OpShape

\* A request written out is one.
LEMMA Written ==
  ASSUME NEW kind, NEW at, NEW of, NEW payload, NEW list, NEW n, NEW o,
         o = [kind |-> kind, at |-> at, of |-> of, payload |-> payload,
              answer |-> [steps |-> list, stamp |-> n]]
  PROVE  /\ IsOp(o) /\ o.kind = kind /\ o.at = at /\ o.of = of /\ o.payload = payload
         /\ o.answer = [steps |-> list, stamp |-> n] /\ o.answer.steps = list
<1>1. IsOp(o)
  BY DEF IsOp
<1> QED BY <1>1

\* The request moves to another stage and keeps what it carries.
LEMMA Stage ==
  ASSUME OpShape, NEW r \in Requests, NEW at, Served(r, at)
  PROVE  \E o : /\ op' = [op EXCEPT ![r] = o] /\ IsOp(o)
                /\ o.at = at /\ o.kind = op[r].kind /\ o.of = op[r].of
                /\ o.payload = op[r].payload /\ o.answer = op[r].answer
<1>1. op = [q \in Requests |-> op[q]] /\ IsOp(op[r])
  BY DEF OpShape
<1> DEFINE before == op[r]
           o == [before EXCEPT !.at = at]
<1>2. PICK k, a, f, p, s, n :
        before = [kind |-> k, at |-> a, of |-> f, payload |-> p,
                  answer |-> [steps |-> s, stamp |-> n]]
  BY <1>1 DEF IsOp
<1>3. op' = [op EXCEPT ![r] = o]
  BY <1>1 DEF Served
<1>e. o = [before EXCEPT !.at = at]
  OBVIOUS
<1> HIDE DEF before, o
<1>4. o = [kind |-> k, at |-> at, of |-> f, payload |-> p,
           answer |-> [steps |-> s, stamp |-> n]]
  BY <1>2, <1>e
<1>5. IsOp(o) /\ o.at = at
  BY <1>4, Written
<1>6. o.kind = before.kind /\ o.of = before.of /\ o.payload = before.payload /\ o.answer = before.answer
  BY <1>2, <1>4
<1> QED BY <1>3, <1>5, <1>6 DEF before

\* A request that was no part of a save moves to a stage that is none, and
\* replaces the list only if it did before.
LEMMA OtherRequest ==
  ASSUME SavedInv, UNCHANGED <<steps, dirty, stored, blurred>>,
         NEW r \in Requests, NEW o, IsOp(o), op' = [op EXCEPT ![r] = o],
         o.at \notin TakingStages, Replaces(o.kind) => Replaces(op[r].kind)
  PROVE  SavedInv'
<1>1. /\ OpShape' /\ op'[r] = o /\ \A q \in Requests : q # r => op'[q] = op[q]
  BY OneRequest DEF SavedInv
<1>2. OnlySavesTake' /\ OneReplacer' /\ CleanIsStored'
  BY <1>1 DEF SavedInv, OnlySavesTake, OneReplacer, CleanIsStored
<1>3. SavesAreSound'
  <2> SUFFICES ASSUME NEW q \in Requests
               PROVE  Sound(op'[q], steps', dirty', stored', blurred')
    BY DEF SavesAreSound
  <2>1. CASE q = r
    BY <1>1, <2>1 DEF Sound, TakingStages
  <2>2. CASE q # r
    BY <1>1, <2>2 DEF SavedInv, SavesAreSound
  <2> QED BY <2>1, <2>2
<1> QED BY <1>1, <1>2, <1>3 DEF SavedInv

\* The request that replaces the list moves on or ends: nothing else is held to
\* the list.
LEMMA ReplacerMoves ==
  ASSUME SavedInv, NEW r \in Requests, Replaces(op[r].kind),
         NEW o, IsOp(o), op' = [op EXCEPT ![r] = o],
         o.at \in TakingStages => o.kind \in {"save", "run", "schedule"},
         CleanIsStored', Sound(o, steps', dirty', stored', blurred')
  PROVE  SavedInv'
<1>1. /\ OpShape' /\ op'[r] = o /\ \A q \in Requests : q # r => op'[q] = op[q]
  BY OneRequest DEF SavedInv
<1>2. \A q \in Requests : q # r => ~Replaces(op[q].kind)
  BY DEF SavedInv, OneReplacer
<1>3. OnlySavesTake' /\ OneReplacer'
  BY <1>1, <1>2 DEF SavedInv, OnlySavesTake, OneReplacer
<1>4. SavesAreSound'
  <2> SUFFICES ASSUME NEW q \in Requests
               PROVE  Sound(op'[q], steps', dirty', stored', blurred')
    BY DEF SavesAreSound
  <2>1. CASE q = r
    BY <1>1, <2>1
  <2>2. CASE q # r
    <3>1. op'[q] = op[q] /\ op[q].at \notin TakingStages
      BY <1>1, <1>2, <2>2 DEF SavedInv, OnlySavesTake, Replaces
    <3> QED BY <3>1 DEF Sound, TakingStages
  <2> QED BY <2>1, <2>2
<1> QED BY <1>1, <1>3, <1>4 DEF SavedInv

\* Requests end or stay, and what stays is as sound as it was.
LEMMA SomeEnd ==
  ASSUME SavedInv, OpShape', \A q \in Requests : op'[q] = op[q] \/ op'[q] = NoOp,
         CleanIsStored', \A q \in Requests : Sound(op[q], steps', dirty', stored', blurred')
  PROVE  SavedInv'
<1>1. OnlySavesTake' /\ OneReplacer'
  BY NoOpShape DEF SavedInv, OnlySavesTake, OneReplacer, TakingStages
<1>2. SavesAreSound'
  <2> SUFFICES ASSUME NEW q \in Requests
               PROVE  Sound(op'[q], steps', dirty', stored', blurred')
    BY DEF SavesAreSound
  <2>1. CASE op'[q] = NoOp
    BY <2>1, NoOpShape DEF Sound
  <2> QED BY <2>1
<1> QED BY <1>1, <1>2 DEF SavedInv

\* Nothing that matters moves.
LEMMA NothingMoves ==
  ASSUME SavedInv, UNCHANGED <<steps, dirty, stored, blurred, op>>
  PROVE  SavedInv'
  BY DEF SavedInv, OpShape, OnlySavesTake, OneReplacer, CleanIsStored, SavesAreSound

\* The list is changed and marked, and the ghost notes it when schedule() is
\* saving.
LEMMA ListMarked ==
  ASSUME SavedInv, OpShape', \A q \in Requests : op'[q] = op[q] \/ op'[q] = NoOp,
         UNCHANGED stored, dirty', blurred' <=> blurred \/ Scheduling
  PROVE  SavedInv'
<1>1. CleanIsStored'
  BY DEF CleanIsStored
<1>2. \A q \in Requests : Sound(op[q], steps', dirty', stored', blurred')
  <2> TAKE q \in Requests
  <2>1. op[q].kind = "schedule" => blurred'
    BY DEF Scheduling
  <2>2. Sound(op[q], steps, dirty, stored, blurred)
    BY DEF SavedInv, SavesAreSound
  <2> QED BY <2>1, <2>2 DEF Sound
<1> QED BY <1>1, <1>2, SomeEnd

\* A recording that is pulled marks the list if it changes it.
LEMMA Pulled ==
  ASSUME SavedInv, OpShape', \A q \in Requests : op'[q] = op[q] \/ op'[q] = NoOp,
         NEW answer, pullRecording(answer), UNCHANGED stored
  PROVE  SavedInv'
<1>1. CASE mergeRecording(answer.steps) = steps
  <2>1. steps' = steps /\ (dirty' <=> dirty) /\ (blurred' <=> blurred)
    BY <1>1 DEF pullRecording
  <2>2. CleanIsStored' /\ \A q \in Requests : Sound(op[q], steps', dirty', stored', blurred')
    BY <2>1 DEF SavedInv, CleanIsStored, SavesAreSound, Sound
  <2> QED BY <2>2, SomeEnd
<1>2. CASE mergeRecording(answer.steps) # steps
  <2>1. dirty' /\ (blurred' <=> blurred \/ Scheduling)
    BY <1>2 DEF pullRecording
  <2> QED BY <2>1, ListMarked
<1> QED BY <1>1, <1>2

\* A button takes the list along as it stands. No other request that replaces
\* the list is under way.
LEMMA Pressed ==
  ASSUME SavedInv, ~overlapped', NEW r \in Requests, NEW kind, NEW at, NEW payload,
         Send(r, kind, at, payload),
         at \in {"creds", "put"} => payload = steps /\ kind \in {"save", "run", "schedule"},
         at \notin {"saved", "load", "loaded"}
  PROVE  SavedInv'
<1> DEFINE o == [kind |-> kind, at |-> at, of |-> held, payload |-> payload,
                 answer |-> [steps |-> <<>>, stamp |-> 0]]
<1>1. op' = [op EXCEPT ![r] = o]
  <2> DEFINE sent == [NoOp EXCEPT !.kind = kind, !.at = at, !.of = held, !.payload = payload]
  <2>1. op' = [op EXCEPT ![r] = sent]
    BY DEF Send
  <2>2. sent = [NoOp EXCEPT !.kind = kind, !.at = at, !.of = held, !.payload = payload]
    OBVIOUS
  <2> HIDE DEF sent
  <2>3. sent = o
    BY <2>2 DEF NoOp, NoAnswer
  <2> QED BY <2>1, <2>3
<1>2. UNCHANGED <<steps, dirty, stored, blurred>>
  BY DEF Send, editor, server, seen
<1>3. IsOp(o)
  BY DEF IsOp
<1>4. o.kind = kind /\ o.at = at /\ o.payload = payload
  OBVIOUS
<1> HIDE DEF o
<1>5. /\ OpShape' /\ op'[r] = o /\ \A q \in Requests : q # r => op'[q] = op[q]
  BY <1>1, <1>3, OneRequest DEF SavedInv
<1>6. Replaces(kind) => \A q \in Requests : ~Replaces(op[q].kind)
  BY DEF Send
<1>7. OneReplacer'
  BY <1>4, <1>5, <1>6 DEF SavedInv, OneReplacer
<1>8. OnlySavesTake'
  BY <1>4, <1>5 DEF SavedInv, OnlySavesTake, TakingStages
<1>9. CleanIsStored'
  BY <1>2 DEF SavedInv, CleanIsStored
<1>10. SavesAreSound'
  <2> SUFFICES ASSUME NEW q \in Requests
               PROVE  Sound(op'[q], steps', dirty', stored', blurred')
    BY DEF SavesAreSound
  <2>1. CASE q = r
    BY <1>2, <1>4, <1>5, <2>1, SameAsItself DEF Sound
  <2>2. CASE q # r
    BY <1>2, <1>5, <2>2 DEF SavedInv, SavesAreSound
  <2> QED BY <2>1, <2>2
<1> QED BY <1>5, <1>7, <1>8, <1>9, <1>10 DEF SavedInv

-----------------------------------------------------------------------------

\* A request that is at the other end leaves the page as it is.
LEMMA ServedKeeps ==
  ASSUME SavedInv, UNCHANGED <<steps, dirty, stored, blurred>>, NEW r \in Requests,
         NEW at, at \notin TakingStages, Served(r, at)
  PROVE  SavedInv'
<1>1. PICK o : /\ op' = [op EXCEPT ![r] = o] /\ IsOp(o)
               /\ o.at = at /\ o.kind = op[r].kind
  BY Stage DEF SavedInv
<1> QED BY <1>1, OtherRequest

\* Or ends it.
LEMMA EndKeeps ==
  ASSUME SavedInv, UNCHANGED <<steps, dirty, stored, blurred>>, NEW r \in Requests,
         op' = [op EXCEPT ![r] = NoOp]
  PROVE  SavedInv'
<1>1. NoOp.at \notin TakingStages
  BY NoOpShape DEF TakingStages
<1> QED BY <1>1, NoOpShape, OtherRequest

\* The other end moves requests on and writes rows only with a list it was sent.
LEMMA ServeKeeps == ASSUME SavedInv, NEW r \in Requests, Serve(r) PROVE SavedInv'
<1>0. OpShape /\ IsOp(op[r]) /\ op = [q \in Requests |-> op[q]]
  BY DEF SavedInv, OpShape
<1> DEFINE before == op[r]
<1>1. PICK k, a, f, p, s, n :
        before = [kind |-> k, at |-> a, of |-> f, payload |-> p,
                  answer |-> [steps |-> s, stamp |-> n]]
  BY <1>0 DEF IsOp
<1>b. op[r] = before
  OBVIOUS
<1> HIDE DEF before
<1>k. op[r].kind = k
  BY <1>1, <1>b
<1>2. CASE ServeOpen(r)
  <2> PICK of : of = opened'
    OBVIOUS
  <2> DEFINE o == [before EXCEPT !.at = "served", !.of = of]
  <2>1. op' = [op EXCEPT ![r] = o]
    BY <1>0, <1>2, <1>b DEF ServeOpen
  <2>e. o = [before EXCEPT !.at = "served", !.of = of]
    OBVIOUS
  <2> HIDE DEF o
  <2>0. o = [kind |-> k, at |-> "served", of |-> of, payload |-> p,
             answer |-> [steps |-> s, stamp |-> n]]
    BY <1>1, <2>e
  <2>2. IsOp(o) /\ o.at = "served" /\ o.kind = op[r].kind
    BY <1>k, <2>0, Written
  <2>3. UNCHANGED <<steps, dirty, stored, blurred>>
    BY <1>2 DEF ServeOpen, Mute, editor, server, seen
  <2> QED BY <2>1, <2>2, <2>3, OtherRequest DEF TakingStages
<1>3. CASE ServeRecord(r) \/ ServeClear(r) \/ ServeClose(r)
  <2>1. UNCHANGED <<steps, dirty, stored, blurred>> /\ Served(r, "served")
    BY <1>3 DEF ServeRecord, ServeClear, ServeClose, Mute, editor, server, seen
  <2> QED BY <2>1, ServedKeeps DEF TakingStages
<1>4. CASE ServeCredentials(r)
  <2>1. /\ op[r].at = "creds" /\ Served(r, "put")
        /\ UNCHANGED <<steps, dirty, stored, blurred>>
    BY <1>4 DEF ServeCredentials, Mute, editor, seen
  <2>2. PICK o : /\ op' = [op EXCEPT ![r] = o] /\ IsOp(o)
                 /\ o.at = "put" /\ o.kind = op[r].kind /\ o.payload = op[r].payload
    BY <1>0, <2>1, Stage
  <2>3. op[r].kind \in {"save", "run", "schedule"} /\ Replaces(op[r].kind)
    BY <2>1 DEF SavedInv, OnlySavesTake, TakingStages, Replaces
  <2>4. Sound(op[r], steps, dirty, stored, blurred) /\ CleanIsStored'
    BY <2>1 DEF SavedInv, SavesAreSound, CleanIsStored
  <2>5. Sound(o, steps', dirty', stored', blurred')
    BY <2>1, <2>2, <2>4 DEF Sound
  <2> QED BY <2>1, <2>2, <2>3, <2>4, <2>5, ReplacerMoves
<1>5. CASE ServeSteps(r)
  <2> PICK rows : rows = stored'
    OBVIOUS
  <2> DEFINE o == [NoOp EXCEPT !.kind = op[r].kind, !.at = "saved", !.answer.steps = rows]
  <2>1. /\ op[r].at = "put"
        /\ stored' = [j \in DOMAIN op[r].payload |-> FromRow(op[r].payload[j])]
        /\ UNCHANGED <<steps, dirty, blurred>>
    BY <1>5 DEF ServeSteps, Mute, editor, seen
  <2>2. op' = [op EXCEPT ![r] = o]
    BY <1>5 DEF ServeSteps
  <2>e. o = [NoOp EXCEPT !.kind = op[r].kind, !.at = "saved", !.answer.steps = rows]
    OBVIOUS
  <2> HIDE DEF o
  <2>0. o = [kind |-> op[r].kind, at |-> "saved", of |-> 0, payload |-> <<>>,
             answer |-> [steps |-> rows, stamp |-> 0]]
    BY <2>e DEF NoOp, NoAnswer
  <2>3. IsOp(o) /\ o.at = "saved" /\ o.kind = op[r].kind /\ o.answer.steps = stored'
    BY <1>k, <2>0, Written
  <2>4. op[r].kind \in {"save", "run", "schedule"} /\ Replaces(op[r].kind)
    BY <2>1 DEF SavedInv, OnlySavesTake, TakingStages, Replaces
  <2>5. SameSteps(steps, op[r].payload) => SameSteps(steps', stored')
    BY <2>1 DEF SameSteps, FromRow
  <2>6. Sound(op[r], steps, dirty, stored, blurred)
    BY DEF SavedInv, SavesAreSound
  <2>7. CleanIsStored' /\ Sound(o, steps', dirty', stored', blurred')
    BY <2>1, <2>3, <2>5, <2>6 DEF CleanIsStored, Sound
  <2> QED BY <2>2, <2>3, <2>4, <2>7, ReplacerMoves
<1>6. CASE ServeWorkflow(r)
  <2> PICK rows : rows = stored
    OBVIOUS
  <2> DEFINE o == [before EXCEPT !.at = "loaded", !.answer.steps = rows]
  <2>1. op[r].at = "load" /\ UNCHANGED <<steps, dirty, stored, blurred>>
    BY <1>6 DEF ServeWorkflow, Mute, editor, server, seen
  <2>2. op' = [op EXCEPT ![r] = o]
    BY <1>0, <1>6, <1>b DEF ServeWorkflow
  <2>e. o = [before EXCEPT !.at = "loaded", !.answer.steps = rows]
    OBVIOUS
  <2> HIDE DEF o
  <2>0. o = [kind |-> k, at |-> "loaded", of |-> f, payload |-> p,
             answer |-> [steps |-> rows, stamp |-> n]]
    BY <1>1, <2>e
  <2>3. IsOp(o) /\ o.at = "loaded" /\ o.kind = op[r].kind /\ o.answer.steps = stored
    BY <1>k, <2>0, Written
  <2>4. op[r].kind \in {"save", "run", "schedule"} /\ Replaces(op[r].kind)
    BY <2>1 DEF SavedInv, OnlySavesTake, TakingStages, Replaces
  <2>5. CleanIsStored' /\ Sound(o, steps', dirty', stored', blurred')
    BY <2>1, <2>3 DEF SavedInv, CleanIsStored, Sound
  <2> QED BY <2>2, <2>3, <2>4, <2>5, ReplacerMoves
<1>7. CASE ServeRecording(r)
  <2> PICK new : new = [steps |-> rec, stamp |-> stamp]
    OBVIOUS
  <2> DEFINE o == [before EXCEPT !.at = "pulled", !.answer = new]
  <2>1. UNCHANGED <<steps, dirty, stored, blurred>>
    BY <1>7 DEF ServeRecording, Mute, editor, server, seen
  <2>2. op' = [op EXCEPT ![r] = o]
    BY <1>0, <1>7, <1>b DEF ServeRecording
  <2>e. o = [before EXCEPT !.at = "pulled", !.answer = new]
    OBVIOUS
  <2> HIDE DEF o
  <2>0. o = [kind |-> k, at |-> "pulled", of |-> f, payload |-> p, answer |-> new]
    BY <1>1, <2>e
  <2>3. IsOp(o) /\ o.at = "pulled" /\ o.kind = op[r].kind
    BY <1>k, <2>0, Written
  <2> QED BY <2>1, <2>2, <2>3, OtherRequest DEF TakingStages
<1>8. CASE OpFails(r)
  BY <1>8, EndKeeps DEF OpFails, Mute, editor, server, seen
<1> QED BY <1>2, <1>3, <1>4, <1>5, <1>6, <1>7, <1>8 DEF Serve

\* The recorder and the end of a session touch neither the list nor the rows.
LEMMA ServerKeeps == ASSUME SavedInv, ServerNext PROVE SavedInv'
<1>1. CASE RecordStep \/ RefineStep \/ SessionDies
  BY <1>1, NothingMoves DEF RecordStep, RefineStep, SessionDies, editor, server, seen
<1> QED BY <1>1, ServeKeeps DEF ServerNext

\* A tick of the timer marks the list when it changes it.
LEMMA PollKeeps ==
  ASSUME SavedInv, NEW p \in Polls, PollAsk(p) \/ PollTold(p) \/ PollApply(p)
  PROVE  SavedInv'
<1>1. CASE PollAsk(p) \/ PollTold(p)
  BY <1>1, NothingMoves DEF PollAsk, PollTold, NoPull, Elsewhere, editor, server, seen
<1>2. CASE PollApply(p)
  <2>1. UNCHANGED <<stored, op>> /\ pullRecording(poll[p].answer)
    BY <1>2 DEF PollApply, Elsewhere, server
  <2>2. OpShape'
    BY <2>1 DEF SavedInv, OpShape
  <2> QED BY <2>1, <2>2, Pulled
<1> QED BY <1>1, <1>2

\* Every edit by hand marks the list.
LEMMA EditKeeps == ASSUME SavedInv, update \/ remove \/ move \/ insert PROVE SavedInv'
<1>1. PICK next, i, did : onChange(next, i, did)
  BY DEF update, remove, move, insert
<1>2. UNCHANGED <<stored, op>> /\ dirty' /\ (blurred' <=> blurred \/ Scheduling)
  BY <1>1 DEF onChange, server
<1>3. OpShape'
  BY <1>2 DEF SavedInv, OpShape
<1> QED BY <1>2, <1>3, ListMarked

\* A button sends the list as it is shown.
LEMMA ButtonKeeps ==
  ASSUME SavedInv, ~overlapped', NEW r \in Requests, Press(r)
  PROVE  SavedInv'
<1>1. CASE startBrowser(r)
  BY <1>1, Pressed DEF startBrowser
<1>2. CASE setRecording(r)
  <2>1. PICK kind : Send(r, kind, "sent", <<>>)
    BY <1>2 DEF setRecording
  <2> QED BY <2>1, Pressed
<1>3. CASE clearRecording(r) \/ closeSession(r)
  BY <1>3, Pressed DEF clearRecording, closeSession
<1>4. CASE save(r)
  BY <1>4, Pressed DEF save, First
<1>5. CASE runOrRepeat(r)
  BY <1>5, Pressed DEF runOrRepeat, First
<1>6. CASE schedule(r)
  BY <1>6, Pressed DEF schedule
<1> QED BY <1>1, <1>2, <1>3, <1>4, <1>5, <1>6 DEF Press

\* The mark is cleared only by an answer that brings the rows, or by schedule().
LEMMA AnswerKeeps == ASSUME SavedInv, NEW r \in Requests, Reacts(r) PROVE SavedInv'
<1>0. OpShape
  BY DEF SavedInv
<1>1. CASE Opened(r) \/ Closed(r)
  BY <1>1, EndKeeps DEF Opened, Closed, Ends, Reply, editor, server, seen
<1>2. CASE Recording(r)
  <2>1. UNCHANGED <<steps, dirty, stored, blurred>>
    BY <1>2 DEF Recording, Reply, editor, server, seen
  <2>2. CASE op[r].kind = "stop"
    BY <1>2, <2>1, <2>2, ServedKeeps DEF Recording, Served, TakingStages
  <2>3. CASE op[r].kind # "stop"
    BY <1>2, <2>1, <2>3, EndKeeps DEF Recording, Ends
  <2> QED BY <2>2, <2>3
<1>3. CASE Stopped(r)
  <2>1. /\ op' = [op EXCEPT ![r] = NoOp] /\ stored' = stored
        /\ pullRecording(op[r].answer)
    BY <1>3 DEF Stopped, Ends, Reply, server
  <2>2. OpShape' /\ \A q \in Requests : op'[q] = op[q] \/ op'[q] = NoOp
    BY <1>0, <2>1, NoOpShape, OneRequest
  <2> QED BY <2>1, <2>2, Pulled
<1>4. CASE Cleared(r)
  <2>1. op' = [op EXCEPT ![r] = NoOp] /\ dirty' /\ Replaces(op[r].kind)
    BY <1>4 DEF Cleared, Ends, Replaces
  <2>2. CleanIsStored' /\ Sound(NoOp, steps', dirty', stored', blurred')
    BY <2>1, NoOpShape DEF CleanIsStored, Sound
  <2>3. NoOp.at \notin TakingStages
    BY NoOpShape DEF TakingStages
  <2> QED BY <2>1, <2>2, <2>3, NoOpShape, ReplacerMoves
<1>5. ASSUME op[r].at \in {"saved", "loaded"}
      PROVE  /\ op[r].answer.steps = stored /\ op[r].kind \in {"save", "run", "schedule"}
             /\ Replaces(op[r].kind)
             /\ op[r].at = "saved" /\ op[r].kind = "schedule" /\ ~blurred => SameSteps(steps, stored)
  <2>1. Sound(op[r], steps, dirty, stored, blurred)
    BY DEF SavedInv, SavesAreSound
  <2>2. op[r].kind \in {"save", "run", "schedule"}
    BY <1>5 DEF SavedInv, OnlySavesTake, TakingStages
  <2> QED BY <1>5, <2>1, <2>2 DEF Sound, Replaces
<1>6. CASE StepsSaved(r)
  <2>1. /\ op[r].at = "saved" /\ stored' = stored /\ blurred' = blurred
        /\ steps' = IF op[r].kind = "schedule" THEN steps ELSE op[r].answer.steps
    BY <1>6 DEF StepsSaved, Reply, server, seen
  <2>2. CleanIsStored'
    BY <1>5, <2>1, SameAsItself DEF CleanIsStored
  <2>3. PICK o : /\ op' = [op EXCEPT ![r] = o] /\ IsOp(o)
                 /\ o.at \in {"none", "load"} /\ (o.at = "load" => o.kind = op[r].kind)
    <3>1. CASE op[r].kind = "save"
      <4>1. Served(r, "load")
        BY <1>6, <3>1 DEF StepsSaved, Served
      <4>2. PICK o : /\ op' = [op EXCEPT ![r] = o] /\ IsOp(o)
                     /\ o.at = "load" /\ o.kind = op[r].kind
        BY <1>0, <4>1, Stage
      <4> QED BY <4>2
    <3>2. CASE op[r].kind # "save"
      BY <1>6, <3>2, NoOpShape DEF StepsSaved, Ends
    <3> QED BY <3>1, <3>2
  <2>4. Sound(o, steps', dirty', stored', blurred')
    BY <2>3 DEF Sound
  <2> QED BY <1>5, <2>1, <2>2, <2>3, <2>4, ReplacerMoves DEF TakingStages
<1>7. CASE Loaded(r)
  <2>1. /\ op[r].at = "loaded" /\ stored' = stored /\ steps' = op[r].answer.steps
        /\ op' = [op EXCEPT ![r] = NoOp]
    BY <1>7 DEF Loaded, Ends, Reply, server
  <2>2. CleanIsStored'
    BY <1>5, <2>1, SameAsItself DEF CleanIsStored
  <2>3. Sound(NoOp, steps', dirty', stored', blurred') /\ NoOp.at \notin TakingStages
    BY NoOpShape DEF Sound, TakingStages
  <2> QED BY <1>5, <2>1, <2>2, <2>3, NoOpShape, ReplacerMoves
<1> QED BY <1>1, <1>2, <1>3, <1>4, <1>6, <1>7 DEF Reacts

-----------------------------------------------------------------------------

\* Nothing is listed and nothing is stored.
LEMMA SavedAtFirst == EditorInit => SavedInv
<1> SUFFICES ASSUME EditorInit PROVE SavedInv
  OBVIOUS
<1>1. op = [r \in Requests |-> NoOp]
  BY DEF EditorInit
<1>2. \A r \in Requests : op[r] = NoOp
  BY <1>1
<1>3. OpShape
  BY <1>1, <1>2, NoOpShape DEF OpShape
<1>4. OnlySavesTake /\ OneReplacer /\ SavesAreSound
  BY <1>2, NoOpShape DEF OnlySavesTake, OneReplacer, SavesAreSound, Sound, TakingStages
<1>5. SameSteps(steps, stored)
  BY SameAsItself DEF EditorInit
<1> QED BY <1>3, <1>4, <1>5 DEF SavedInv, CleanIsStored

\* Two requests that replaced the list together stay noted.
LEMMA OverlapStays == overlapped /\ [Next]_vars => overlapped'
<1> SUFFICES ASSUME overlapped, [Next]_vars PROVE overlapped'
  OBVIOUS
<1>1. CASE ServerNext
  <2>1. CASE RecordStep \/ RefineStep \/ SessionDies
    BY <2>1 DEF RecordStep, RefineStep, SessionDies, seen
  <2>2. CASE \E r \in Requests : Serve(r)
    BY <2>2 DEF Serve, ServeOpen, ServeRecord, ServeClear, ServeClose, ServeCredentials,
                ServeSteps, ServeWorkflow, ServeRecording, OpFails, Mute, seen
  <2> QED BY <1>1, <2>1, <2>2 DEF ServerNext
<1>2. CASE \E p \in Polls : PollAsk(p) \/ PollTold(p) \/ PollApply(p)
  BY <1>2 DEF PollAsk, PollTold, PollApply, pullRecording, NoPull, seen
<1>3. CASE update \/ remove \/ move \/ insert
  BY <1>3 DEF update, remove, move, insert, onChange
<1>4. CASE \E r \in Requests : Press(r)
  BY <1>4 DEF Press, startBrowser, setRecording, clearRecording, closeSession, save,
              runOrRepeat, schedule, Send
<1>5. CASE \E r \in Requests : Reacts(r)
  BY <1>5 DEF Reacts, Opened, Recording, Stopped, Cleared, Closed, StepsSaved, Loaded,
              pullRecording, seen
<1>6. CASE UNCHANGED vars
  BY <1>6 DEF vars, seen
<1> QED BY <1>1, <1>2, <1>3, <1>4, <1>5, <1>6 DEF Next, PageNext

\* Every step of the page or of the other end keeps the invariant, unless two
\* requests that replace the list meet.
LEMMA SavedStep == SavedInv /\ [Next]_vars /\ ~overlapped' => SavedInv'
<1> SUFFICES ASSUME SavedInv, [Next]_vars, ~overlapped' PROVE SavedInv'
  OBVIOUS
<1>1. CASE ServerNext
  BY <1>1, ServerKeeps
<1>2. CASE PageNext
  BY <1>2, PollKeeps, EditKeeps, ButtonKeeps, AnswerKeeps DEF PageNext
<1>3. CASE UNCHANGED vars
  BY <1>3, NothingMoves DEF vars, editor, server, seen
<1> QED BY <1>1, <1>2, <1>3 DEF Next

(* A list that is not marked unsaved is the one the workflow has, for any  *)
(* number of steps, polls, sessions, edits and requests at once (page.tsx: *)
(* 96-128, 508-561): schedule() apart, nothing clears the mark over a      *)
(* change, as long as no two requests that replace the list overlapped -   *)
(* which nothing on the page rules out.                                    *)
THEOREM CleanListIsSaved == Spec => []CleanMeansSaved
<1> DEFINE Inv == ~overlapped => SavedInv
<1>1. EditorInit => Inv
  BY SavedAtFirst
<1>2. Inv /\ [Next]_vars => Inv'
  BY SavedStep, OverlapStays
<1>3. Inv => CleanMeansSaved
  BY DEF SavedInv, CleanIsStored, CleanMeansSaved
<1> HIDE DEF Inv
<1> QED BY <1>1, <1>2, <1>3, PTL DEF Spec

-----------------------------------------------------------------------------
(* A set of numbers has a least one.                                       *)
LEMMA Least ==
  ASSUME NEW T, T \subseteq Nat, T # {}
  PROVE  \E x \in T : \A y \in T : x <= y
<1> DEFINE R == OpToRel(<, Nat)
<1>1. IsWellFoundedOn(R, Nat)
  BY NatLessThanWellFounded
<1>2. PICK x \in T : \A y \in T : ~ (<<y, x>> \in R)
  <2> HIDE DEF R
  <2> QED
    BY <1>1, WFMin
<1>3. \A y \in T : ~(y < x)
  BY <1>2 DEF OpToRel
<1> QED BY <1>3

\* How many of a set come up to k.
Rank(left, k) == Cardinality({j \in left : j <= k})

(* Going up, the numbers of a set are its first, its second, ...           *)
LEMMA Ranks ==
  ASSUME NEW m \in Nat, NEW left, \A k \in left : k \in 1..m
  PROVE  /\ Cardinality(left) \in Nat
         /\ \A k \in left : Rank(left, k) \in 1..Cardinality(left)
         /\ \A k, l \in left : k < l => Rank(left, k) < Rank(left, l)
         /\ \A n \in 1..Cardinality(left) : \E k \in left : Rank(left, k) = n
<1> DEFINE Low(k) == {j \in left : j <= k}
<1>0. \A j \in left : j \in Int /\ 1 <= j /\ j <= m
  OBVIOUS
<1>1. IsFiniteSet(left) /\ Cardinality(left) \in Nat
  <2>1. IsFiniteSet(1..m) /\ left \subseteq 1..m
    BY FS_Interval
  <2>2. IsFiniteSet(left)
    BY <2>1, FS_Subset
  <2> QED BY <2>2, FS_CardinalityType
<1>2. \A k : IsFiniteSet(Low(k)) /\ Rank(left, k) \in Nat /\ Rank(left, k) <= Cardinality(left)
  <2> TAKE k
  <2>1. Low(k) \subseteq left
    OBVIOUS
  <2>2. IsFiniteSet(Low(k)) /\ Cardinality(Low(k)) <= Cardinality(left)
    BY <1>1, <2>1, FS_Subset
  <2>3. Cardinality(Low(k)) \in Nat
    BY <2>2, FS_CardinalityType
  <2> QED BY <2>2, <2>3 DEF Rank
<1>3. \A k \in left : Rank(left, k) = Rank(left, k - 1) + 1
  <2> TAKE k \in left
  <2>1. Low(k) = Low(k - 1) \cup {k} /\ k \notin Low(k - 1)
    BY <1>0
  <2>2. Cardinality(Low(k - 1) \cup {k}) = Cardinality(Low(k - 1)) + 1
    <3> HIDE DEF Low
    <3> QED BY <1>2, <2>1, FS_AddElement
  <2> QED BY <2>1, <2>2 DEF Rank
<1>4. \A k, l \in Int : k <= l => Rank(left, k) <= Rank(left, l)
  <2> TAKE k, l \in Int
  <2> HAVE k <= l
  <2>1. Low(k) \subseteq Low(l)
    BY <1>0
  <2>2. Cardinality(Low(k)) <= Cardinality(Low(l))
    BY <1>2, <2>1, FS_Subset
  <2> QED BY <2>2 DEF Rank
<1>5. \A k, l \in left : k < l => Rank(left, k) < Rank(left, l)
  <2> TAKE k, l \in left
  <2> HAVE k < l
  <2>1. k \in Int /\ l \in Int /\ l - 1 \in Int /\ k <= l - 1
    BY <1>0
  <2>2. Rank(left, k) <= Rank(left, l - 1)
    BY <1>4, <2>1
  <2>3. Rank(left, l - 1) \in Nat /\ Rank(left, l) = Rank(left, l - 1) + 1 /\ Rank(left, k) \in Nat
    BY <1>2, <1>3
  <2> QED BY <2>2, <2>3
<1>6. \A k \in left : Rank(left, k) \in 1..Cardinality(left)
  <2> TAKE k \in left
  <2>1. /\ Rank(left, k) = Rank(left, k - 1) + 1 /\ Rank(left, k - 1) \in Nat
        /\ Rank(left, k) <= Cardinality(left)
    BY <1>2, <1>3
  <2> QED BY <1>1, <2>1
<1>7. \A n \in 1..Cardinality(left) : \E k \in left : Rank(left, k) = n
  <2> TAKE n \in 1..Cardinality(left)
  <2> DEFINE T == {k \in 0..m : n <= Rank(left, k)}
  <2>1. Low(m) = left /\ Low(0) = {}
    BY <1>0
  <2>2. Rank(left, m) = Cardinality(left) /\ Rank(left, 0) = 0
    BY <2>1, FS_EmptySet DEF Rank
  <2>3. PICK t \in T : \A y \in T : t <= y
    <3>1. T # {} /\ T \subseteq Nat
      BY <1>1, <2>2
    <3> HIDE DEF T
    <3> QED BY <3>1, Least
  <2>4. t \in 1..m /\ n <= Rank(left, t) /\ ~(n <= Rank(left, t - 1))
    BY <2>2, <2>3
  <2>5. t \in left
    <3> SUFFICES ASSUME t \notin left PROVE FALSE
      OBVIOUS
    <3>1. Low(t) = Low(t - 1)
      BY <1>0, <2>4
    <3> QED BY <2>4, <3>1 DEF Rank
  <2>6. Rank(left, t) = Rank(left, t - 1) + 1 /\ Rank(left, t - 1) \in Nat
    BY <1>2, <1>3, <2>5
  <2>7. Rank(left, t) = n
    BY <2>4, <2>6
  <2> QED BY <2>5, <2>7
<1> QED BY <1>1, <1>5, <1>6, <1>7
\* No two steps of one id.
Unique(list) == \A j, k \in DOMAIN list : list[j].id = list[k].id => j = k

(* What Without() leaves: the steps of other ids, none of them twice.      *)
LEMMA WithoutLeaves ==
  ASSUME NEW S, NEW list \in Seq(S), NEW ids
  PROVE  /\ Without(list, ids) \in Seq(S)
         /\ \A n \in DOMAIN Without(list, ids) : \E k \in DOMAIN list :
              Without(list, ids)[n] = list[k] /\ list[k].id \notin ids
         /\ \A k \in DOMAIN list : list[k].id \notin ids =>
              \E n \in DOMAIN Without(list, ids) : Without(list, ids)[n] = list[k]
         /\ Unique(list) => Unique(Without(list, ids))
<1> DEFINE left == {k \in DOMAIN list : list[k].id \notin ids}
           size == Cardinality(left)
           nth(n) == CHOOSE k \in left : Rank(left, k) = n
           rest == [n \in 1..size |-> list[nth(n)]]
<1>1. /\ Len(list) \in Nat /\ DOMAIN list = 1..Len(list)
      /\ \A k \in left : k \in 1..Len(list)
  OBVIOUS
<1>2. Without(list, ids) = rest
  BY DEF Without, Rank
<1>3. \A k \in left : k \in DOMAIN list /\ list[k].id \notin ids /\ list[k] \in S
  OBVIOUS
<1>4. \A k \in DOMAIN list : list[k].id \notin ids => k \in left
  OBVIOUS
<1> HIDE DEF left
<1>5. /\ size \in Nat
      /\ \A k \in left : Rank(left, k) \in 1..size
      /\ \A k, l \in left : k < l => Rank(left, k) < Rank(left, l)
      /\ \A n \in 1..size : \E k \in left : Rank(left, k) = n
  BY <1>1, Ranks
<1> HIDE DEF size
<1>6. \A n \in 1..size : nth(n) \in left /\ Rank(left, nth(n)) = n
  BY <1>5
<1>7. \A k \in left : nth(Rank(left, k)) = k
  <2> TAKE k \in left
  <2> DEFINE l == nth(Rank(left, k))
  <2>1. l \in left /\ Rank(left, l) = Rank(left, k)
    BY <1>5, <1>6
  <2> HIDE DEF l
  <2>2. k \in Int /\ l \in Int /\ Rank(left, k) \in Int
    BY <1>1, <1>5, <2>1
  <2>3. ~(k < l) /\ ~(l < k)
    BY <1>5, <2>1, <2>2
  <2>4. l = k
    BY <2>2, <2>3
  <2> QED BY <2>4 DEF l
<1> HIDE DEF nth
<1>8. /\ DOMAIN rest = 1..size
      /\ \A n \in 1..size : rest[n] = list[nth(n)]
  OBVIOUS
<1>9. rest \in Seq(S)
  BY <1>3, <1>5, <1>6, <1>8
<1>10. \A n \in DOMAIN rest : \E k \in DOMAIN list : rest[n] = list[k] /\ list[k].id \notin ids
  BY <1>3, <1>6, <1>8
<1>11. \A k \in DOMAIN list : list[k].id \notin ids => \E n \in DOMAIN rest : rest[n] = list[k]
  BY <1>4, <1>5, <1>7, <1>8
<1>12. Unique(list) => Unique(rest)
  <2> HAVE Unique(list)
  <2> SUFFICES ASSUME NEW m \in DOMAIN rest, NEW n \in DOMAIN rest, rest[m].id = rest[n].id
               PROVE  m = n
    BY DEF Unique
  <2>1. nth(m) = nth(n)
    BY <1>3, <1>6, <1>8 DEF Unique
  <2> QED BY <1>6, <1>8, <2>1
<1> HIDE DEF rest
<1> QED BY <1>2, <1>9, <1>10, <1>11, <1>12
(* A list without its k-th step.                                           *)
LEMMA RemovedAt ==
  ASSUME NEW S, NEW list \in Seq(S), NEW k \in 1..Len(list)
  PROVE  /\ RemoveAt(list, k) \in Seq(S) /\ Len(RemoveAt(list, k)) = Len(list) - 1
         /\ \A n \in 1..Len(list) - 1 :
              RemoveAt(list, k)[n] = IF n < k THEN list[n] ELSE list[n + 1]
<1> DEFINE left == SubSeq(list, 1, k - 1)
           right == SubSeq(list, k + 1, Len(list))
<1>1. /\ Len(list) \in Nat /\ k \in Int
      /\ left \in Seq(S) /\ Len(left) = k - 1
      /\ \A n \in 1..k - 1 : left[n] = list[n]
  OBVIOUS
<1>2. /\ right \in Seq(S) /\ Len(right) = Len(list) - k
      /\ \A n \in 1..Len(list) - k : right[n] = list[k + n]
  OBVIOUS
<1>3. RemoveAt(list, k) = left \o right
  BY DEF RemoveAt
<1> HIDE DEF left, right
<1>4. /\ left \o right \in Seq(S) /\ Len(left \o right) = Len(left) + Len(right)
      /\ \A n \in 1..Len(left) + Len(right) :
           (left \o right)[n] = IF n <= Len(left) THEN left[n] ELSE right[n - Len(left)]
  BY <1>1, <1>2, ConcatProperties
<1>5. \A n \in 1..Len(list) - 1 :
        (left \o right)[n] = IF n < k THEN list[n] ELSE list[n + 1]
  <2> TAKE n \in 1..Len(list) - 1
  <2>1. CASE n < k
    BY <1>1, <1>2, <1>4, <2>1
  <2>2. CASE ~(n < k)
    <3> DEFINE m == n - (k - 1)
    <3>1. m \in 1..Len(list) - k /\ k + m = n + 1
      BY <1>1, <2>2
    <3>2. (left \o right)[n] = right[m]
      BY <1>1, <1>2, <1>4, <2>2
    <3> HIDE DEF m
    <3>3. right[m] = list[k + m]
      BY <1>2, <3>1
    <3> QED BY <2>2, <3>1, <3>2, <3>3
  <2> QED BY <2>1, <2>2
<1>6. Len(left \o right) = Len(list) - 1
  BY <1>1, <1>2, <1>4
<1> QED BY <1>3, <1>4, <1>5, <1>6, Zenon

(* A list with a step put in.                                              *)
LEMMA InsertedAt ==
  ASSUME NEW S, NEW list \in Seq(S), NEW k \in 1..Len(list) + 1, NEW e \in S
  PROVE  /\ InsertAt(list, k, e) \in Seq(S) /\ Len(InsertAt(list, k, e)) = Len(list) + 1
         /\ \A n \in 1..Len(list) + 1 : InsertAt(list, k, e)[n] =
              IF n < k THEN list[n] ELSE IF n = k THEN e ELSE list[n - 1]
<1> DEFINE left == SubSeq(list, 1, k - 1)
           right == SubSeq(list, k, Len(list))
           upto == left \o <<e>>
<1>1. /\ Len(list) \in Nat /\ k \in Int
      /\ left \in Seq(S) /\ Len(left) = k - 1
      /\ \A n \in 1..k - 1 : left[n] = list[n]
  OBVIOUS
<1>2. /\ right \in Seq(S) /\ Len(right) = Len(list) - k + 1
      /\ \A n \in 1..Len(list) - k + 1 : right[n] = list[k + n - 1]
  OBVIOUS
<1>3. InsertAt(list, k, e) = upto \o right
  BY DEF InsertAt
<1> HIDE DEF left, right
<1>4. /\ upto \in Seq(S) /\ Len(upto) = k
      /\ \A n \in 1..k - 1 : upto[n] = list[n]
      /\ upto[k] = e
  BY <1>1
<1> HIDE DEF upto
<1>5. /\ upto \o right \in Seq(S) /\ Len(upto \o right) = Len(upto) + Len(right)
      /\ \A n \in 1..Len(upto) + Len(right) :
           (upto \o right)[n] = IF n <= Len(upto) THEN upto[n] ELSE right[n - Len(upto)]
  BY <1>2, <1>4, ConcatProperties
<1>6. \A n \in 1..Len(list) + 1 : (upto \o right)[n] =
        IF n < k THEN list[n] ELSE IF n = k THEN e ELSE list[n - 1]
  <2> TAKE n \in 1..Len(list) + 1
  <2>1. CASE n <= k
    BY <1>1, <1>2, <1>4, <1>5, <2>1
  <2>2. CASE ~(n <= k)
    <3> DEFINE m == n - k
    <3>1. m \in 1..Len(list) - k + 1 /\ k + m - 1 = n - 1
      BY <1>1, <2>2
    <3>2. (upto \o right)[n] = right[m]
      BY <1>1, <1>2, <1>4, <1>5, <2>2
    <3> HIDE DEF m
    <3>3. right[m] = list[k + m - 1]
      BY <1>2, <3>1
    <3> QED BY <1>1, <2>2, <3>1, <3>2, <3>3
  <2> QED BY <2>1, <2>2
<1>7. Len(upto \o right) = Len(list) + 1
  BY <1>1, <1>2, <1>4, <1>5
<1> QED BY <1>3, <1>5, <1>6, <1>7, Zenon
StepRecords ==
  [id : StepIds, says : 0..Mine, form : {"recorded", "stored"}, final : BOOLEAN]

\* A list of steps, the first `top` ids at most, each once.
Tidy(list, top) ==
  /\ list \in Seq(StepRecords) /\ Unique(list)
  /\ \A k \in DOMAIN list : list[k].id <= top

\* No step is the user's.
NotMine(list) == \A k \in DOMAIN list : list[k].says # Mine

Rewritten(list, i) == \E k \in DOMAIN list : list[k].id = i /\ list[k].says = Mine

\* The page has had the step from the recorder if this list has it.
KnownUnwritten(list, i) ==
  i \in IdsOf(list) => i \in DOMAIN lastPulled /\ lastPulled[i].says # Mine

(* What is pulled is by the id it is asked for.                            *)
LEMMA FoundById ==
  ASSUME NEW list \in Seq(StepRecords)
  PROVE  /\ DOMAIN ById(list) = IdsOf(list)
         /\ \A i \in IdsOf(list) : \E k \in DOMAIN list :
              ById(list)[i] = list[k] /\ list[k].id = i
BY DEF ById, IdsOf

(* A step is merged into one of the same id, and is left as it is where    *)
(* the user has rewritten it.                                              *)
LEMMA MergedSteps ==
  ASSUME NEW incoming \in Seq(StepRecords), NEW mine \in StepRecords
  PROVE  /\ MergedStep(mine, incoming) \in StepRecords
         /\ MergedStep(mine, incoming).id = mine.id
         /\ mine.says = Mine
              /\ (mine.id \in IdsOf(incoming) =>
                    mine.id \in DOMAIN lastPulled /\ lastPulled[mine.id].says # Mine) =>
              MergedStep(mine, incoming) = mine
<1>1. mine.id \in IdsOf(incoming) =>
        /\ ById(incoming)[mine.id] \in StepRecords
        /\ ById(incoming)[mine.id].id = mine.id
  BY FoundById
<1> QED BY <1>1 DEF MergedStep

(* The merged list has each step once, none the user deleted, and what the *)
(* user wrote as long as the last answer had those steps too.              *)
LEMMA Merging ==
  ASSUME NEW incoming, NEW top, Tidy(steps, top), Tidy(incoming, top)
  PROVE  /\ Tidy(mergeRecording(incoming), top)
         /\ \A i \in IdsOf(mergeRecording(incoming)) :
              i \notin removed /\ i \in IdsOf(steps) \cup IdsOf(incoming)
         /\ \A i : i \notin removed /\ Rewritten(steps, i) /\ KnownUnwritten(incoming, i) =>
              Rewritten(mergeRecording(incoming), i)
<1> DEFINE kept == Without(steps, removed)
           new == Without(incoming, removed \cup IdsOf(steps))
           old == [k \in DOMAIN kept |-> MergedStep(kept[k], incoming)]
           merged == old \o new
<1>1. mergeRecording(incoming) = merged
  BY DEF mergeRecording
<1>2. /\ steps \in Seq(StepRecords) /\ incoming \in Seq(StepRecords)
      /\ Unique(steps) /\ Unique(incoming)
      /\ \A k \in DOMAIN steps : steps[k].id <= top
      /\ \A k \in DOMAIN incoming : incoming[k].id <= top
  BY DEF Tidy
<1>3. /\ kept \in Seq(StepRecords) /\ Unique(kept)
      /\ \A n \in DOMAIN kept : \E k \in DOMAIN steps :
           kept[n] = steps[k] /\ steps[k].id \notin removed
      /\ \A k \in DOMAIN steps : steps[k].id \notin removed =>
           \E n \in DOMAIN kept : kept[n] = steps[k]
  <2>0. steps \in Seq(StepRecords)
    BY <1>2
  <2>1. Unique(steps) => Unique(kept)
    BY <1>2, WithoutLeaves
  <2>2. /\ kept \in Seq(StepRecords)
        /\ \A n \in DOMAIN kept : \E k \in DOMAIN steps :
             kept[n] = steps[k] /\ steps[k].id \notin removed
    BY <1>2, WithoutLeaves
  <2>3. \A k \in DOMAIN steps : steps[k].id \notin removed =>
          \E n \in DOMAIN kept : kept[n] = steps[k]
    BY <2>0, WithoutLeaves
  <2> QED BY <1>2, <2>1, <2>2, <2>3
<1>4. /\ new \in Seq(StepRecords) /\ Unique(new)
      /\ \A n \in DOMAIN new : \E k \in DOMAIN incoming :
           new[n] = incoming[k] /\ incoming[k].id \notin removed \cup IdsOf(steps)
  BY <1>2, WithoutLeaves
<1> HIDE DEF kept, new
<1>5. /\ DOMAIN old = DOMAIN kept /\ old = [n \in DOMAIN kept |-> old[n]]
      /\ \A n \in DOMAIN old : old[n] = MergedStep(kept[n], incoming)
  OBVIOUS
<1> HIDE DEF old
<1>6. /\ DOMAIN kept = 1..Len(kept) /\ Len(kept) \in Nat
      /\ \A n \in DOMAIN kept : kept[n] \in StepRecords
  BY <1>3
<1>7. /\ old \in Seq(StepRecords) /\ Len(old) = Len(kept)
      /\ \A n \in DOMAIN old : old[n].id = kept[n].id
  <2>1. \A n \in DOMAIN old : old[n] \in StepRecords /\ old[n].id = kept[n].id
    BY <1>2, <1>5, <1>6, MergedSteps
  <2> QED BY <1>5, <1>6, <2>1
<1>8. /\ merged \in Seq(StepRecords) /\ Len(merged) = Len(old) + Len(new)
      /\ \A n \in 1..Len(old) + Len(new) :
           merged[n] = IF n <= Len(old) THEN old[n] ELSE new[n - Len(old)]
  <2>1. old \in Seq(StepRecords) /\ new \in Seq(StepRecords)
    BY <1>4, <1>7
  <2> QED BY <2>1, ConcatProperties
<1> HIDE DEF merged
<1>9. /\ \A n \in DOMAIN old : n \in DOMAIN merged /\ merged[n] = old[n]
      /\ \A n \in DOMAIN merged : n \notin DOMAIN old =>
           n - Len(old) \in DOMAIN new /\ merged[n] = new[n - Len(old)]
      /\ \A n \in DOMAIN merged : n \in Int
  BY <1>4, <1>7, <1>8
<1>10. \A n \in DOMAIN old :
         /\ old[n].id \in IdsOf(steps) /\ old[n].id \notin removed /\ old[n].id <= top
  BY <1>2, <1>3, <1>5, <1>7 DEF IdsOf
<1>11. \A n \in DOMAIN new :
         /\ new[n].id \in IdsOf(incoming) /\ new[n].id \notin IdsOf(steps)
         /\ new[n].id \notin removed /\ new[n].id <= top
  BY <1>2, <1>4 DEF IdsOf
<1>12. \A n \in DOMAIN merged :
         /\ merged[n].id \in IdsOf(steps) \cup IdsOf(incoming)
         /\ merged[n].id \notin removed /\ merged[n].id <= top
  BY <1>9, <1>10, <1>11
<1>13. Unique(merged)
  <2> SUFFICES ASSUME NEW m \in DOMAIN merged, NEW n \in DOMAIN merged,
                      merged[m].id = merged[n].id
               PROVE  m = n
    BY DEF Unique
  <2>1. CASE m \in DOMAIN old /\ n \in DOMAIN old
    BY <1>3, <1>5, <1>7, <1>9, <2>1 DEF Unique
  <2>2. CASE m \notin DOMAIN old /\ n \notin DOMAIN old
    <3>1. m - Len(old) = n - Len(old)
      BY <1>4, <1>9, <2>2 DEF Unique
    <3> QED BY <1>7, <1>9, <3>1
  <2>3. CASE (m \in DOMAIN old /\ n \notin DOMAIN old) \/ (m \notin DOMAIN old /\ n \in DOMAIN old)
    BY <1>9, <1>10, <1>11, <2>3
  <2> QED BY <2>1, <2>2, <2>3
<1>14. ASSUME NEW i, i \notin removed, Rewritten(steps, i),
              KnownUnwritten(incoming, i)
       PROVE  Rewritten(merged, i)
  <2>1. PICK k \in DOMAIN steps : steps[k].id = i /\ steps[k].says = Mine
    BY <1>14 DEF Rewritten
  <2>2. PICK n \in DOMAIN kept : kept[n] = steps[k]
    BY <1>3, <1>14, <2>1
  <2>3. MergedStep(kept[n], incoming) = kept[n]
    BY <1>2, <1>6, <1>14, <2>1, <2>2, MergedSteps DEF KnownUnwritten
  <2>4. n \in DOMAIN merged /\ merged[n] = kept[n]
    BY <1>5, <1>9, <2>3
  <2> QED BY <2>1, <2>2, <2>4 DEF Rewritten
<1>15. Tidy(merged, top)
  BY <1>8, <1>12, <1>13 DEF Tidy
<1>16. \A i \in IdsOf(merged) : i \notin removed /\ i \in IdsOf(steps) \cup IdsOf(incoming)
  BY <1>12 DEF IdsOf
<1> QED BY <1>1, <1>14, <1>15, <1>16
-----------------------------------------------------------------------------
\* Answers that have arrived and are not applied yet.
InHand ==
  {poll[p].answer : p \in {q \in Polls : poll[q].at = "pulled"}}
    \cup {op[r].answer : r \in {q \in Requests : op[q].at = "pulled"}}

\* The list a save takes to the rows and back.
Takes(o) == o.at \in TakingStages
Taken(o, rows) == IF o.at \in {"creds", "put"} THEN o.payload ELSE rows

\* Its rows will replace the list.
ComesBack(o) == Takes(o) /\ o.kind \in {"save", "run"}

\* The ids the page has or will be given back.
Known ==
  IdsOf(steps) \cup UNION {IdsOf(Taken(op[r], stored)) : r \in {q \in Requests : Takes(op[q])}}

\* A poll's state written out.
IsPoll(r) == \E at, of, alive, on, answer :
  r = [at |-> at, of |-> of, alive |-> alive, on |-> on, answer |-> answer]

PollShape == poll = [p \in Polls |-> poll[p]] /\ \A p \in Polls : IsPoll(poll[p])

ListsTyped ==
  /\ made \in Nat /\ made <= MaxSteps /\ Tidy(steps, made)
  /\ \A r \in Requests : Takes(op[r]) => Tidy(Taken(op[r], stored), made)
  /\ own = [i \in StepIds |-> own[i]]

AnswersTyped ==
  /\ stamp \in Nat /\ applied \in Nat /\ applied <= stamp /\ crossed \in BOOLEAN
  /\ Tidy(rec, made) /\ NotMine(rec)
  /\ session = 0 => rec = <<>>
  /\ \A i \in DOMAIN lastPulled : lastPulled[i].says # Mine /\ i \in 1..made
  /\ \A a \in InHand :
       Tidy(a.steps, made) /\ NotMine(a.steps) /\ a.stamp \in Nat /\ a.stamp <= stamp

\* What asks for what.
Staged(o) ==
  /\ o.at \in {"load", "loaded"} => o.kind = "save"
  /\ o.kind = "stop" => o.of # 0
  /\ o.at = "pull" => o.kind = "stop"

Stages ==
  /\ \A r \in Requests : Staged(op[r])
  /\ \A p \in Polls : poll[p].at = "told" => poll[p].of # 0

\* An answer as new as the recording has the steps the recording has.
Latest ==
  session # 0 => \A a \in InHand : a.stamp = stamp => IdsOf(a.steps) = IdsOf(rec)

\* The ids that can still come in an answer of time t or later.
Later(t) == IdsOf(rec) \cup UNION {IdsOf(a.steps) : a \in {b \in InHand : t <= b.stamp}}

\* Once the recorder has dropped a step it never has it again: what was there at
\* time t, and is in a later answer, is in every answer between.
Lasts(ids, t) ==
  \A a \in InHand : t <= a.stamp => ids \cap Later(a.stamp) \subseteq IdsOf(a.steps)

Lasting ==
  ~crossed => /\ Lasts(DOMAIN lastPulled, applied)
              /\ \A a \in InHand : Lasts(IdsOf(a.steps), a.stamp)

\* A step the page has, and that can come again, came the last time.
KnownPulled == ~crossed => Known \cap Later(applied) \subseteq DOMAIN lastPulled

GoneStay ==
  \A i \in StepIds : own[i] = "gone" =>
    /\ i \in removed /\ i \notin IdsOf(steps)
    /\ \A r \in Requests : ComesBack(op[r]) => i \notin IdsOf(Taken(op[r], stored))

MineStay ==
  \A i \in StepIds : own[i] = "mine" =>
    /\ i \notin removed
    /\ ~crossed =>
         /\ Rewritten(steps, i)
         /\ \A r \in Requests : ComesBack(op[r]) => Rewritten(Taken(op[r], stored), i)

EditsInv ==
  /\ PollShape /\ ListsTyped /\ AnswersTyped /\ Stages /\ Latest
  /\ Lasting /\ KnownPulled /\ GoneStay /\ MineStay

\* Every request still carries what it carried, or nothing.
CarriesOn ==
  \A r \in Requests : Takes(op'[r]) =>
    /\ Takes(op[r]) /\ op'[r].kind = op[r].kind /\ Tidy(Taken(op'[r], stored'), made)
    /\ IdsOf(Taken(op'[r], stored')) = IdsOf(Taken(op[r], stored))
    /\ \A i : Rewritten(Taken(op[r], stored), i) => Rewritten(Taken(op'[r], stored'), i)

\* What is known stays what is known.
LEMMA NothingElseKnown ==
  ASSUME CarriesOn, IdsOf(steps') \subseteq IdsOf(steps)
  PROVE  Known' \subseteq Known
<1> SUFFICES ASSUME NEW i \in Known', i \notin IdsOf(steps') PROVE i \in Known
  BY DEF Known
<1>1. PICK r \in Requests : Takes(op'[r]) /\ i \in IdsOf(Taken(op'[r], stored'))
  BY DEF Known
<1> QED BY <1>1 DEF CarriesOn, Known

\* A list that a save takes along keeps what the user did.
LEMMA ComesBackAsBefore ==
  ASSUME CarriesOn
  PROVE  \A r \in Requests : ComesBack(op'[r]) =>
           /\ ComesBack(op[r])
           /\ IdsOf(Taken(op'[r], stored')) = IdsOf(Taken(op[r], stored))
           /\ \A i : Rewritten(Taken(op[r], stored), i) => Rewritten(Taken(op'[r], stored'), i)
BY DEF CarriesOn, ComesBack

(* Answers are applied or thrown away, the recording is dropped: what can  *)
(* come later is among what could.                                         *)
LEMMA NothingNew ==
  ASSUME EditsInv, UNCHANGED <<lastPulled, applied, crossed>>, InHand' \subseteq InHand,
         IdsOf(rec)' \subseteq IdsOf(rec), Known' \subseteq Known
  PROVE  Lasting' /\ KnownPulled'
<1>1. \A t : Later(t)' \subseteq Later(t)
  BY DEF Later
<1>2. Lasting'
  <2> SUFFICES ASSUME ~crossed PROVE Lasts(DOMAIN lastPulled, applied)' /\ \A a \in InHand' : Lasts(IdsOf(a.steps), a.stamp)'
    BY DEF Lasting
  <2>1. Lasts(DOMAIN lastPulled, applied) /\ \A a \in InHand : Lasts(IdsOf(a.steps), a.stamp)
    BY DEF EditsInv, Lasting
  <2> QED BY <1>1, <2>1 DEF Lasts
<1>3. KnownPulled'
  BY <1>1 DEF EditsInv, KnownPulled
<1> QED BY <1>2, <1>3

\* The empty list has no step and is in order.
LEMMA NothingHas == IdsOf(<<>>) = {} /\ \A top : Tidy(<<>>, top) /\ NotMine(<<>>)
BY DEF IdsOf, Tidy, NotMine, Unique

(* The page keeps its list, and nothing new is recorded.                   *)
LEMMA QuietKeeps ==
  ASSUME EditsInv, PollShape', Stages',
         UNCHANGED <<made, steps, lastPulled, removed, own, applied, crossed>>,
         \/ UNCHANGED <<session, rec, stamp>>
         \/ rec' = <<>> /\ session' = 0 /\ stamp' = stamp
         \/ rec' = <<>> /\ stamp' = stamp + 1,
         InHand' \subseteq InHand, CarriesOn
  PROVE  EditsInv'
<1>1. IdsOf(rec)' \subseteq IdsOf(rec) /\ Known' \subseteq Known
  BY NothingHas, NothingElseKnown DEF IdsOf
<1>2. Lasting' /\ KnownPulled'
  BY <1>1, NothingNew
<1>3. ListsTyped'
  BY DEF EditsInv, ListsTyped, CarriesOn
<1>4. AnswersTyped'
  BY NothingHas DEF EditsInv, AnswersTyped
<1>5. Latest'
  BY DEF EditsInv, AnswersTyped, Latest
<1>6. GoneStay' /\ MineStay'
  BY ComesBackAsBefore DEF EditsInv, GoneStay, MineStay
<1> QED BY <1>2, <1>3, <1>4, <1>5, <1>6 DEF EditsInv
\* The steps of a list and their ids.
LEMMA IdsAreNumbers ==
  \A list \in Seq(StepRecords) : \A k \in DOMAIN list :
    list[k] \in StepRecords /\ list[k].id \in StepIds /\ list[k].id \in Nat
<1> TAKE list \in Seq(StepRecords)
<1> TAKE k \in DOMAIN list
<1>1. list[k] \in StepRecords
  OBVIOUS
<1> QED BY <1>1, EditorAssumption DEF StepRecords, StepIds

(* A list that was in order stays so as more steps are made.               *)
LEMMA TidyStays ==
  ASSUME NEW top \in Nat, NEW more \in Nat, top <= more
  PROVE  \A list : Tidy(list, top) => Tidy(list, more)
<1>1. \A list : Tidy(list, top) => \A k \in DOMAIN list : list[k].id \in Nat
  BY IdsAreNumbers DEF Tidy
<1> QED BY <1>1 DEF Tidy

(* A step that is made now is in no list yet.                              *)
LEMMA NotMadeYet ==
  ASSUME made \in Nat
  PROVE  \A list : Tidy(list, made) => made + 1 \notin IdsOf(list)
<1>1. \A list : Tidy(list, made) => \A k \in DOMAIN list : list[k].id \in Nat /\ list[k].id <= made
  BY IdsAreNumbers DEF Tidy
<1> QED BY <1>1 DEF IdsOf

(* The recorder adds a step or rewrites its last.                          *)
LEMMA RecorderGrows ==
  ASSUME EditsInv,
         UNCHANGED <<op, poll, session, steps, stored, lastPulled, removed, own, applied, crossed>>,
         session # 0, stamp' = stamp + 1, made' \in Nat, made <= made', made' <= MaxSteps,
         Tidy(rec, made)', NotMine(rec'), IdsOf(rec') \subseteq IdsOf(rec) \cup {made + 1}
  PROVE  EditsInv'
<1>0. InHand' = InHand /\ Known' = Known /\ PollShape' /\ Stages'
  BY DEF EditsInv, InHand, Known, PollShape, Stages
<1>1. \A list : Tidy(list, made) => Tidy(list, made') /\ made + 1 \notin IdsOf(list)
  BY TidyStays, NotMadeYet DEF EditsInv, ListsTyped
<1>2. ListsTyped'
  BY <1>0, <1>1 DEF EditsInv, ListsTyped
<1>3. AnswersTyped'
  <2>1. /\ stamp \in Nat /\ applied \in Nat /\ applied <= stamp /\ crossed \in BOOLEAN
        /\ \A i \in DOMAIN lastPulled : lastPulled[i].says # Mine /\ i \in 1..made
        /\ \A a \in InHand :
             Tidy(a.steps, made) /\ NotMine(a.steps) /\ a.stamp \in Nat /\ a.stamp <= stamp
    BY DEF EditsInv, AnswersTyped
  <2>2. made \in Nat
    BY DEF EditsInv, ListsTyped
  <2>3. \A i \in DOMAIN lastPulled : i \in 1..made'
    BY <2>1, <2>2
  <2>4. \A a \in InHand' :
          Tidy(a.steps, made') /\ NotMine(a.steps) /\ a.stamp \in Nat /\ a.stamp <= stamp'
    BY <1>0, <1>1, <2>1
  <2> QED BY <2>1, <2>3, <2>4 DEF AnswersTyped
<1>4. Latest'
  BY <1>0 DEF EditsInv, AnswersTyped, Latest
<1>5. \A t : Later(t)' \subseteq Later(t) \cup {made + 1}
  BY <1>0 DEF Later
<1>6. made + 1 \notin Known /\ made + 1 \notin DOMAIN lastPulled
  BY <1>1 DEF EditsInv, ListsTyped, AnswersTyped, Known
<1>7. Lasting'
  <2> SUFFICES ASSUME ~crossed
               PROVE  Lasts(DOMAIN lastPulled, applied)' /\ \A a \in InHand' : Lasts(IdsOf(a.steps), a.stamp)'
    BY DEF Lasting
  <2>1. Lasts(DOMAIN lastPulled, applied) /\ \A a \in InHand : Lasts(IdsOf(a.steps), a.stamp)
    BY DEF EditsInv, Lasting
  <2>2. Lasts(DOMAIN lastPulled, applied)'
    BY <1>0, <1>5, <1>6, <2>1 DEF Lasts
  <2>3. \A a \in InHand : made + 1 \notin IdsOf(a.steps)
    BY <1>1 DEF EditsInv, AnswersTyped
  <2>4. \A a \in InHand' : Lasts(IdsOf(a.steps), a.stamp)'
    BY <1>0, <1>5, <2>1, <2>3 DEF Lasts
  <2> QED BY <2>2, <2>4
<1>8. KnownPulled'
  BY <1>0, <1>5, <1>6 DEF EditsInv, KnownPulled
<1>9. GoneStay' /\ MineStay'
  BY DEF EditsInv, GoneStay, MineStay
<1> QED BY <1>0, <1>2, <1>3, <1>4, <1>7, <1>8, <1>9 DEF EditsInv

(* The recording is on its way to the page.                                *)
LEMMA AnswerArrives ==
  ASSUME EditsInv, PollShape', Stages',
         UNCHANGED <<made, session, rec, stamp, steps, lastPulled, removed, own, applied, crossed>>,
         session # 0, CarriesOn,
         InHand' \subseteq InHand \cup {[steps |-> rec, stamp |-> stamp]}
  PROVE  EditsInv'
<1> DEFINE new == [steps |-> rec, stamp |-> stamp]
<1>0. new.steps = rec /\ new.stamp = stamp
  OBVIOUS
<1> HIDE DEF new
<1>1. \A a \in InHand' : a \in InHand \/ a = new
  BY DEF new
<1>2. Known' \subseteq Known
  BY NothingElseKnown
<1>3. ListsTyped'
  BY DEF EditsInv, ListsTyped, CarriesOn
<1>4. AnswersTyped'
  BY <1>0, <1>1 DEF EditsInv, AnswersTyped
<1>5. Latest'
  BY <1>0, <1>1 DEF EditsInv, Latest
<1>6. \A t : Later(t)' \subseteq Later(t)
  BY <1>0, <1>1 DEF Later
<1>7. stamp \in Nat /\ \A a \in InHand' : a.stamp \in Nat /\ a.stamp <= stamp
  BY <1>0, <1>1 DEF EditsInv, AnswersTyped
<1>8. Later(stamp) \subseteq IdsOf(rec)
  BY <1>7 DEF EditsInv, AnswersTyped, Latest, Later
<1>9. Lasting'
  <2> SUFFICES ASSUME ~crossed
               PROVE  Lasts(DOMAIN lastPulled, applied)' /\ \A a \in InHand' : Lasts(IdsOf(a.steps), a.stamp)'
    BY DEF Lasting
  <2>1. Lasts(DOMAIN lastPulled, applied) /\ \A a \in InHand : Lasts(IdsOf(a.steps), a.stamp)
    BY DEF EditsInv, Lasting
  <2>2. \A ids, t : Lasts(ids, t) => \A a \in InHand' : t <= a.stamp => ids \cap Later(a.stamp)' \subseteq IdsOf(a.steps)
    BY <1>0, <1>1, <1>6, <1>8 DEF Lasts
  <2>3. Lasts(DOMAIN lastPulled, applied)'
    BY <2>1, <2>2 DEF Lasts
  <2>4. \A a \in InHand' : Lasts(IdsOf(a.steps), a.stamp)'
    <3> SUFFICES ASSUME NEW a \in InHand', NEW b \in InHand', a.stamp <= b.stamp
                 PROVE  IdsOf(a.steps) \cap Later(b.stamp)' \subseteq IdsOf(b.steps)
      BY DEF Lasts
    <3>1. CASE a \in InHand
      BY <2>1, <2>2, <3>1
    <3>2. CASE a = new
      <4>1. b.stamp = stamp
        BY <1>0, <1>7, <3>2
      <4>2. IdsOf(b.steps) = IdsOf(rec)
        BY <1>0, <1>1, <4>1 DEF EditsInv, Latest
      <4> QED BY <1>0, <3>2, <4>2
    <3> QED BY <1>1, <3>1, <3>2
  <2> QED BY <2>3, <2>4
<1>10. KnownPulled'
  BY <1>2, <1>6 DEF EditsInv, KnownPulled
<1>11. GoneStay' /\ MineStay'
  BY ComesBackAsBefore DEF EditsInv, GoneStay, MineStay
<1> QED BY <1>3, <1>4, <1>5, <1>9, <1>10, <1>11 DEF EditsInv

(* An answer is merged in.                                                 *)
LEMMA AnswerMerged ==
  ASSUME EditsInv, PollShape', Stages', NEW answer \in InHand, pullRecording(answer),
         UNCHANGED <<made, session, rec, stamp>>, CarriesOn, InHand' \subseteq InHand
  PROVE  EditsInv'
<1>1. /\ lastPulled' = ById(answer.steps) /\ steps' = mergeRecording(answer.steps)
      /\ applied' = IF answer.stamp > applied THEN answer.stamp ELSE applied
      /\ crossed' = (crossed \/ answer.stamp < applied)
      /\ removed' = removed /\ own' = own
  BY DEF pullRecording
<1>2. /\ Tidy(steps, made) /\ Tidy(answer.steps, made) /\ NotMine(answer.steps)
      /\ answer.stamp \in Nat /\ answer.stamp <= stamp
      /\ stamp \in Nat /\ applied \in Nat /\ applied <= stamp /\ crossed \in BOOLEAN
  BY DEF EditsInv, ListsTyped, AnswersTyped
<1>3. /\ Tidy(steps', made)
      /\ \A i \in IdsOf(steps') : i \notin removed /\ i \in IdsOf(steps) \cup IdsOf(answer.steps)
      /\ \A i : i \notin removed /\ Rewritten(steps, i) /\ KnownUnwritten(answer.steps, i) =>
           Rewritten(steps', i)
  BY <1>1, <1>2, Merging
<1>4. /\ DOMAIN lastPulled' = IdsOf(answer.steps)
      /\ \A i \in DOMAIN lastPulled' : lastPulled'[i].says # Mine /\ i \in 1..made
  <2>1. answer.steps \in Seq(StepRecords)
    BY <1>2 DEF Tidy
  <2>2. /\ DOMAIN ById(answer.steps) = IdsOf(answer.steps)
        /\ \A i \in IdsOf(answer.steps) : \E k \in DOMAIN answer.steps :
             ById(answer.steps)[i] = answer.steps[k] /\ answer.steps[k].id = i
    BY <2>1, FoundById
  <2>3. \A k \in DOMAIN answer.steps : answer.steps[k].id \in 1..made
    <3> TAKE k \in DOMAIN answer.steps
    <3>1. answer.steps[k].id \in StepIds /\ answer.steps[k].id <= made
      BY <1>2, <2>1, IdsAreNumbers DEF Tidy
    <3> QED BY <3>1, EditorAssumption DEF EditsInv, ListsTyped, StepIds
  <2> QED BY <1>1, <1>2, <2>2, <2>3 DEF NotMine
<1>5. ListsTyped'
  BY <1>1, <1>3 DEF EditsInv, ListsTyped, CarriesOn
<1>6. AnswersTyped'
  BY <1>1, <1>2, <1>4 DEF EditsInv, AnswersTyped
<1>7. Latest'
  BY DEF EditsInv, Latest
<1>8. \A t : Later(t)' \subseteq Later(t)
  BY DEF Later
<1>9. ~crossed' => ~crossed /\ applied <= answer.stamp /\ applied' = answer.stamp
  <2> HAVE ~crossed'
  <2>1. ~crossed /\ ~(answer.stamp < applied)
    BY <1>1
  <2> QED BY <1>1, <1>2, <2>1
<1>10. ~crossed => Lasts(DOMAIN lastPulled, applied) /\ \A a \in InHand : Lasts(IdsOf(a.steps), a.stamp)
  BY DEF EditsInv, Lasting
<1>11. Lasting'
  <2> SUFFICES ASSUME ~crossed'
               PROVE  Lasts(DOMAIN lastPulled, applied)' /\ \A a \in InHand' : Lasts(IdsOf(a.steps), a.stamp)'
    BY DEF Lasting
  <2>1. \A a \in InHand : Lasts(IdsOf(a.steps), a.stamp)
    BY <1>9, <1>10
  <2>2. \A a \in InHand : Lasts(IdsOf(a.steps), a.stamp)'
    BY <1>8, <2>1 DEF Lasts
  <2> QED BY <1>4, <1>9, <2>2
<1>12. \A t \in Nat : applied <= t => Later(t) \subseteq Later(applied)
  <2>1. \A a \in InHand : a.stamp \in Nat
    BY DEF EditsInv, AnswersTyped
  <2> QED BY <1>2, <2>1 DEF Later
<1>13. KnownPulled'
  <2> SUFFICES ASSUME ~crossed', NEW i \in Known', i \in Later(applied)'
               PROVE  i \in DOMAIN lastPulled'
    BY DEF KnownPulled
  <2> SUFFICES ASSUME i \notin IdsOf(answer.steps) PROVE FALSE
    BY <1>4
  <2>1. i \in Known
    <3>1. CASE i \in IdsOf(steps')
      BY <1>3, <3>1 DEF Known
    <3>2. CASE i \notin IdsOf(steps')
      <4>1. PICK r \in Requests : Takes(op'[r]) /\ i \in IdsOf(Taken(op'[r], stored'))
        BY <3>2 DEF Known
      <4> QED BY <4>1 DEF CarriesOn, Known
    <3> QED BY <3>1, <3>2
  <2>2. i \in Later(answer.stamp) /\ i \in Later(applied)
    BY <1>2, <1>8, <1>9, <1>12
  <2>3. i \in DOMAIN lastPulled
    BY <1>9, <2>1, <2>2 DEF EditsInv, KnownPulled
  <2> QED BY <1>9, <1>10, <2>2, <2>3 DEF Lasts
<1>14. GoneStay'
  BY <1>1, <1>3, ComesBackAsBefore DEF EditsInv, GoneStay
<1>15. MineStay'
  <2> SUFFICES ASSUME NEW i \in StepIds, own[i] = "mine"
               PROVE  /\ i \notin removed
                      /\ ~crossed' =>
                           /\ Rewritten(steps', i)
                           /\ \A r \in Requests :
                                ComesBack(op'[r]) => Rewritten(Taken(op'[r], stored'), i)
    BY <1>1 DEF MineStay
  <2>1. /\ i \notin removed
        /\ ~crossed =>
             /\ Rewritten(steps, i)
             /\ \A r \in Requests : ComesBack(op[r]) => Rewritten(Taken(op[r], stored), i)
    BY DEF EditsInv, MineStay
  <2> SUFFICES ASSUME ~crossed'
               PROVE  /\ Rewritten(steps', i)
                      /\ \A r \in Requests :
                           ComesBack(op'[r]) => Rewritten(Taken(op'[r], stored'), i)
    BY <2>1
  <2>2. KnownUnwritten(answer.steps, i)
    <3>1. i \in IdsOf(steps)
      BY <1>9, <2>1 DEF Rewritten, IdsOf
    <3>2. i \in IdsOf(answer.steps) => i \in Later(applied)
      BY <1>9 DEF Later
    <3>3. i \in IdsOf(answer.steps) => i \in DOMAIN lastPulled
      BY <1>9, <3>1, <3>2 DEF EditsInv, KnownPulled, Known
    <3> QED BY <3>3 DEF EditsInv, AnswersTyped, KnownUnwritten
  <2>3. Rewritten(steps', i)
    <3>1. Rewritten(steps, i) /\ i \notin removed
      BY <1>9, <2>1
    <3> QED BY <1>3, <2>2, <3>1
  <2> QED BY <1>9, <2>1, <2>3, ComesBackAsBefore
<1> QED BY <1>5, <1>6, <1>7, <1>11, <1>13, <1>14, <1>15 DEF EditsInv
(* The user changes one step of the list.                                  *)
LEMMA EditedByHand ==
  ASSUME EditsInv, NEW next, NEW i \in StepIds, NEW did, onChange(next, i, did),
         made' \in Nat, made <= made', made' <= MaxSteps, Tidy(next, made'),
         IdsOf(next) \subseteq IdsOf(steps) \cup {made + 1},
         IdsOf(steps) \subseteq IdsOf(next) \cup {i},
         made + 1 \in IdsOf(next) => i = made + 1,
         did = "gone" => i \in IdsOf(steps) /\ i \notin IdsOf(next),
         did = "mine" => i \in IdsOf(next) /\ (~crossed => Rewritten(next, i)),
         \A j : j # i /\ Rewritten(steps, j) => Rewritten(next, j)
  PROVE  EditsInv'
<1>1. /\ steps' = next /\ removed' = removed \cup (IdsOf(steps) \ IdsOf(next))
      /\ own' = [own EXCEPT ![i] = IF Saving \/ i \in removed THEN "none" ELSE did]
      /\ UNCHANGED <<session, rec, stamp, lastPulled, poll, op, stored, applied, crossed>>
  BY DEF onChange, worker, server
<1>2. /\ InHand' = InHand /\ PollShape' /\ Stages' /\ Latest'
      /\ \A t : Later(t)' = Later(t)
  <2>1. InHand' = InHand
    BY <1>1 DEF InHand
  <2>2. PollShape' /\ Stages' /\ Latest'
    BY <1>1, <2>1 DEF EditsInv, PollShape, Stages, Latest
  <2>3. \A t : Later(t)' = Later(t)
    BY <1>1, <2>1 DEF Later
  <2> QED BY <2>1, <2>2, <2>3
<1>3. \A list : Tidy(list, made) => Tidy(list, made') /\ made + 1 \notin IdsOf(list)
  BY TidyStays, NotMadeYet DEF EditsInv, ListsTyped
<1>4. own = [j \in StepIds |-> own[j]] /\ made \in Nat
  BY DEF EditsInv, ListsTyped
<1>5. /\ own' = [j \in StepIds |-> own'[j]]
      /\ own'[i] = IF Saving \/ i \in removed THEN "none" ELSE did
      /\ \A j \in StepIds : j # i => own'[j] = own[j]
  BY <1>1, <1>4
<1>6. ListsTyped'
  BY <1>1, <1>2, <1>3, <1>5 DEF EditsInv, ListsTyped
<1>7. AnswersTyped'
  <2>1. \A j \in DOMAIN lastPulled : j \in 1..made'
    BY <1>4 DEF EditsInv, AnswersTyped
  <2> QED BY <1>1, <1>2, <1>3, <2>1 DEF EditsInv, AnswersTyped
<1>8. Lasting'
  BY <1>1, <1>2 DEF EditsInv, Lasting, Lasts
<1>9. KnownPulled'
  <2>1. \A t : made + 1 \notin Later(t)
    BY <1>3 DEF EditsInv, AnswersTyped, Later
  <2>2. Known' \subseteq Known \cup {made + 1}
    BY <1>1, <1>2 DEF Known
  <2> QED BY <1>1, <1>2, <2>1, <2>2 DEF EditsInv, KnownPulled
<1>10. GoneStay'
  <2> SUFFICES ASSUME NEW j \in StepIds, own'[j] = "gone"
               PROVE  /\ j \in removed' /\ j \notin IdsOf(steps')
                      /\ \A r \in Requests :
                           ComesBack(op[r]) => j \notin IdsOf(Taken(op[r], stored))
    BY <1>1 DEF GoneStay
  <2>1. CASE j = i
    BY <1>1, <1>5, <2>1 DEF ComesBack, Saving
  <2>2. CASE j # i
    BY <1>1, <1>5, <2>2 DEF EditsInv, GoneStay
  <2> QED BY <2>1, <2>2
<1>11. MineStay'
  <2> SUFFICES ASSUME NEW j \in StepIds, own'[j] = "mine"
               PROVE  /\ j \notin removed'
                      /\ ~crossed =>
                           /\ Rewritten(steps', j)
                           /\ \A r \in Requests :
                                ComesBack(op[r]) => Rewritten(Taken(op[r], stored), j)
    BY <1>1 DEF MineStay
  <2>1. CASE j = i
    BY <1>1, <1>5, <2>1 DEF ComesBack, Saving
  <2>2. CASE j # i
    BY <1>1, <1>5, <2>2 DEF EditsInv, MineStay
  <2> QED BY <2>1, <2>2
<1> QED BY <1>2, <1>6, <1>7, <1>8, <1>9, <1>10, <1>11 DEF EditsInv

\* Rewriting, deleting, moving and inserting each change one step and keep ids apart.
LEMMA EditingKeeps == ASSUME EditsInv, update \/ remove \/ move \/ insert PROVE EditsInv'
<1>0. /\ steps \in Seq(StepRecords) /\ Unique(steps) /\ made \in Nat /\ made <= MaxSteps
      /\ \A k \in DOMAIN steps : steps[k].id <= made
  BY DEF EditsInv, ListsTyped, Tidy
<1>1. /\ DOMAIN steps = 1..Len(steps) /\ Len(steps) \in Nat
      /\ \A k \in DOMAIN steps : steps[k] \in StepRecords /\ steps[k].id \in StepIds
  BY <1>0, IdsAreNumbers
<1>2. Mine \in 0..Mine /\ MaxSteps \in Nat
  BY EditorAssumption DEF Mine
<1>3. CASE update
  <2>1. PICK k \in DOMAIN steps :
          /\ onChange([steps EXCEPT ![k].says = Mine], steps[k].id, "mine")
          /\ UNCHANGED made
    BY <1>3 DEF update
  <2> DEFINE step == [steps[k] EXCEPT !.says = Mine]
             next == [steps EXCEPT ![k] = step]
  <2>2. /\ step \in StepRecords /\ step.id = steps[k].id /\ step.says = Mine
    BY <1>1, <1>2 DEF StepRecords
  <2>3. onChange(next, steps[k].id, "mine")
    BY <2>1
  <2> HIDE DEF step
  <2>4. /\ next \in Seq(StepRecords) /\ DOMAIN next = DOMAIN steps
        /\ next[k] = step /\ \A n \in DOMAIN steps : n # k => next[n] = steps[n]
    BY <1>0, <1>1, <2>2
  <2> HIDE DEF next
  <2>5. \A n \in DOMAIN steps : next[n].id = steps[n].id
    BY <2>2, <2>4
  <2>6. Tidy(next, made)
    BY <1>0, <2>4, <2>5 DEF Tidy, Unique
  <2>7. IdsOf(next) = IdsOf(steps) /\ made + 1 \notin IdsOf(next)
    BY <2>4, <2>5, <2>6, <1>0, NotMadeYet DEF IdsOf
  <2>8. Rewritten(next, steps[k].id) /\ steps[k].id \in IdsOf(next)
    BY <2>2, <2>4 DEF Rewritten, IdsOf
  <2>9. \A j : j # steps[k].id /\ Rewritten(steps, j) => Rewritten(next, j)
    BY <2>4 DEF Rewritten
  <2> QED BY <1>0, <1>1, <2>1, <2>3, <2>6, <2>7, <2>8, <2>9, EditedByHand
<1>4. CASE remove
  <2>1. PICK k \in DOMAIN steps :
          onChange(RemoveAt(steps, k), steps[k].id, "gone") /\ UNCHANGED made
    BY <1>4 DEF remove
  <2> DEFINE next == RemoveAt(steps, k)
  <2>2. /\ next \in Seq(StepRecords) /\ Len(next) = Len(steps) - 1
        /\ \A n \in 1..Len(steps) - 1 : next[n] = IF n < k THEN steps[n] ELSE steps[n + 1]
    BY <1>0, <1>1, RemovedAt
  <2>3. onChange(next, steps[k].id, "gone")
    BY <2>1
  <2> HIDE DEF next
  <2>4. DOMAIN next = 1..Len(steps) - 1
    BY <2>2
  <2> DEFINE from(n) == IF n < k THEN n ELSE n + 1
  <2>5. \A n \in DOMAIN next :
          from(n) \in DOMAIN steps /\ from(n) # k /\ next[n] = steps[from(n)] /\ n \in Int
    BY <1>1, <2>2, <2>4
  <2>6. \A m, n \in Int : from(m) = from(n) => m = n
    BY <1>1
  <2>7. \A m \in DOMAIN steps : m # k => \E n \in DOMAIN next : next[n] = steps[m]
    <3> TAKE m \in DOMAIN steps
    <3> HAVE m # k
    <3>1. CASE m < k
      BY <1>1, <2>2, <2>4, <3>1
    <3>2. CASE ~(m < k)
      <4> DEFINE n == m - 1
      <4>1. n \in 1..Len(steps) - 1 /\ ~(n < k) /\ n + 1 = m
        BY <1>1, <3>2
      <4> HIDE DEF n
      <4> QED BY <2>2, <2>4, <4>1
    <3> QED BY <3>1, <3>2
  <2> HIDE DEF from
  <2>8. Tidy(next, made)
    BY <1>0, <2>2, <2>5, <2>6 DEF Tidy, Unique
  <2>9. /\ IdsOf(next) \subseteq IdsOf(steps) /\ IdsOf(steps) \subseteq IdsOf(next) \cup {steps[k].id}
        /\ steps[k].id \in IdsOf(steps) /\ steps[k].id \notin IdsOf(next)
    BY <1>0, <2>5, <2>7 DEF IdsOf, Unique
  <2>10. \A j : j # steps[k].id /\ Rewritten(steps, j) => Rewritten(next, j)
    BY <2>7 DEF Rewritten
  <2>11. made + 1 \notin IdsOf(next)
    BY <1>0, <2>8, NotMadeYet
  <2> QED BY <1>0, <1>1, <2>1, <2>3, <2>8, <2>9, <2>10, <2>11, EditedByHand
<1>5. CASE move
  <2>1. PICK k \in DOMAIN steps, to \in DOMAIN steps :
          /\ onChange([steps EXCEPT ![k] = steps[to], ![to] = steps[k]], steps[k].id, own[steps[k].id])
          /\ UNCHANGED made
    BY <1>5 DEF move
  <2> DEFINE next == [steps EXCEPT ![k] = steps[to], ![to] = steps[k]]
             from(n) == IF n = to THEN k ELSE IF n = k THEN to ELSE n
             i == steps[k].id
  <2>2. /\ next \in Seq(StepRecords) /\ DOMAIN next = DOMAIN steps
        /\ \A n \in DOMAIN steps : next[n] = steps[from(n)]
    BY <1>0, <1>1
  <2>3. onChange(next, i, own[i])
    BY <2>1
  <2>4. /\ \A n \in DOMAIN steps : from(n) \in DOMAIN steps /\ from(from(n)) = n
        /\ \A m, n \in DOMAIN steps : from(m) = from(n) => m = n
    OBVIOUS
  <2> HIDE DEF next, from
  <2>5. \A n \in DOMAIN steps : \E m \in DOMAIN next : next[m] = steps[n]
    BY <2>2, <2>4
  <2>6. Tidy(next, made)
    BY <1>0, <2>2, <2>4 DEF Tidy, Unique
  <2>7. IdsOf(next) = IdsOf(steps) /\ i \in IdsOf(steps) /\ made + 1 \notin IdsOf(next)
    <3>1. IdsOf(next) \subseteq IdsOf(steps)
      BY <2>2, <2>4 DEF IdsOf
    <3>2. IdsOf(steps) \subseteq IdsOf(next) /\ i \in IdsOf(steps)
      BY <2>5 DEF IdsOf
    <3>3. made + 1 \notin IdsOf(next)
      BY <1>0, <2>6, NotMadeYet
    <3> QED BY <3>1, <3>2, <3>3
  <2>8. \A j : Rewritten(steps, j) => Rewritten(next, j)
    BY <2>5 DEF Rewritten
  <2>9. i \in StepIds
    BY <1>1
  <2> HIDE DEF i
  <2>10. own[i] # "gone" /\ (own[i] = "mine" /\ ~crossed => Rewritten(steps, i))
    BY <2>7, <2>9 DEF EditsInv, GoneStay, MineStay
  <2> QED BY <1>0, <2>1, <2>3, <2>6, <2>7, <2>8, <2>9, <2>10, EditedByHand
<1>6. CASE insert
  <2> DEFINE k == insertionIndex(steps)
             step == Typed(made + 1)
             next == InsertAt(steps, k, step)
  <2>1. made < MaxSteps /\ made' = made + 1 /\ onChange(next, made + 1, "mine")
    BY <1>6 DEF insert
  <2>2. k \in 1..Len(steps) + 1
    <3>1. steps # <<>> => Len(steps) \in 1..Len(steps) + 1
      BY <1>0
    <3> QED BY <1>1, <3>1 DEF insertionIndex
  <2>3. made + 1 \in StepIds
    BY <1>0, <1>2, <2>1 DEF StepIds
  <2>4. step \in StepRecords /\ step.id = made + 1 /\ step.says = Mine
    BY <1>2, <2>3 DEF Typed, StepRecords
  <2> HIDE DEF k, step
  <2>5. /\ next \in Seq(StepRecords) /\ Len(next) = Len(steps) + 1
        /\ \A n \in 1..Len(steps) + 1 :
             next[n] = IF n < k THEN steps[n] ELSE IF n = k THEN step ELSE steps[n - 1]
    BY <1>0, <2>2, <2>4, InsertedAt
  <2> HIDE DEF next
  <2>6. DOMAIN next = 1..Len(steps) + 1 /\ next[k] = step /\ k \in DOMAIN next
    BY <1>1, <2>2, <2>5
  <2> DEFINE from(n) == IF n < k THEN n ELSE n - 1
  <2>7. \A n \in DOMAIN next : n # k => from(n) \in DOMAIN steps /\ next[n] = steps[from(n)]
    BY <1>1, <2>2, <2>5, <2>6
  <2>8. \A m, n \in DOMAIN next : m # k /\ n # k /\ from(m) = from(n) => m = n
    BY <1>1, <2>2, <2>6
  <2>9. \A m \in DOMAIN steps : \E n \in DOMAIN next : next[n] = steps[m]
    <3> TAKE m \in DOMAIN steps
    <3>1. CASE m < k
      BY <1>1, <2>5, <2>6, <3>1
    <3>2. CASE ~(m < k)
      <4> DEFINE n == m + 1
      <4>1. n \in 1..Len(steps) + 1 /\ ~(n < k) /\ n # k /\ n - 1 = m
        BY <1>1, <2>2, <3>2
      <4> HIDE DEF n
      <4> QED BY <2>5, <2>6, <4>1
    <3> QED BY <3>1, <3>2
  <2> HIDE DEF from
  <2>10. \A n \in DOMAIN steps : steps[n].id # made + 1
    BY <1>0, <1>1
  <2>11. Unique(next)
    <3> SUFFICES ASSUME NEW m \in DOMAIN next, NEW n \in DOMAIN next, next[m].id = next[n].id
                 PROVE  m = n
      BY DEF Unique
    <3>1. CASE m # k /\ n # k
      BY <1>0, <2>7, <2>8, <3>1 DEF Unique
    <3>2. CASE m = k /\ n # k
      BY <2>4, <2>6, <2>7, <2>10, <3>2
    <3>3. CASE m # k /\ n = k
      BY <2>4, <2>6, <2>7, <2>10, <3>3
    <3> QED BY <3>1, <3>2, <3>3
  <2>12. \A n \in DOMAIN next : next[n].id <= made + 1
    <3> TAKE n \in DOMAIN next
    <3>1. CASE n = k
      BY <1>0, <2>4, <2>6, <3>1
    <3>2. CASE n # k
      <4>1. next[n].id \in StepIds /\ next[n].id <= made
        BY <1>0, <1>1, <2>7, <3>2
      <4> QED BY <1>0, <1>2, <4>1 DEF StepIds
    <3> QED BY <3>1, <3>2
  <2>13. Tidy(next, made + 1)
    BY <2>5, <2>11, <2>12 DEF Tidy
  <2>14. /\ IdsOf(next) \subseteq IdsOf(steps) \cup {made + 1} /\ IdsOf(steps) \subseteq IdsOf(next)
         /\ made + 1 \in IdsOf(next) /\ Rewritten(next, made + 1)
    BY <2>4, <2>6, <2>7, <2>9 DEF IdsOf, Rewritten
  <2>15. \A j : Rewritten(steps, j) => Rewritten(next, j)
    BY <2>9 DEF Rewritten
  <2>16. made' \in Nat /\ made <= made' /\ made' <= MaxSteps /\ Tidy(next, made')
    BY <1>0, <1>2, <2>1, <2>13
  <2> QED BY <2>1, <2>3, <2>14, <2>15, <2>16, EditedByHand
<1> QED BY <1>3, <1>4, <1>5, <1>6
-----------------------------------------------------------------------------
\* A poll moves, and brings an answer if it has come that far.
LEMMA PollMoves ==
  ASSUME PollShape, op' = op, NEW p \in Polls, NEW r, IsPoll(r), poll' = [poll EXCEPT ![p] = r]
  PROVE  /\ PollShape' /\ poll'[p] = r
         /\ \A q \in Polls : q # p => poll'[q] = poll[q]
         /\ r.at # "pulled" => InHand' \subseteq InHand
         /\ InHand' \subseteq InHand \cup {r.answer}
<1>1. poll = [q \in Polls |-> poll[q]] /\ \A q \in Polls : IsPoll(poll[q])
  BY DEF PollShape
<1>2. /\ poll' = [q \in Polls |-> poll'[q]] /\ poll'[p] = r
      /\ \A q \in Polls : q # p => poll'[q] = poll[q]
  BY <1>1
<1>3. PollShape'
  <2>1. \A q \in Polls : IsPoll(poll'[q])
    BY <1>1, <1>2
  <2> QED BY <1>2, <2>1 DEF PollShape
<1>4. /\ r.at # "pulled" => InHand' \subseteq InHand
      /\ InHand' \subseteq InHand \cup {r.answer}
  BY <1>2 DEF InHand
<1> QED BY <1>2, <1>3, <1>4

\* The record a poll starts from.
LEMMA PollsBegin == IsPoll(NoPoll) /\ NoPoll.at = "idle"
BY DEF IsPoll, NoPoll

\* A request moves, and no answer comes.
LEMMA RequestMoves ==
  ASSUME PollShape, Stages, OpShape, UNCHANGED poll,
         NEW r \in Requests, NEW o, IsOp(o), op' = [op EXCEPT ![r] = o],
         o.at # "pulled", Staged(o)
  PROVE  /\ PollShape' /\ Stages' /\ InHand' \subseteq InHand
         /\ op'[r] = o /\ \A q \in Requests : q # r => op'[q] = op[q]
<1>1. op'[r] = o /\ \A q \in Requests : q # r => op'[q] = op[q]
  BY OneRequest
<1>2. InHand' \subseteq InHand
  <2> SUFFICES ASSUME NEW a \in InHand' PROVE a \in InHand
    OBVIOUS
  <2>1. CASE \E p \in Polls : poll'[p].at = "pulled" /\ a = poll'[p].answer
    BY <2>1 DEF InHand
  <2>2. CASE \E q \in Requests : op'[q].at = "pulled" /\ a = op'[q].answer
    BY <1>1, <2>2 DEF InHand
  <2> QED BY <2>1, <2>2 DEF InHand
<1>3. PollShape' /\ Stages'
  BY <1>1 DEF PollShape, Stages
<1> QED BY <1>1, <1>2, <1>3

\* The request that has moved carries what it carried, and so do the others.
LEMMA OthersCarryOn ==
  ASSUME ListsTyped, UNCHANGED <<stored, made>>, NEW r \in Requests,
         \A q \in Requests : q # r => op'[q] = op[q],
         Takes(op'[r]) =>
           /\ Takes(op[r]) /\ op'[r].kind = op[r].kind
           /\ Taken(op'[r], stored) = Taken(op[r], stored)
  PROVE  CarriesOn
<1> SUFFICES ASSUME NEW q \in Requests, Takes(op'[q])
             PROVE  /\ Takes(op[q]) /\ op'[q].kind = op[q].kind
                    /\ Tidy(Taken(op'[q], stored'), made)
                    /\ IdsOf(Taken(op'[q], stored')) = IdsOf(Taken(op[q], stored))
                    /\ \A i : Rewritten(Taken(op[q], stored), i) =>
                                Rewritten(Taken(op'[q], stored'), i)
  BY DEF CarriesOn
<1>1. Takes(op[q]) /\ op'[q].kind = op[q].kind /\ Taken(op'[q], stored') = Taken(op[q], stored)
  <2>1. CASE q = r
    BY <2>1
  <2>2. CASE q # r
    BY <2>2
  <2> QED BY <2>1, <2>2
<1>2. Tidy(Taken(op[q], stored), made)
  BY <1>1 DEF ListsTyped
<1> QED BY <1>1, <1>2

\* No request moves.
LEMMA NothingTaken == ASSUME EditsInv, UNCHANGED <<op, stored, made>> PROVE CarriesOn
<1> SUFFICES ASSUME NEW q \in Requests, Takes(op'[q])
             PROVE  /\ Takes(op[q]) /\ op'[q].kind = op[q].kind
                    /\ Tidy(Taken(op'[q], stored'), made)
                    /\ IdsOf(Taken(op'[q], stored')) = IdsOf(Taken(op[q], stored))
                    /\ \A i : Rewritten(Taken(op[q], stored), i) =>
                                Rewritten(Taken(op'[q], stored'), i)
  BY DEF CarriesOn
<1> QED BY DEF EditsInv, ListsTyped

\* A tick of the timer brings the recording as it is, or merges what it brought.
LEMMA PollsKeep ==
  ASSUME SavedInv, EditsInv, NEW p \in Polls, PollAsk(p) \/ PollTold(p) \/ PollApply(p)
  PROVE  EditsInv'
<1>0. PollShape /\ Stages /\ ListsTyped
  BY DEF EditsInv
<1>1. UNCHANGED <<op, stored, made, session, rec, stamp>> /\ CarriesOn
  <2>1. UNCHANGED <<op, stored, made, session, rec, stamp>>
    BY DEF PollAsk, PollTold, PollApply, Elsewhere, worker, server
  <2>2. CarriesOn
    BY <2>1, NothingTaken
  <2> QED BY <2>1, <2>2
<1>2. CASE PollAsk(p)
  <2>0. PICK alive, on : alive = (session = timer) /\ on = (session = timer /\ recording)
    OBVIOUS
  <2> DEFINE r == [NoPoll EXCEPT !.at = "told", !.of = timer, !.alive = alive, !.on = on]
  <2>1. timer # 0 /\ poll' = [poll EXCEPT ![p] = r]
    BY <1>2, <2>0 DEF PollAsk
  <2>2. IsPoll(r) /\ r.at = "told" /\ r.of = timer
    <3>1. r = [NoPoll EXCEPT !.at = "told", !.of = timer, !.alive = alive, !.on = on]
      OBVIOUS
    <3> HIDE DEF r
    <3>2. r = [at |-> "told", of |-> timer, alive |-> alive, on |-> on, answer |-> NoAnswer]
      BY <3>1 DEF NoPoll
    <3> QED BY <3>2 DEF IsPoll
  <2> HIDE DEF r
  <2>3. /\ PollShape' /\ poll'[p] = r
        /\ \A q \in Polls : q # p => poll'[q] = poll[q]
        /\ InHand' \subseteq InHand
    BY <1>0, <1>1, <2>1, <2>2, PollMoves
  <2>4. Stages'
    BY <1>0, <1>1, <2>1, <2>2, <2>3 DEF Stages
  <2>5. UNCHANGED <<steps, lastPulled, removed, own, applied, crossed>>
    BY <1>2 DEF PollAsk, NoPull, editor, seen
  <2> QED BY <1>1, <2>3, <2>4, <2>5, QuietKeeps
<1>3. ASSUME PollEnds(p)
      PROVE  PollShape' /\ Stages' /\ InHand' \subseteq InHand
  <2>1. poll' = [poll EXCEPT ![p] = NoPoll]
    BY <1>3 DEF PollEnds
  <2>2. /\ PollShape' /\ poll'[p].at = "idle"
        /\ \A q \in Polls : q # p => poll'[q] = poll[q]
        /\ InHand' \subseteq InHand
    BY <1>0, <1>1, <2>1, PollsBegin, PollMoves
  <2>3. Stages'
    BY <1>0, <1>1, <2>2 DEF Stages
  <2> QED BY <2>2, <2>3
<1>4. CASE PollTold(p) /\ PollEnds(p)
  <2>1. UNCHANGED <<steps, lastPulled, removed, own, applied, crossed>>
    BY <1>4 DEF PollTold, NoPull, editor, seen
  <2> QED BY <1>1, <1>3, <1>4, <2>1, QuietKeeps
<1>5. CASE PollTold(p) /\ ~PollEnds(p)
  <2> DEFINE new == [steps |-> rec, stamp |-> stamp]
             r == [poll[p] EXCEPT !.at = "pulled", !.answer = new]
  <2>1. /\ poll[p].at = "told" /\ session = poll[p].of
        /\ poll' = [poll EXCEPT ![p].at = "pulled", ![p].answer = new]
        /\ UNCHANGED <<steps, lastPulled, removed, own, applied, crossed>>
    BY <1>5 DEF PollTold, NoPull, editor, seen
  <2> HIDE DEF new
  <2>2. session # 0
    BY <1>0, <2>1 DEF Stages
  <2>3. IsPoll(r) /\ r.at = "pulled" /\ r.answer = new
    <3>1. IsPoll(poll[p])
      BY <1>0 DEF PollShape
    <3> DEFINE old == poll[p]
    <3>2. r = [old EXCEPT !.at = "pulled", !.answer = new]
      OBVIOUS
    <3>3. PICK a, o, l, n, w : old = [at |-> a, of |-> o, alive |-> l, on |-> n, answer |-> w]
      BY <3>1 DEF IsPoll
    <3> HIDE DEF r, old
    <3>4. r = [at |-> "pulled", of |-> o, alive |-> l, on |-> n, answer |-> new]
      BY <3>2, <3>3
    <3> QED BY <3>4 DEF IsPoll
  <2>4. poll' = [poll EXCEPT ![p] = r]
    <3>1. poll = [q \in Polls |-> poll[q]]
      BY <1>0 DEF PollShape
    <3> QED BY <2>1, <3>1
  <2> HIDE DEF r
  <2>5. /\ PollShape' /\ poll'[p] = r
        /\ \A q \in Polls : q # p => poll'[q] = poll[q]
        /\ InHand' \subseteq InHand \cup {new}
    BY <1>0, <1>1, <2>3, <2>4, PollMoves
  <2>6. Stages'
    BY <1>0, <1>1, <2>3, <2>5 DEF Stages
  <2>7. InHand' \subseteq InHand \cup {[steps |-> rec, stamp |-> stamp]}
    BY <2>5 DEF new
  <2> QED BY <1>1, <2>1, <2>2, <2>5, <2>6, <2>7, AnswerArrives
<1>6. CASE PollApply(p)
  <2>1. pullRecording(poll[p].answer) /\ PollEnds(p) /\ poll[p].answer \in InHand
    BY <1>6 DEF PollApply, InHand
  <2> QED BY <1>1, <1>3, <2>1, AnswerMerged
<1> QED BY <1>2, <1>4, <1>5, <1>6
\* A button takes the list along as it stands, or nothing.
LEMMA ButtonPressed ==
  ASSUME SavedInv, EditsInv, NEW r \in Requests, NEW kind, NEW at, NEW payload,
         Send(r, kind, at, payload), at \in {"sent", "creds", "put"},
         at \in {"creds", "put"} => payload = steps,
         kind = "stop" => held # 0
  PROVE  EditsInv'
<1>0. OpShape /\ PollShape /\ Stages
  BY DEF SavedInv, EditsInv
<1> DEFINE o == [NoOp EXCEPT !.kind = kind, !.at = at, !.of = held, !.payload = payload]
<1>1. op' = [op EXCEPT ![r] = o]
  BY DEF Send
<1>2. UNCHANGED <<made, poll, session, rec, stamp, stored, steps, lastPulled, removed, own, applied, crossed>>
  BY DEF Send, worker, editor, server, seen
<1>e. o = [NoOp EXCEPT !.kind = kind, !.at = at, !.of = held, !.payload = payload]
  OBVIOUS
<1> HIDE DEF o
<1>l. o = [kind |-> kind, at |-> at, of |-> held, payload |-> payload,
           answer |-> [steps |-> <<>>, stamp |-> 0]]
  BY <1>e DEF NoOp, NoAnswer
<1>3. IsOp(o) /\ o.at = at /\ o.kind = kind /\ o.of = held /\ o.payload = payload
  BY <1>l, Written
<1>s. Staged(o)
  BY <1>3 DEF Staged
<1>4. /\ PollShape' /\ Stages' /\ InHand' \subseteq InHand
      /\ op'[r] = o /\ \A q \in Requests : q # r => op'[q] = op[q]
  <2>1. o.at # "pulled"
    BY <1>3
  <2> QED BY <1>0, <1>1, <1>2, <1>3, <1>s, <2>1, RequestMoves
<1>5. \A q \in Requests : Takes(op'[q]) =>
        \/ Taken(op'[q], stored') = steps
        \/ Takes(op[q]) /\ op'[q] = op[q]
  <2> SUFFICES ASSUME NEW q \in Requests, Takes(op'[q])
               PROVE  \/ Taken(op'[q], stored') = steps
                      \/ Takes(op[q]) /\ op'[q] = op[q]
    OBVIOUS
  <2>1. CASE q = r
    BY <1>3, <1>4, <2>1 DEF Takes, Taken, TakingStages
  <2>2. CASE q # r
    BY <1>4, <2>2
  <2> QED BY <2>1, <2>2
<1>6. Known' \subseteq Known
  <2> SUFFICES ASSUME NEW i \in Known', i \notin IdsOf(steps) PROVE i \in Known
    BY DEF Known
  <2>1. PICK q \in Requests : Takes(op'[q]) /\ i \in IdsOf(Taken(op'[q], stored'))
    BY <1>2 DEF Known
  <2> QED BY <1>2, <1>5, <2>1 DEF Known
<1>7. Lasting' /\ KnownPulled'
  BY <1>2, <1>4, <1>6, NothingNew
<1>8. ListsTyped'
  BY <1>2, <1>5 DEF EditsInv, ListsTyped
<1>9. AnswersTyped' /\ Latest'
  BY <1>2, <1>4 DEF EditsInv, AnswersTyped, Latest
<1>10. GoneStay' /\ MineStay'
  BY <1>2, <1>5 DEF EditsInv, GoneStay, MineStay, ComesBack
<1> QED BY <1>4, <1>7, <1>8, <1>9, <1>10 DEF EditsInv

\* Only a save takes a list along, and it is the one shown.
LEMMA ButtonsKeep ==
  ASSUME SavedInv, EditsInv, NEW r \in Requests, Press(r)
  PROVE  EditsInv'
<1>1. CASE startBrowser(r)
  BY <1>1, ButtonPressed DEF startBrowser
<1>2. CASE setRecording(r)
  <2>1. PICK kind : held # 0 /\ Send(r, kind, "sent", <<>>)
    BY <1>2 DEF setRecording
  <2> QED BY <2>1, ButtonPressed
<1>3. CASE clearRecording(r) \/ closeSession(r)
  BY <1>3, ButtonPressed DEF clearRecording, closeSession
<1>4. CASE save(r)
  BY <1>4, ButtonPressed DEF save, First
<1>5. CASE runOrRepeat(r)
  BY <1>5, ButtonPressed DEF runOrRepeat, First
<1>6. CASE schedule(r)
  BY <1>6, ButtonPressed DEF schedule
<1> QED BY <1>1, <1>2, <1>3, <1>4, <1>5, <1>6 DEF Press

\* The rows replace the list with what the save took along.
LEMMA RowsComeBack ==
  ASSUME EditsInv, PollShape', Stages', NEW r \in Requests, ComesBack(op[r]),
         UNCHANGED <<made, session, rec, stamp, lastPulled, removed, own, applied, crossed>>,
         steps' = Taken(op[r], stored), InHand' \subseteq InHand, CarriesOn
  PROVE  EditsInv'
<1>1. Known' \subseteq Known
  <2> SUFFICES ASSUME NEW i \in Known' PROVE i \in Known
    OBVIOUS
  <2>1. CASE i \in IdsOf(steps')
    BY <2>1 DEF Known, ComesBack
  <2>2. CASE i \notin IdsOf(steps')
    <3>1. PICK q \in Requests : Takes(op'[q]) /\ i \in IdsOf(Taken(op'[q], stored'))
      BY <2>2 DEF Known
    <3> QED BY <3>1 DEF CarriesOn, Known
  <2> QED BY <2>1, <2>2
<1>2. Lasting' /\ KnownPulled'
  BY <1>1, NothingNew
<1>3. ListsTyped'
  BY DEF EditsInv, ListsTyped, CarriesOn, ComesBack
<1>4. AnswersTyped' /\ Latest'
  BY DEF EditsInv, AnswersTyped, Latest
<1>5. GoneStay' /\ MineStay'
  BY ComesBackAsBefore DEF EditsInv, GoneStay, MineStay
<1> QED BY <1>2, <1>3, <1>4, <1>5 DEF EditsInv

\* A request that ends carries nothing any more.
LEMMA RequestEnds ==
  ASSUME SavedInv, EditsInv, NEW r \in Requests, op' = [op EXCEPT ![r] = NoOp],
         UNCHANGED poll
  PROVE  /\ PollShape' /\ Stages' /\ InHand' \subseteq InHand /\ ~Takes(op'[r])
         /\ \A q \in Requests : q # r => op'[q] = op[q]
<1>1. NoOp.at # "pulled" /\ Staged(NoOp) /\ IsOp(NoOp) /\ ~Takes(NoOp)
  BY NoOpShape DEF Staged, Takes, TakingStages
<1>2. OpShape /\ PollShape /\ Stages
  BY DEF SavedInv, EditsInv
<1> QED BY <1>1, <1>2, RequestMoves

\* The request moves to a stage at which nothing comes.
LEMMA RequestGoesOn ==
  ASSUME SavedInv, EditsInv, NEW r \in Requests, NEW at, Served(r, at), UNCHANGED poll,
         at # "pulled", at \notin {"load", "loaded"} \/ op[r].kind = "save",
         at # "pull" \/ op[r].kind = "stop"
  PROVE  /\ PollShape' /\ Stages' /\ InHand' \subseteq InHand
         /\ op'[r].at = at /\ op'[r].kind = op[r].kind /\ op'[r].payload = op[r].payload
         /\ \A q \in Requests : q # r => op'[q] = op[q]
<1>0. OpShape /\ PollShape /\ Stages
  BY DEF SavedInv, EditsInv
<1>1. PICK o : /\ op' = [op EXCEPT ![r] = o] /\ IsOp(o)
               /\ o.at = at /\ o.kind = op[r].kind /\ o.of = op[r].of
               /\ o.payload = op[r].payload
  BY <1>0, Stage
<1>2. o.at # "pulled" /\ Staged(o)
  BY <1>0, <1>1 DEF Stages, Staged
<1> QED BY <1>0, <1>1, <1>2, RequestMoves

\* Clear forgets everything; the rows of a save are what it took along.
LEMMA AnswersKeep ==
  ASSUME SavedInv, EditsInv, NEW r \in Requests, Reacts(r)
  PROVE  EditsInv'
<1>0. PollShape /\ Stages /\ ListsTyped /\ OpShape
  BY DEF EditsInv, SavedInv
<1>1. UNCHANGED <<made, poll, session, rec, stamp, stored>>
  BY DEF Reacts, Opened, Recording, Stopped, Cleared, Closed, StepsSaved, Loaded, Reply,
         worker, server
<1>2. ASSUME op' = [op EXCEPT ![r] = NoOp]
      PROVE  PollShape' /\ Stages' /\ InHand' \subseteq InHand /\ ~Takes(op'[r]) /\ CarriesOn
             /\ \A q \in Requests : q # r => op'[q] = op[q]
  <2>1. /\ PollShape' /\ Stages' /\ InHand' \subseteq InHand /\ ~Takes(op'[r])
        /\ \A q \in Requests : q # r => op'[q] = op[q]
    BY <1>1, <1>2, RequestEnds
  <2> QED BY <1>0, <1>1, <2>1, OthersCarryOn
<1>3. CASE Opened(r) \/ Closed(r)
  <2>1. /\ op' = [op EXCEPT ![r] = NoOp]
        /\ UNCHANGED <<steps, lastPulled, removed, own, applied, crossed>>
    BY <1>3 DEF Opened, Closed, Ends, editor, seen
  <2> QED BY <1>1, <1>2, <2>1, QuietKeeps
<1>4. CASE Recording(r)
  <2>1. UNCHANGED <<steps, lastPulled, removed, own, applied, crossed>>
    BY <1>4 DEF Recording, editor, seen
  <2>2. CASE op[r].kind = "stop"
    <3>1. Served(r, "pull")
      BY <1>4, <2>2 DEF Recording, Served
    <3>2. /\ PollShape' /\ Stages' /\ InHand' \subseteq InHand /\ op'[r].at = "pull"
          /\ \A q \in Requests : q # r => op'[q] = op[q]
      BY <1>1, <2>2, <3>1, RequestGoesOn
    <3>3. CarriesOn
      BY <1>0, <1>1, <3>2, OthersCarryOn DEF Takes, TakingStages
    <3> QED BY <1>1, <2>1, <3>2, <3>3, QuietKeeps
  <2>3. CASE op[r].kind # "stop"
    <3>1. op' = [op EXCEPT ![r] = NoOp]
      BY <1>4, <2>3 DEF Recording, Ends
    <3> QED BY <1>1, <1>2, <2>1, <3>1, QuietKeeps
  <2> QED BY <2>2, <2>3
<1>5. CASE Stopped(r)
  <2>1. /\ op[r].answer \in InHand /\ pullRecording(op[r].answer) /\ op' = [op EXCEPT ![r] = NoOp]
    BY <1>5 DEF Stopped, Ends, InHand
  <2> QED BY <1>1, <1>2, <2>1, AnswerMerged
<1>6. CASE Cleared(r)
  <2>1. /\ op' = [op EXCEPT ![r] = NoOp] /\ UNCHANGED <<applied, crossed>>
        /\ lastPulled' = <<>> /\ removed' = {} /\ steps' = <<>>
        /\ own' = [i \in StepIds |-> "none"] /\ Replaces(op[r].kind)
    BY <1>6 DEF Cleared, Ends, Replaces
  <2>2. /\ PollShape' /\ Stages' /\ InHand' \subseteq InHand
        /\ \A q \in Requests : ~Takes(op'[q])
    <3>1. \A q \in Requests : q # r => ~Takes(op[q])
      BY <2>1 DEF SavedInv, OneReplacer, OnlySavesTake, Takes, Replaces
    <3> QED BY <1>2, <2>1, <3>1
  <2>3. IdsOf(steps') = {} /\ Tidy(steps', made) /\ DOMAIN lastPulled' = {}
    BY <2>1, NothingHas
  <2>k. Known' = {}
    BY <2>2, <2>3 DEF Known
  <2>4. Lasting'
    <3>1. ~crossed => \A a \in InHand : Lasts(IdsOf(a.steps), a.stamp)
      BY DEF EditsInv, Lasting
    <3>2. \A t : Later(t)' \subseteq Later(t)
      BY <1>1, <2>2 DEF Later
    <3> QED BY <1>1, <2>1, <2>2, <2>3, <3>1, <3>2 DEF Lasting, Lasts
  <2>5. KnownPulled'
    BY <2>k DEF KnownPulled
  <2>6. ListsTyped'
    BY <1>0, <1>1, <2>1, <2>2, <2>3 DEF ListsTyped
  <2>7. AnswersTyped' /\ Latest'
    BY <1>1, <2>1, <2>2, <2>3 DEF EditsInv, AnswersTyped, Latest
  <2>8. GoneStay' /\ MineStay'
    BY <2>1 DEF GoneStay, MineStay
  <2> QED BY <2>2, <2>4, <2>5, <2>6, <2>7, <2>8 DEF EditsInv
<1>7. ASSUME op[r].at \in {"saved", "loaded"}
      PROVE  op[r].answer.steps = stored /\ Takes(op[r]) /\ Taken(op[r], stored) = stored
             /\ (ComesBack(op[r]) \/ op[r].kind = "schedule")
  <2>1. Sound(op[r], steps, dirty, stored, blurred)
    BY DEF SavedInv, SavesAreSound
  <2>2. Takes(op[r]) /\ Taken(op[r], stored) = stored
    BY <1>7 DEF Takes, Taken, TakingStages
  <2>3. op[r].kind \in {"save", "run", "schedule"}
    BY <2>2 DEF SavedInv, OnlySavesTake, Takes
  <2> QED BY <1>7, <2>1, <2>2, <2>3 DEF Sound, ComesBack
<1>8. CASE StepsSaved(r)
  <2>1. /\ op[r].at = "saved"
        /\ steps' = IF op[r].kind = "schedule" THEN steps ELSE op[r].answer.steps
        /\ UNCHANGED <<lastPulled, removed, own, applied, crossed>>
    BY <1>8 DEF StepsSaved, seen
  <2>2. PollShape' /\ Stages' /\ InHand' \subseteq InHand /\ CarriesOn
    <3>1. CASE op[r].kind = "save"
      <4>1. Served(r, "load")
        BY <1>8, <3>1 DEF StepsSaved, Served
      <4>2. /\ PollShape' /\ Stages' /\ InHand' \subseteq InHand
            /\ op'[r].at = "load" /\ op'[r].kind = op[r].kind
            /\ \A q \in Requests : q # r => op'[q] = op[q]
        BY <1>1, <3>1, <4>1, RequestGoesOn
      <4>3. Taken(op'[r], stored) = stored
        BY <4>2 DEF Taken
      <4>4. CarriesOn
        BY <1>0, <1>1, <1>7, <2>1, <4>2, <4>3, OthersCarryOn
      <4> QED BY <4>2, <4>4
    <3>2. CASE op[r].kind # "save"
      <4>1. op' = [op EXCEPT ![r] = NoOp]
        BY <1>8, <3>2 DEF StepsSaved, Ends
      <4> QED BY <1>2, <4>1
    <3> QED BY <3>1, <3>2
  <2>3. CASE op[r].kind = "schedule"
    <3>1. steps' = steps
      BY <2>1, <2>3
    <3> QED BY <1>1, <2>1, <2>2, <3>1, QuietKeeps
  <2>4. CASE op[r].kind # "schedule"
    <3>1. steps' = Taken(op[r], stored) /\ ComesBack(op[r])
      BY <1>7, <2>1, <2>4
    <3> QED BY <1>1, <2>1, <2>2, <3>1, RowsComeBack
  <2> QED BY <2>3, <2>4
<1>9. CASE Loaded(r)
  <2>1. /\ op[r].at = "loaded" /\ op' = [op EXCEPT ![r] = NoOp] /\ steps' = op[r].answer.steps
        /\ UNCHANGED <<lastPulled, removed, own, applied, crossed>>
    BY <1>9 DEF Loaded, Ends, seen
  <2>2. op[r].kind = "save"
    BY <1>0, <2>1 DEF Stages, Staged
  <2>3. steps' = Taken(op[r], stored) /\ ComesBack(op[r])
    BY <1>7, <2>1, <2>2
  <2> QED BY <1>1, <1>2, <2>1, <2>3, RowsComeBack
<1> QED BY <1>3, <1>4, <1>5, <1>6, <1>8, <1>9 DEF Reacts

\* The recorder adds steps of new ids, the end of the session drops them all.
LEMMA RecorderKeepsEdits ==
  ASSUME SavedInv, EditsInv, RecordStep \/ RefineStep \/ SessionDies PROVE EditsInv'
<1>0. PollShape /\ Stages /\ ListsTyped /\ AnswersTyped /\ OpShape
  BY DEF EditsInv, SavedInv
<1>5. CASE RecordStep
  <2>1. PICK final \in BOOLEAN : rec' = Append(rec, Recorded(made + 1, final))
    BY <1>5 DEF RecordStep
  <2> DEFINE step == Recorded(made + 1, final)
  <2>2. /\ session # 0 /\ made < MaxSteps /\ made' = made + 1 /\ stamp' = stamp + 1
        /\ UNCHANGED <<op, poll, session, steps, stored, lastPulled, removed, own, applied, crossed>>
    BY <1>5 DEF RecordStep, Changed, editor, server, seen
  <2>3. /\ made \in Nat /\ MaxSteps \in Nat /\ rec \in Seq(StepRecords) /\ Unique(rec)
        /\ \A k \in DOMAIN rec : rec[k].id <= made /\ rec[k].id \in Nat
        /\ NotMine(rec)
    BY <1>0, EditorAssumption, IdsAreNumbers DEF ListsTyped, AnswersTyped, Tidy
  <2>4. step \in StepRecords /\ step.id = made + 1 /\ step.says # Mine
    BY <2>2, <2>3, EditorAssumption DEF Recorded, StepRecords, StepIds, Mine
  <2> HIDE DEF step
  <2>5. /\ rec' \in Seq(StepRecords) /\ DOMAIN rec = 1..Len(rec) /\ DOMAIN rec' = 1..Len(rec) + 1
        /\ \A k \in 1..Len(rec) : rec'[k] = rec[k]
        /\ rec'[Len(rec) + 1] = step /\ Len(rec) \in Nat
    BY <2>1, <2>3, <2>4 DEF step
  <2>6. \A k \in DOMAIN rec' : k \in DOMAIN rec \/ k = Len(rec) + 1
    BY <2>5
  <2>7. Unique(rec')
    <3> SUFFICES ASSUME NEW j \in DOMAIN rec', NEW k \in DOMAIN rec', rec'[j].id = rec'[k].id
                 PROVE  j = k
      BY DEF Unique
    <3>1. CASE j \in DOMAIN rec /\ k \in DOMAIN rec
      BY <2>3, <2>5, <3>1 DEF Unique
    <3>2. CASE j \in DOMAIN rec /\ k = Len(rec) + 1
      BY <2>3, <2>4, <2>5, <3>2
    <3>3. CASE j = Len(rec) + 1 /\ k \in DOMAIN rec
      BY <2>3, <2>4, <2>5, <3>3
    <3> QED BY <2>6, <3>1, <3>2, <3>3
  <2>8. Tidy(rec', made + 1) /\ NotMine(rec')
    BY <2>3, <2>4, <2>5, <2>6, <2>7 DEF Tidy, NotMine
  <2>9. IdsOf(rec') \subseteq IdsOf(rec) \cup {made + 1}
    BY <2>4, <2>5, <2>6 DEF IdsOf
  <2>10. made' \in Nat /\ made <= made' /\ made' <= MaxSteps
    BY <2>2, <2>3
  <2> QED BY <2>2, <2>8, <2>9, <2>10, RecorderGrows
<1>6. CASE RefineStep
  <2> DEFINE k == Len(rec)
             step == [rec[k] EXCEPT !.says = rec[k].says + 1]
  <2>1. /\ session # 0 /\ made' = made /\ stamp' = stamp + 1
        /\ rec # <<>> /\ rec[k].says < MaxVersion /\ rec' = [rec EXCEPT ![k] = step]
        /\ UNCHANGED <<op, poll, session, steps, stored, lastPulled, removed, own, applied, crossed>>
    BY <1>6 DEF RefineStep, Changed, Last, editor, server, seen
  <2>2. /\ made \in Nat /\ made <= MaxSteps /\ rec \in Seq(StepRecords) /\ Unique(rec)
        /\ \A n \in DOMAIN rec : rec[n].id <= made
        /\ NotMine(rec)
    BY <1>0 DEF ListsTyped, AnswersTyped, Tidy
  <2>3. k \in DOMAIN rec
    BY <2>1, <2>2
  <2>4. rec[k] \in StepRecords
    BY <2>2, <2>3
  <2> DEFINE before == rec[k]
  <2>5. step \in StepRecords /\ step.id = rec[k].id /\ step.says # Mine
    <3>1. before \in StepRecords /\ before.says < MaxVersion /\ step = [before EXCEPT !.says = before.says + 1]
      BY <2>1, <2>4
    <3> HIDE DEF before, step
    <3>2. step \in StepRecords /\ step.id = before.id /\ step.says # Mine
      BY <3>1, EditorAssumption DEF StepRecords, Mine
    <3> QED BY <3>2 DEF before
  <2> HIDE DEF step, k
  <2>6. /\ rec' \in Seq(StepRecords) /\ DOMAIN rec' = DOMAIN rec /\ rec'[k] = step
        /\ \A n \in DOMAIN rec : n # k => rec'[n] = rec[n]
    BY <2>1, <2>2, <2>3, <2>5
  <2>7. \A n \in DOMAIN rec : rec'[n].id = rec[n].id /\ rec'[n].says # Mine
    BY <2>2, <2>5, <2>6 DEF NotMine
  <2>8. Tidy(rec', made) /\ NotMine(rec') /\ IdsOf(rec') \subseteq IdsOf(rec)
    BY <2>2, <2>6, <2>7 DEF Tidy, Unique, NotMine, IdsOf
  <2>9. Tidy(rec, made)' /\ made' \in Nat /\ made <= made' /\ made' <= MaxSteps
    BY <2>1, <2>2, <2>8
  <2> QED BY <2>1, <2>8, <2>9, RecorderGrows
<1>7. CASE SessionDies
  <2>1. /\ session' = 0 /\ rec' = <<>> /\ stamp' = stamp
        /\ UNCHANGED <<op, poll, stored, made, steps, lastPulled, removed, own, applied, crossed>>
    BY <1>7 DEF SessionDies, editor, server, seen
  <2>2. PollShape' /\ Stages' /\ InHand' \subseteq InHand
    BY <1>0, <2>1 DEF PollShape, Stages, InHand
  <2> QED BY <2>1, <2>2, NothingTaken, QuietKeeps
<1> QED BY <1>5, <1>6, <1>7

\* The other end answers.
LEMMA ServeKeepsEdits ==
  ASSUME SavedInv, EditsInv, NEW r \in Requests, Serve(r) PROVE EditsInv'
<1>0. PollShape /\ Stages /\ ListsTyped /\ AnswersTyped /\ OpShape /\ Staged(op[r])
  BY DEF EditsInv, SavedInv, Stages
<1>1. UNCHANGED <<made, poll, steps, lastPulled, removed, own, applied, crossed>>
  BY DEF Serve, ServeOpen, ServeRecord, ServeClear, ServeClose, ServeCredentials, ServeSteps,
         ServeWorkflow, ServeRecording, OpFails, Mute, editor, seen
<1>2. op = [q \in Requests |-> op[q]] /\ IsOp(op[r])
  BY <1>0 DEF OpShape
<1> DEFINE before == op[r]
<1>3. PICK k, a, f, p, s, n :
        before = [kind |-> k, at |-> a, of |-> f, payload |-> p,
                  answer |-> [steps |-> s, stamp |-> n]]
  BY <1>2 DEF IsOp
<1>b. op[r] = before
  OBVIOUS
<1> HIDE DEF before
<1>4. /\ op[r].kind = k /\ op[r].at = a /\ op[r].of = f /\ op[r].payload = p
  BY <1>3, <1>b
<1>5. ASSUME Served(r, "served"), stored' = stored
      PROVE  PollShape' /\ Stages' /\ InHand' \subseteq InHand /\ CarriesOn
  <2>1. /\ PollShape' /\ Stages' /\ InHand' \subseteq InHand /\ op'[r].at = "served"
        /\ \A q \in Requests : q # r => op'[q] = op[q]
    BY <1>1, <1>5, RequestGoesOn
  <2>2. CarriesOn
    BY <1>0, <1>1, <1>5, <2>1, OthersCarryOn DEF Takes, TakingStages
  <2> QED BY <2>1, <2>2
<1>6. CASE ServeOpen(r)
  <2> PICK of : of = opened'
    OBVIOUS
  <2> DEFINE o == [before EXCEPT !.at = "served", !.of = of]
  <2>1. op' = [op EXCEPT ![r] = o]
    BY <1>2, <1>6, <1>b DEF ServeOpen
  <2>2. rec' = <<>> /\ stamp' = stamp + 1 /\ stored' = stored /\ op[r].kind = "open"
    BY <1>6 DEF ServeOpen, Answers, server
  <2>e. o = [before EXCEPT !.at = "served", !.of = of]
    OBVIOUS
  <2> HIDE DEF o
  <2>3. o = [kind |-> k, at |-> "served", of |-> of, payload |-> p,
             answer |-> [steps |-> s, stamp |-> n]]
    BY <1>3, <2>e
  <2>o. IsOp(o) /\ o.at = "served" /\ o.kind = k
    BY <2>3, Written
  <2>4. IsOp(o) /\ o.at = "served" /\ o.kind = "open"
    BY <1>4, <2>2, <2>o
  <2>5. Staged(o) /\ o.at # "pulled"
    BY <2>4 DEF Staged
  <2>6. /\ PollShape' /\ Stages' /\ InHand' \subseteq InHand
        /\ op'[r] = o /\ \A q \in Requests : q # r => op'[q] = op[q]
    BY <1>0, <1>1, <2>1, <2>4, <2>5, RequestMoves
  <2>7. CarriesOn
    BY <1>0, <1>1, <2>2, <2>4, <2>6, OthersCarryOn DEF Takes, TakingStages
  <2> QED BY <1>1, <2>2, <2>6, <2>7, QuietKeeps
<1>7. CASE ServeRecord(r)
  <2>1. UNCHANGED <<session, rec, stamp, stored>> /\ Served(r, "served")
    BY <1>7 DEF ServeRecord, server
  <2> QED BY <1>1, <1>5, <2>1, QuietKeeps
<1>8. CASE ServeClear(r)
  <2>1. rec' = <<>> /\ stamp' = stamp + 1 /\ stored' = stored /\ Served(r, "served")
    BY <1>8 DEF ServeClear, Changed, server
  <2> QED BY <1>1, <1>5, <2>1, QuietKeeps
<1>9. CASE ServeClose(r)
  <2>1. /\ Served(r, "served") /\ stamp' = stamp /\ stored' = stored
        /\ \/ session' = 0 /\ rec' = <<>>
           \/ UNCHANGED <<session, rec>>
    BY <1>9 DEF ServeClose, server
  <2> QED BY <1>1, <1>5, <2>1, QuietKeeps
<1>10. CASE ServeCredentials(r)
  <2>1. /\ op[r].at = "creds" /\ Served(r, "put")
        /\ UNCHANGED <<session, rec, stamp, stored>>
    BY <1>10 DEF ServeCredentials, worker
  <2>2. /\ PollShape' /\ Stages' /\ InHand' \subseteq InHand
        /\ op'[r].at = "put" /\ op'[r].kind = op[r].kind /\ op'[r].payload = op[r].payload
        /\ \A q \in Requests : q # r => op'[q] = op[q]
    BY <1>1, <2>1, RequestGoesOn
  <2>3. Takes(op[r]) /\ Taken(op'[r], stored) = Taken(op[r], stored)
    BY <2>1, <2>2 DEF Takes, Taken, TakingStages
  <2>4. CarriesOn
    BY <1>0, <1>1, <2>1, <2>2, <2>3, OthersCarryOn
  <2> QED BY <1>1, <2>1, <2>2, <2>4, QuietKeeps
<1>11. CASE ServeSteps(r)
  <2> PICK rows : rows = stored'
    OBVIOUS
  <2> DEFINE o == [NoOp EXCEPT !.kind = op[r].kind, !.at = "saved", !.answer.steps = rows]
  <2>1. /\ op[r].at = "put" /\ stored' = [j \in DOMAIN p |-> FromRow(p[j])]
        /\ op' = [op EXCEPT ![r] = o]
        /\ UNCHANGED <<session, rec, stamp>>
    BY <1>11, <1>4 DEF ServeSteps, worker
  <2>e. o = [NoOp EXCEPT !.kind = op[r].kind, !.at = "saved", !.answer.steps = rows]
    OBVIOUS
  <2> HIDE DEF o
  <2>0. o = [kind |-> op[r].kind, at |-> "saved", of |-> 0, payload |-> <<>>,
             answer |-> [steps |-> rows, stamp |-> 0]]
    BY <2>e DEF NoOp, NoAnswer
  <2>2. IsOp(o) /\ o.at = "saved" /\ o.kind = op[r].kind
    BY <1>4, <2>0, Written
  <2>3. Takes(op[r]) /\ Taken(op[r], stored) = p /\ Tidy(p, made) /\ op[r].kind \in {"save", "run", "schedule"}
    <3>1. Takes(op[r]) /\ Taken(op[r], stored) = p
      BY <1>4, <2>1 DEF Takes, Taken, TakingStages
    <3> QED BY <1>0, <3>1 DEF ListsTyped, SavedInv, OnlySavesTake, Takes
  <2>4. /\ p \in Seq(StepRecords) /\ DOMAIN p = 1..Len(p) /\ Len(p) \in Nat
        /\ \A j \in DOMAIN p : p[j] \in StepRecords
    BY <2>3 DEF Tidy
  <2>5. \A step \in StepRecords :
          FromRow(step) \in StepRecords /\ FromRow(step).id = step.id /\ FromRow(step).says = step.says
    BY DEF FromRow, StepRecords
  <2>6. /\ stored' \in Seq(StepRecords) /\ DOMAIN stored' = DOMAIN p
        /\ \A j \in DOMAIN p : stored'[j].id = p[j].id /\ stored'[j].says = p[j].says
    BY <2>1, <2>4, <2>5
  <2>7. Tidy(stored', made) /\ IdsOf(stored') = IdsOf(p)
    BY <2>3, <2>6 DEF Tidy, Unique, IdsOf
  <2>8. \A i : Rewritten(p, i) => Rewritten(stored', i)
    BY <2>6 DEF Rewritten
  <2>9. Staged(o) /\ o.at # "pulled"
    BY <2>2, <2>3 DEF Staged
  <2>10. /\ PollShape' /\ Stages' /\ InHand' \subseteq InHand
         /\ op'[r] = o /\ \A q \in Requests : q # r => op'[q] = op[q]
    BY <1>0, <1>1, <2>1, <2>2, <2>9, RequestMoves
  <2>11. CarriesOn
    <3> SUFFICES ASSUME NEW q \in Requests, Takes(op'[q])
                 PROVE  /\ Takes(op[q]) /\ op'[q].kind = op[q].kind
                        /\ Tidy(Taken(op'[q], stored'), made)
                        /\ IdsOf(Taken(op'[q], stored')) = IdsOf(Taken(op[q], stored))
                        /\ \A i : Rewritten(Taken(op[q], stored), i) =>
                                    Rewritten(Taken(op'[q], stored'), i)
      BY DEF CarriesOn
    <3>1. q = r
      <4> SUFFICES ASSUME q # r PROVE FALSE
        OBVIOUS
      <4>1. Takes(op[q])
        BY <2>10
      <4> QED BY <2>3, <4>1 DEF SavedInv, OneReplacer, OnlySavesTake, Takes, Replaces
    <3>2. Taken(op'[q], stored') = stored'
      BY <2>2, <2>10, <3>1 DEF Taken
    <3> QED BY <2>2, <2>3, <2>7, <2>8, <2>10, <3>1, <3>2
  <2> QED BY <1>1, <2>1, <2>10, <2>11, QuietKeeps
<1>12. CASE ServeWorkflow(r)
  <2> PICK rows : rows = stored
    OBVIOUS
  <2> DEFINE o == [before EXCEPT !.at = "loaded", !.answer.steps = rows]
  <2>1. op[r].at = "load" /\ UNCHANGED <<session, rec, stamp, stored>>
    BY <1>12 DEF ServeWorkflow, worker, server
  <2>2. op' = [op EXCEPT ![r] = o]
    BY <1>2, <1>12, <1>b DEF ServeWorkflow
  <2>e. o = [before EXCEPT !.at = "loaded", !.answer.steps = rows]
    OBVIOUS
  <2> HIDE DEF o
  <2>0. o = [kind |-> k, at |-> "loaded", of |-> f, payload |-> p,
             answer |-> [steps |-> rows, stamp |-> n]]
    BY <1>3, <2>e
  <2>3. IsOp(o) /\ o.at = "loaded" /\ o.kind = op[r].kind
    BY <1>4, <2>0, Written
  <2>4. op[r].kind = "save"
    BY <1>0, <2>1 DEF Staged
  <2>5. Staged(o) /\ o.at # "pulled"
    BY <2>3, <2>4 DEF Staged
  <2>6. /\ PollShape' /\ Stages' /\ InHand' \subseteq InHand
        /\ op'[r] = o /\ \A q \in Requests : q # r => op'[q] = op[q]
    BY <1>0, <1>1, <2>2, <2>3, <2>5, RequestMoves
  <2>7. Takes(op[r]) /\ Taken(op'[r], stored) = Taken(op[r], stored)
    BY <2>1, <2>3, <2>6 DEF Takes, Taken, TakingStages
  <2>8. CarriesOn
    BY <1>0, <1>1, <2>1, <2>3, <2>6, <2>7, OthersCarryOn
  <2> QED BY <1>1, <2>1, <2>6, <2>8, QuietKeeps
<1>13. CASE ServeRecording(r)
  <2> PICK new : new = [steps |-> rec, stamp |-> stamp]
    OBVIOUS
  <2> DEFINE o == [before EXCEPT !.at = "pulled", !.answer = new]
  <2>1. /\ session = op[r].of /\ op[r].at = "pull" /\ UNCHANGED <<session, rec, stamp, stored>>
    BY <1>13 DEF ServeRecording, worker, server
  <2>2. op' = [op EXCEPT ![r] = o]
    BY <1>2, <1>13, <1>b DEF ServeRecording
  <2>e. o = [before EXCEPT !.at = "pulled", !.answer = new]
    OBVIOUS
  <2> HIDE DEF o
  <2>0. o = [kind |-> k, at |-> "pulled", of |-> f, payload |-> p, answer |-> new]
    BY <1>3, <2>e
  <2>3. /\ IsOp(o) /\ o.at = "pulled" /\ o.kind = op[r].kind /\ o.of = op[r].of /\ o.answer = new
    BY <1>4, <2>0, Written
  <2>4. session # 0
    BY <1>0, <2>1 DEF Staged
  <2>5. op'[r] = o /\ \A q \in Requests : q # r => op'[q] = op[q]
    BY <1>0, <2>2, <2>3, OneRequest
  <2>6. CarriesOn
    BY <1>0, <1>1, <2>1, <2>3, <2>5, OthersCarryOn DEF Takes, TakingStages
  <2>7. InHand' \subseteq InHand \cup {[steps |-> rec, stamp |-> stamp]}
    <3> SUFFICES ASSUME NEW b \in InHand' PROVE b \in InHand \/ b = new
      OBVIOUS
    <3>1. CASE \E q \in Polls : poll'[q].at = "pulled" /\ b = poll'[q].answer
      BY <1>1, <3>1 DEF InHand
    <3>2. CASE \E q \in Requests : op'[q].at = "pulled" /\ b = op'[q].answer
      BY <2>3, <2>5, <3>2 DEF InHand
    <3> QED BY <3>1, <3>2 DEF InHand
  <2>8. Staged(o)
    BY <1>0, <2>1, <2>3 DEF Staged
  <2>9. PollShape' /\ Stages'
    BY <1>0, <1>1, <2>5, <2>8 DEF PollShape, Stages
  <2> QED BY <1>1, <2>1, <2>4, <2>6, <2>7, <2>9, AnswerArrives
<1>14. CASE OpFails(r)
  <2>1. op' = [op EXCEPT ![r] = NoOp] /\ UNCHANGED <<session, rec, stamp, stored>>
    BY <1>14 DEF OpFails, worker, server
  <2>2. /\ PollShape' /\ Stages' /\ InHand' \subseteq InHand /\ ~Takes(op'[r])
        /\ \A q \in Requests : q # r => op'[q] = op[q]
    BY <1>1, <2>1, RequestEnds
  <2>3. CarriesOn
    BY <1>0, <1>1, <2>1, <2>2, OthersCarryOn
  <2> QED BY <1>1, <2>1, <2>2, <2>3, QuietKeeps
<1> QED BY <1>6, <1>7, <1>8, <1>9, <1>10, <1>11, <1>12, <1>13, <1>14 DEF Serve

-----------------------------------------------------------------------------

\* Nothing is listed, recorded or under way.
LEMMA EditsAtFirst == EditorInit => EditsInv
<1> SUFFICES ASSUME EditorInit PROVE EditsInv
  OBVIOUS
<1>1. \A r \in Requests : op[r].at = "none" /\ op[r].kind = "none"
  BY DEF EditorInit, NoOp
<1>2. \A p \in Polls : poll[p] = NoPoll
  BY DEF EditorInit
<1>3. PollShape
  <2>1. poll = [p \in Polls |-> poll[p]]
    BY DEF EditorInit
  <2> QED BY <1>2, <2>1, PollsBegin DEF PollShape
<1>4. InHand = {}
  BY <1>1, <1>2, PollsBegin DEF InHand
<1>5. Stages /\ \A r \in Requests : ~Takes(op[r])
  BY <1>1, <1>2, PollsBegin DEF Stages, Staged, Takes, TakingStages
<1>6. /\ made = 0 /\ steps = <<>> /\ rec = <<>> /\ stamp = 0 /\ applied = 0 /\ crossed = FALSE
      /\ session = 0 /\ lastPulled = <<>> /\ own = [i \in StepIds |-> "none"]
  BY DEF EditorInit
<1>7. ListsTyped /\ AnswersTyped /\ Latest
  <2>1. ListsTyped
    BY <1>5, <1>6, NothingHas, EditorAssumption DEF ListsTyped
  <2>2. crossed \in BOOLEAN /\ DOMAIN lastPulled = {}
    <3>1. crossed \in BOOLEAN
      BY <1>6
    <3>2. DOMAIN lastPulled = {}
      BY <1>6
    <3> QED BY <3>1, <3>2
  <2>3. AnswersTyped /\ Latest
    BY <1>4, <1>6, <2>2, NothingHas DEF AnswersTyped, Latest
  <2> QED BY <2>1, <2>3
<1>8. IdsOf(rec) = {} /\ Known = {}
  BY <1>5, <1>6, NothingHas DEF Known
<1>9. Lasting /\ KnownPulled
  BY <1>4, <1>8 DEF Lasting, Lasts, KnownPulled
<1>10. GoneStay /\ MineStay
  BY <1>6 DEF GoneStay, MineStay
<1> QED BY <1>3, <1>5, <1>7, <1>9, <1>10 DEF EditsInv

\* Every step of the page or of the other end keeps the invariant.
LEMMA EditsStep == SavedInv /\ EditsInv /\ [Next]_vars => EditsInv'
<1> SUFFICES ASSUME SavedInv, EditsInv, [Next]_vars PROVE EditsInv'
  OBVIOUS
<1>1. CASE ServerNext
  BY <1>1, RecorderKeepsEdits, ServeKeepsEdits DEF ServerNext
<1>2. CASE PageNext
  BY <1>2, PollsKeep, EditingKeeps, ButtonsKeep, AnswersKeep DEF PageNext
<1>3. CASE UNCHANGED vars
  <2>1. UNCHANGED <<made, poll, op, session, rec, stamp, stored, steps, lastPulled, removed, own, applied, crossed>>
    BY <1>3 DEF vars, worker, editor, server, seen
  <2>2. CarriesOn /\ PollShape' /\ Stages' /\ InHand' \subseteq InHand
    BY <2>1, NothingTaken DEF EditsInv, PollShape, Stages, InHand
  <2> QED BY <2>1, <2>2, QuietKeeps
<1> QED BY <1>1, <1>2, <1>3 DEF Next

(* A step the user deleted never comes back, and one the user rewrote      *)
(* keeps what was written (recording.ts:6-9), for any number of steps,     *)
(* polls, sessions and requests at once: what is not covered is a change   *)
(* made under a save that replaces the list, answers that came in the      *)
(* other order, and a page on which two requests that replace the list     *)
(* overlapped.                                                             *)
THEOREM WhatTheUserDidStays == Spec => []EditsSurvive
<1> DEFINE Inv == ~overlapped => SavedInv /\ EditsInv
<1>1. EditorInit => Inv
  BY SavedAtFirst, EditsAtFirst
<1>2. Inv /\ [Next]_vars => Inv'
  BY SavedStep, EditsStep, OverlapStays
<1>3. Inv => EditsSurvive
  BY DEF EditsInv, GoneStay, MineStay, EditsSurvive, Rewritten
<1> HIDE DEF Inv
<1> QED BY <1>1, <1>2, <1>3, PTL DEF Spec
=============================================================================
