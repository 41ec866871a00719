-------------------------------- MODULE Schema --------------------------------
(***************************************************************************)
(* The algorithms of packages/workflow-schema on what the recorder, the    *)
(* pages and the forms can give them, one task at a time: naming an        *)
(* element and finding it again on a page that has grown, turning a        *)
(* recording into steps, a recurrence into a cron line, and a text of a    *)
(* page into a number.                                                     *)
(***************************************************************************)
EXTENDS SelectorChoice, RecordedSteps, Recurrences, PageNumbers

CONSTANTS
  Elements,     \* what a page may be made of
  MaxPage,      \* bound: elements on a page when it is recorded
  Actions,      \* what may be recorded
  MaxActions,   \* bound: actions of a recording
  Repetitions,  \* the recurrences picked in the form
  Times,        \* bound: the times at which a cron line is looked at
  MaxText       \* bound: characters of a text that is read

ASSUME SchemaAssumption ==
  /\ {MaxPage, MaxActions, MaxText} \subseteq Nat
  /\ Actions \subseteq RecordedActions
  /\ Repetitions \subseteq ValidRecurrences
  /\ Times \subseteq [month : 1..12, day : 1..31, weekday : 0..6, hour : 0..23, minute : 0..59]

VARIABLES task, input, phase, output

schemaVars == <<task, input, phase, output>>

Nothing == "nothing yet"

(* Of a recording only the last action is a closing one: the recorder stops. *)
Recordings ==
  {actions \in BoundedSeq(Actions, MaxActions) :
     \A i \in DOMAIN actions : actions[i].isFinal => i = Len(actions)}

SchemaInit ==
  /\ phase = "given" /\ output = Nothing
  /\ \/ task = "name" /\ \E page \in BoundedSeq(Elements, MaxPage) : \E i \in DOMAIN page :
                           input = [page |-> page, target |-> i]
     \/ task = "convert" /\ input \in Recordings
     \/ task = "repeat" /\ input \in Repetitions
     \/ task = "read" /\ input \in BoundedSeq({"d", "dot", "comma"}, MaxText)

Begins == phase = "given" /\ phase' = "done"

(* The recorder names the element, and the run looks for it. *)
Name ==
  /\ task = "name" /\ Begins
  /\ \E chosen \in {ChooseSelector(input.page, input.target)} :
       output' = [chosen |-> chosen, hit |-> ResolveUnique(input.page, chosen)]
  /\ UNCHANGED <<task, input>>

(* The page of the run has one more element, anywhere. *)
Grow ==
  /\ task = "name" /\ phase = "done"
  /\ \E el \in Elements, at \in 1..Len(input.page) + 1 :
       LET page == InsertAt(input.page, at, el)
       IN /\ input' = [page |-> page, target |-> input.target + (IF at <= input.target THEN 1 ELSE 0)]
          /\ output' = [output EXCEPT !.hit = ResolveUnique(page, output.chosen)]
  /\ phase' = "grown" /\ task' = task

Convert ==
  /\ task = "convert" /\ Begins
  /\ output' = ActionsToSteps(input)
  /\ UNCHANGED <<task, input>>

Repeat ==
  /\ task = "repeat" /\ Begins
  /\ output' = RecurrenceToCron(input)
  /\ UNCHANGED <<task, input>>

Read ==
  /\ task = "read" /\ Begins
  /\ output' = ParseLocaleNumber(input)
  /\ UNCHANGED <<task, input>>

SchemaNext == Name \/ Grow \/ Convert \/ Repeat \/ Read

SchemaSpec == SchemaInit /\ [][SchemaNext]_schemaVars

Did(what) == task = what /\ phase = "done"

-----------------------------------------------------------------------------
(* Naming. *)

(* What unique[] is not counted among: the name and value of a grouped       *)
(* input, labels of anything but a field, texts of other elements.           *)
Miscounted(page, i, selector) ==
  \/ selector.by = "nameAndValue"
  \/ selector.by = "label" /\ \E j \in DOMAIN page : page[j].tag \notin Controls
  \/ selector.by = "text" /\ \E j \in DOMAIN page : page[j].tag \notin Worded

(* selector.ts 246-249 and locator.ts 70-71 "the MVP never picks the first   *)
(* of several candidates": on the page it was recorded on, an element is     *)
(* found again; and while it is on the page, whatever is added around it, a  *)
(* run acts on that element or stops, unless all that could be said of it    *)
(* was where it sits.                                                        *)
FindsItsElement ==
  /\ Did("name") /\ ~Miscounted(input.page, input.target, output.chosen.primary) =>
       output.hit = input.target
  /\ phase = "grown" /\ ~IsPositional(output.chosen.primary) =>
       output.hit \in {input.target, Nobody}

-----------------------------------------------------------------------------
(* Converting: what the actions did and what the steps do, to the fields and *)
(* addresses of the pages, as seen by each click.                            *)

Untouched == [fields |-> {}, log |-> <<>>]

Put(world, place, value) ==
  [fields |-> {f \in world.fields : f.place # place} \cup {[place |-> place, value |-> value]},
   log    |-> world.log]

(* A navigation empties the fields of its page. *)
Left(world, page) == [fields |-> {f \in world.fields : f.place[1] # page}, log |-> world.log]

Does(world, deed) ==
  CASE deed.type = "nothing" -> world
    [] deed.type = "goto" -> Put(Left(world, deed.page), <<deed.page, "", "address">>, deed.text)
    [] deed.type = "fill" -> Put(world, <<deed.page, deed.frame, deed.selector>>, deed.text)
    [] OTHER -> [fields |-> world.fields,
                 log    |-> Append(world.log, <<deed.type, deed.page, deed.frame, deed.selector, world.fields>>)]

Worlds(deeds) ==
  LET world[n \in 0..Len(deeds)] ==
        IF n = 0 THEN Untouched ELSE Does(world[n - 1], deeds[n])
  IN world

Play(deeds) == Worlds(deeds)[Len(deeds)]

(* A field was emptied.  Nothing is said of it by a step, which needs a      *)
(* value, but it was done to the page.                                       *)
Emptied(a) ==
  a.kind = "fill" /\ ~a.isPassword /\ a.value = "" /\ a.element.selector # ""

(* What was recorded is taken for what was done; an action without a         *)
(* selector that needs one, or that reads a secret, is not counted.          *)
Performing(a) ==
  [type |-> IF Converts(a) \/ Emptied(a) THEN TypeOf(a.kind) ELSE "nothing", page |-> a.pageId,
   frame |-> a.element.frame, selector |-> a.element.selector, text |-> a.value]

Performed(actions) == Play([i \in DOMAIN actions |-> Performing(actions[i])])

Typed(value, credentials) ==
  IF value.secret THEN (CHOOSE c \in credentials : c.name = value.of).value ELSE value.of[1]

Replaying(step, credentials) ==
  [type |-> step.type, page |-> step.pageId, frame |-> step.frame, selector |-> step.selector,
   text |-> Typed(step.value, credentials)]

Replayed(result) ==
  Play([i \in DOMAIN result.steps |-> Replaying(result.steps[i], result.credentials)])

(* What the conversion cannot tell apart: one selector in two frames, one    *)
(* address in two tabs, two secrets typed into fields of one name.           *)
Twins(actions) ==
  \E i, j \in DOMAIN actions :
    LET a == actions[i]  b == actions[j]
    IN i < j /\ a.kind = b.kind /\
       \/ a.kind = "fill" /\ a.element.selector = b.element.selector /\ a.element.frame # b.element.frame
       \/ a.kind = "navigate" /\ a.value = b.value /\ a.pageId # b.pageId
       \/ a.kind = "fill" /\ a.isPassword /\ b.isPassword
            /\ CredentialName(a) = CredentialName(b) /\ a.value # b.value

Refills(b, a) ==
  /\ b.kind = "fill" /\ b.pageId = a.pageId
  /\ b.element.frame = a.element.frame /\ b.element.selector = a.element.selector

(* What the conversion loses: a field that was emptied and not filled again  *)
(* at once keeps the value it was filled with before.                        *)
LeftEmpty(actions) ==
  \E i \in DOMAIN actions :
    Emptied(actions[i]) /\ ~(i + 1 \in DOMAIN actions /\ Refills(actions[i + 1], actions[i]))

(* recorded-action.ts 413-417: the list can be saved, every secret it refers *)
(* to is handed over with it, each step is lined up with an action that      *)
(* became one, and running it does to the pages what the recorded actions    *)
(* did, whatever was collapsed, dropped or renamed; up to twins and fields   *)
(* left empty, whose emptying the conversion drops.                          *)
RecordedAsDone ==
  Did("convert") =>
    /\ ValidSteps(output.steps)
    /\ \A i \in DOMAIN output.steps :
         output.steps[i].value.secret => \E c \in output.credentials : c.name = output.steps[i].value.of
    /\ Len(output.source) = Len(output.steps)
    /\ \A i, j \in DOMAIN output.source : i < j => output.source[i] < output.source[j]
    /\ \A i \in DOMAIN output.source :
         Converts(input[output.source[i]]) /\ Value(input[output.source[i]]) = output.steps[i].value
    /\ Twins(input) \/ LeftEmpty(input) \/ Replayed(output) = Performed(input)

-----------------------------------------------------------------------------
(* Repeating. *)

(* The sentence next to the field, as a set of times. *)
Meant(r, t) ==
  CASE r.kind = "minutes" -> t.minute % r.every = 0
    [] r.kind = "hours" -> t.hour % r.every = 0 /\ t.minute = r.minute
    [] r.kind = "days" -> (t.day - 1) % r.every = 0 /\ <<t.hour, t.minute>> = r.time
    [] r.kind = "weekly" -> t.weekday = r.weekday /\ <<t.hour, t.minute>> = r.time
    [] r.kind = "months" -> (t.month - 1) % r.every = 0 /\ t.day = r.day /\ <<t.hour, t.minute>> = r.time

(* recurrence.ts 4-12 "`0 3 * * *` versus `3 0 * * *` is the difference      *)
(* between three in the morning and three minutes past midnight": the cron   *)
(* line fires at the times the recurrence means and at no other, and is read *)
(* back to the user as what they picked.                                     *)
CronMeansWhatWasPicked ==
  Did("repeat") =>
    /\ \A t \in Times : Fires(output, t) <=> Meant(input, t)
    /\ DescribeCron(output) = input

-----------------------------------------------------------------------------
(* Reading. *)

OneMarkRepeated(text) ==
  Cardinality(MarksOf(text)) > 1 /\ Cardinality({text[i] : i \in MarksOf(text)}) = 1
EndsInMark(text) == Len(text) \in MarksOf(text)
MixedThousands(text) ==
  \E i, j \in MarksOf(text) : i < LastMark(text) /\ j < LastMark(text) /\ text[i] # text[j]

(* read-result.ts "this codebase stops rather than guesses, and a wrong      *)
(* number is worse than no number": a number that is taken from a text is    *)
(* the only one any country writes like that.  Excepted are a mark with      *)
(* nothing after it, one mark repeated, and thousands split by both marks.   *)
AmbiguousNeverGuessed ==
  Did("read") /\ output # NotANumber
      /\ ~EndsInMark(input) /\ ~OneMarkRepeated(input) /\ ~MixedThousands(input) =>
    Readings(input) = {output}

(* The same of one mark repeated, "grouped the way thousands are grouped -   *)
(* 1.234.567": a text that some country does write is no other number.       *)
NumberNeverMisread ==
  Did("read") /\ output # NotANumber /\ Readings(input) # {} => output \in Readings(input)
=============================================================================
