---------------------------- MODULE EditorState ----------------------------
\* The step list while a workflow is being recorded, and where it lives: in the
\* worker's recording, in the editor's page, and in the workflow's rows. The
\* page asks for the recording on a timer and on Stop, whatever else it is doing.
EXTENDS Integers, Sequences, SequencesExt, FiniteSets

CONSTANTS
    MaxSteps,       \* bound: steps made by the recorder and by hand, all told
    MaxVersion,     \* bound: times the recorder rewrites a step it has recorded
    MaxStamp,       \* bound: changes of the recording
    MaxSessions,    \* bound: remote browsers opened from the page
    MaxClicks,      \* bound: buttons pressed
    MaxEdits,       \* bound: changes made to the list by hand
    Polls,          \* bound: ticks of the page's timer under way together
    Requests,       \* bound: buttons' requests under way together
    SecretIds       \* the steps that type a secret, wherever they come from

ASSUME EditorAssumption ==
    /\ {MaxSteps, MaxVersion, MaxStamp, MaxSessions,
        MaxClicks, MaxEdits} \subseteq Nat
    /\ SecretIds \subseteq Nat

VARIABLES
    made,           \* steps that were given an id so far
    clicks, edits,  \* buttons pressed and changes made by hand so far
    opened,         \* sessions opened so far
    session,        \* the worker's live session, 0 when there is none
    rec, recording, \* its recording, and whether it is running
    stamp,          \* changes of the recording so far
    held, timer,    \* the session the page holds, the one its timer asks of; 0 when none
    steps, dirty,   \* the editor's list, and "there are unsaved changes"
    lastPulled,     \* what the last answer held, by step id
    removed,        \* ids the user deleted since the last clear
    wasRecording,   \* whether the last poll saw the recording running
    poll,           \* the polls under way
    op,             \* the buttons whose requests are under way
    stored,         \* the workflow's rows
    cred,           \* the secrets, by the step that types them
    own,            \* what the user did last to a step and must be left alone
    applied,        \* the newest recording an answer has brought
    crossed,        \* an answer was applied after a newer one
    blurred,        \* the list changed while schedule() was saving it
    overlapped      \* two requests that replace the list were under way together

worker == <<session, rec, recording, stamp>>
editor == <<steps, dirty, lastPulled, removed>>
server == <<stored, cred>>
seen == <<own, applied, crossed, blurred, overlapped>>
user == <<clicks, edits>>
holding == <<held, timer>>
vars == <<made, opened, user, worker, holding, editor, wasRecording, poll, op, server, seen>>

StepIds == 1..MaxSteps
Mine == MaxVersion + 1      \* what a step says once the user has rewritten it

\* A step is compared as JSON text. A recorded step leaves out the fields it has
\* no value for; a row gives every column back, so saving changes the text of a
\* step nobody touched.
Recorded(i, final) == [id |-> i, says |-> 0, form |-> "recorded", final |-> final]
Typed(i) == [id |-> i, says |-> Mine, form |-> "recorded", final |-> FALSE]
FromRow(step) ==
    [id |-> step.id, says |-> step.says, form |-> "stored", final |-> step.final]

SameSteps(list, other) ==
    /\ DOMAIN list = DOMAIN other
    /\ \A k \in DOMAIN list : list[k].id = other[k].id /\ list[k].says = other[k].says

IdsOf(list) == {list[k].id : k \in DOMAIN list}
ById(list) == [i \in IdsOf(list) |-> list[CHOOSE k \in DOMAIN list : list[k].id = i]]

\* The list without the steps of these ids: the steps left, each at the place
\* that counts those left up to it.
Without(list, ids) ==
    LET left == {k \in DOMAIN list : list[k].id \notin ids}
        nth(n) == CHOOSE k \in left : Cardinality({j \in left : j <= k}) = n
    IN [n \in 1..Cardinality(left) |-> list[nth(n)]]

NoAnswer == [steps |-> <<>>, stamp |-> 0]
NoOp == [kind |-> "none", at |-> "none", of |-> 0, payload |-> <<>>, answer |-> NoAnswer]
NoPoll == [at |-> "idle", of |-> 0, alive |-> FALSE, on |-> FALSE, answer |-> NoAnswer]

EditorInit ==
    /\ made = 0 /\ opened = 0 /\ clicks = 0 /\ edits = 0
    /\ session = 0 /\ rec = <<>> /\ recording = FALSE /\ stamp = 0
    /\ held = 0 /\ timer = 0 /\ steps = <<>> /\ dirty = FALSE
    /\ lastPulled = <<>> /\ removed = {} /\ wasRecording = FALSE
    /\ poll = [p \in Polls |-> NoPoll]
    /\ op = [r \in Requests |-> NoOp]
    /\ stored = <<>> /\ cred = [i \in SecretIds |-> "absent"]
    /\ own = [i \in StepIds |-> "none"]
    /\ applied = 0 /\ crossed = FALSE /\ blurred = FALSE /\ overlapped = FALSE

-----------------------------------------------------------------------------
\* A closing action must stay the last step.
FinalLast(list) == \A k \in DOMAIN list : list[k].final => k = Len(list)

insertionIndex(list) ==
    IF list # <<>> /\ Last(list).final THEN Len(list) ELSE Len(list) + 1

canMove(list, k, to) ==
    /\ to \in DOMAIN list
    /\ to < k => ~list[k].final
    /\ to > k => ~list[to].final

\* The next definition without looking at what the user has changed.
MergedStepFresh(mine, incoming) ==
    IF mine.id \notin IdsOf(incoming) THEN mine ELSE ById(incoming)[mine.id]

\* mergeRecording: the step as the merged list has it.
MergedStep(mine, incoming) ==
    IF mine.id \notin IdsOf(incoming) THEN mine
    ELSE IF mine.id \in DOMAIN lastPulled /\ lastPulled[mine.id] # mine THEN mine
    ELSE ById(incoming)[mine.id]

\* The list without what the user deleted, and after it what is new.
mergeRecording(incoming) ==
    LET kept == Without(steps, removed)
        new == Without(incoming, removed \cup IdsOf(steps))
    IN [k \in DOMAIN kept |-> MergedStep(kept[k], incoming)] \o new
=============================================================================
