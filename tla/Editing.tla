------------------------------ MODULE Editing ------------------------------
\* A workflow edited while it is being recorded: the list in the page, the
\* recording it is fed from, and the rows it is saved to.
EXTENDS EditorPage

Next == ServerNext \/ PageNext
Spec == EditorInit /\ [][Next]_vars

AnyRequest == Permutations(Requests)

AtRest == \A r \in Requests : op[r] = NoOp

\* "Modifiche non salvate" can be trusted: with nothing under way, a list that
\* is not marked unsaved is the one the workflow has, and so the one "Esegui
\* adesso" runs, whatever polls, edits and other requests overlapped a save.
\* Excepted are a save made by schedule() (page.tsx:637-640), which clears the
\* mark over changes made while it was on its way, and a page on which two
\* requests that replace the list were once under way together.
CleanMeansSaved ==
    AtRest /\ ~dirty /\ ~blurred /\ ~overlapped => SameSteps(steps, stored)

\* Not run: the same when two saves may overlap. The rows read for the one and
\* answered late take the place of those the other has saved since.
CleanMeansSavedThoughSavesOverlap ==
    AtRest /\ ~dirty /\ ~blurred => SameSteps(steps, stored)

\* Not run. "a session that is gone has to be dropped rather than kept as a dead
\* handle" (page.tsx:263-266): a session is held only if the timer asks after it.
HeldIsAskedAfter == held # 0 => timer = held

\* What the user did to a step stays done (recording.ts:6-9): a step deleted
\* never comes back, and one rewritten keeps what the user wrote, through any
\* number of polls, saves and sessions. Not covered: a change made under a save
\* that replaces the list, a rewritten step after answers of two polls came in
\* the other order, and a page on which two requests that replace the list
\* overlapped.
EditsSurvive ==
    ~overlapped =>
        \A i \in StepIds :
            /\ own[i] = "gone" => i \notin IdsOf(steps)
            /\ own[i] = "mine" /\ ~crossed =>
                \E k \in DOMAIN steps : steps[k].id = i /\ steps[k].says = Mine

\* A secret that was typed while recording is stored before the steps that need
\* it (page.tsx:508-514): no step is saved with an empty secret while the
\* session that captured it is there to ask.
SecretsComeFirst ==
    AtRest /\ held # 0 /\ held = session =>
        \A i \in SecretIds \cap IdsOf(stored) \cap IdsOf(rec) : cred[i] # "empty"
=============================================================================
