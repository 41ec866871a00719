# Verification of browser-playbook

TLA+ models, TLC configurations and TLAPS proofs for browser-playbook: a
service that records what a user does in a browser as a *workflow* of steps and
performs it again, at once or on a schedule. A run acts on a real third-party
site, so the questions that matter are about what is performed, how often, and
what the rows say of it when processes race, die and come back.

All paths below are relative to `src/`.

## 1. Inventory

Three processes share two stores. The **API** (`apps/api`, Fastify) answers the
users and writes PostgreSQL; it puts jobs in **BullMQ** (Redis). The **worker**
(`apps/worker`) takes them, runs a browser and writes PostgreSQL too. The API
reaches the worker directly over an internal HTTP server for live sessions.

| Component | State it keeps | Operations | Talks to |
|---|---|---|---|
| Execution and schedule states (`packages/shared/src/states.ts`, `packages/database/prisma/schema.prisma`) | the rows | state tables | everyone |
| Executions API (`apps/api/src/routes/executions.ts`) | none of its own; reads rows between awaits | run now, cancel, log stream | queue, worker, DB |
| Schedules API (`apps/api/src/routes/schedules.ts`) | none | create one-shot or recurring, DELETE | queue, DB |
| Queue (`apps/api/src/queue.ts`, BullMQ) | delayed, waiting and active jobs; job schedulers | add, delay, upsert, remove, cancel | Redis |
| Consumer and reconciliation (`apps/worker/src/queue-consumer.ts`, `index.ts`) | the one job in process | take a job, start an occurrence, close orphans and missed schedules at startup | queue, DB, runner |
| Runner (`apps/worker/src/runner/run-execution.ts`) | local variables of one run | claim, preflight, open a session, perform steps, record the outcome, notify, settle the schedule | DB, session manager |
| Session manager (`apps/worker/src/session/manager.ts`, `allocator.ts`, `limits.ts`) | sessions by id, slots in use, profile locks | create, close, reap idle ones | browser session, profiles |
| Browser session (`session/session.ts`, `process-utils.ts`) | processes, pages, recorded actions, `state` | start, close, record, verify | Chromium, VNC |
| Profiles (`session/profile.ts`) | directories, locks | lock, borrow from an open session | file system |
| Recorder (`recorder/`, `session.ts`, `packages/workflow-schema/src/recorded-action.ts`) | the list of recorded actions | append, merge, amend, verify a locator | the page |
| Step execution (`runner/execute-step.ts`, `pointer-action.ts`, `quiet.ts`, `settle.ts`, `locator.ts`) | quiet periods | perform one step, under timeouts and once: nothing is retried | Playwright |
| Retention (`apps/worker/src/retention.ts`) | none | delete old rows, artifacts and profiles | DB, file system |
| Control server and session routes (`control-server.ts`, `worker-client.ts`, `routes/sessions.ts`) | tokens | create, close, inspect a session | session manager |
| Workflows, credentials, references (`routes/workflows.ts`, `routes/credentials.ts`, `references.ts`) | none | replace steps, delete what nothing refers to | DB |
| Authentication (`auth.ts`, `routes/auth.ts`) | token version per user | sign in, log out everywhere | DB |
| Workflow schema (`packages/workflow-schema`) | none: pure functions | choosing a selector, recorded actions to steps, recurrence to cron, numbers of a page, references | API, worker, web |
| Web interface (`apps/web`) | the step list being edited, what the last poll brought, what the user deleted; a run's log lines | edit, record, save, run, schedule, watch | API |

### What is hard here

* **Interleaving of handlers.** Every `await` in the API is a point where
  another request, the queue or the worker can run. Nothing is in a
  transaction: a check of rows in flight and the creation of a row are two
  statements, and so are asking for a job's state and removing the job.
* **Stale reads.** The runner reads its row once and then writes `starting`
  and `running` unconditionally; the startup reads lists of rows and closes
  them one by one.
* **Crashes.** A worker that dies leaves its job active in Redis and its row
  `starting` or `running`. The job must not be run again (it acts on a real
  site) and the row must not stay in progress.
* **Two sources of truth.** Rows and jobs are written one after the other, so
  either can exist without the other.
* **Recurrences** keep one job ahead of themselves; stopping them has two steps.
* **A list with two writers.** While a workflow is recorded its step list is
  edited by hand and fed by a poll; saves, loads and polls overlap.
* **A copy per page.** Every page of a recorded browser has its own copy of what
  is being recorded and armed, brought to it by passes that overlap with each
  other and with pages that open, navigate and close.
* **A site that does as it likes.** The pages and controls a run acts on move
  between any two questions it asks about them.
* **Slow asynchronous resources.** A browser takes seconds to start and can be
  closed meanwhile, by a cancellation, the reaper or a shutdown.

`PROJECT.json` lists each hazard at its line, with the property that covers it.

### What makes each component correct

* *Lifecycle* (API, queue, consumer, runner, startup): no step performed twice;
  no run left in progress or queued with nothing to move it; a stopped
  schedule stays stopped; occurrences do not pile up; a cancellation stops the
  run within one step; failures nobody watches are reported; what started ends.
* *Session manager*: no two sessions share a slot or a profile; every slot and
  lock is given back, and only by the session that has it; nothing that was
  started outlives its session; every session ends.
* *Log stream and its page*: no row skipped, none shown twice, and the page
  learns that the run is over.
* *Step execution*: nothing is done in another document than the recorded one;
  a click that changed nothing is not taken for success; waiting for quiet
  measures quiet and ends.
* *Recorder*: a closing action closes the recording; no page is left recording or
  armed; the name given to an element finds that element or nothing.
* *Conversions*: the steps do what the actions did, the cron line means what was
  picked, an ambiguous number is refused.
* *Editing*: what the user did to the list stays done; what is not marked unsaved
  is what runs; secrets are stored before the steps that need them.

## 2. Plan

Built, in order:

1. `ExecutionStates`, `LifecycleState`: tables, rows, jobs, processes.
2. `ExecutionQueue`, `ExecutionApi`, `ExecutionRunner`, `WorkerStartup`: one
   component each; `ExecutionLifecycle` composes them and states the properties.
3. `SiteEffects`: the abstract promise; `RunsOnce`: the refinement mapping and
   the inductive invariant; `RunsOnceProofs`, `RowProofs`: proofs.
   `MCExecutionLifecycle` holds the instance and the comments of the code that an
   interleaving contradicts.
4. `SessionState`, `BrowserSession`, `SessionManager`, `SessionProofs`: slots,
   profile locks, `create`, `start` and `close` of the worker's browsers.
5. `RecorderState`, `RecorderPage`, `RecorderSession`, `RecorderControl`, composed
   in `Recorder`; `RecorderProofs`.
6. `StepPages`, `StepPointer`, `StepExecution`, `StepSettle`, composed in
   `Stepping`; `StepProofs`.
7. `SelectorChoice`, `RecordedSteps`, `Recurrences`, `PageNumbers`, composed in
   `Schema`: pure algorithms against reference definitions; `SchemaProofs`.
8. `EditorState`, `EditorServer`, `EditorPage`, composed in `Editing`;
   `EditorProofs`.
9. `LogStream`, composed with the page that reads it in `Watching`; `WatchProofs`.

Left: the token version of logins; retention; the VNC proxy of
`routes/sessions.ts`; the credentials page; `closeAll()` of the session manager;
the sessions in place of the lifecycle's variable `browser`; two writers of one
workflow. Every safety property of a passing run is a theorem (section 11).

## 3. The execution lifecycle

### State

`LifecycleState` declares all of it. One workflow is modelled: every row and
job belongs to it, so a query `where workflowId = ...` ranges over every row.

| Variable | What it is in the code |
|---|---|
| `status`, `scheduleId`, `reason`, `notices` | rows of `executions` and the notifications about each; `errorMessage` is reduced to who wrote it |
| `schedule`, `queueJobId`, `clock` | rows of `schedules`; `clock` says where now is relative to `runAt` |
| `job` | the BullMQ job whose id is the execution's |
| `scheduler`, `occurrence`, `fired` | a recurrence's job scheduler, the job it keeps ahead, how often it came due |
| `run` | the job the consumer (concurrency 1) is processing and where `runExecution` is |
| `browser` | the session named after that execution: creating, open, closed by somebody else, or open but no longer listed by the manager |
| `boot` | the two reconciliations of `main()` in progress |
| `req` | where each request handler is: a program counter per `await` |
| `acted`, `overran`, `stopped`, `overwritten`, `disowned`, `crashes` | history: steps performed, steps begun after a cancellation, schedules whose DELETE was answered, cancellations written over, what the queue holds for schedules that were refused, deaths so far |

### Actions

* `ExecutionApi`: `RunCheck/RunCreate/RunEnqueue/RunEnqueueFailed` are
  `POST /workflows/:id/executions`; `CancelRead` .. `CancelSchedule` are
  `POST /executions/:id/cancel`; `ScheduleCreate` .. `ScheduleRowFailed` are
  `POST /workflows/:id/schedules`; `DeleteRead` .. `DeleteRows` are
  `DELETE /schedules/:id`. A request that is refused changes nothing and is
  the guard of the action it would have taken. Enqueuing can fail, and then
  nothing was enqueued; so can what `POST schedules` writes or asks after it
  (`LinkFails`), and then the job is there and the handler closes schedule and
  row as if it were not.
  `ApiCrash` ends every handler in progress.
* `ExecutionQueue`: what `queue.ts` asks BullMQ for, and what BullMQ does by
  itself: promote a delayed job, place the next occurrence, fail a stalled job
  (`maxStalledCount: 0`). BullMQ is external; its actions follow from how
  `queue.ts` and `queue-consumer.ts` configure it.
* `ExecutionRunner`: `TakeJob`/`TakeOccurrence`, `StartOccurrence` and its row,
  then `runExecution` from its read of the row (`Load`) to its `finally`
  (`CloseSession`), with `finish` split at its await (`FinishRead`,
  `FinishWrite`).
* `WorkerStartup`: death and restart of the worker, and both reconciliations
  row by row, interleaved with the consumer that is already running.

### Abstractions

Steps are counted, not described; a step may fail by itself, having acted
or not, or because the browser was closed. Logs, screenshots, outputs, error
texts and `currentUrl` are left out. The preflight's several reasons to refuse
are one choice. PostgreSQL fails only at the link of a schedule to its job,
the one write whose failure a handler catches. A workflow or row deleted while its
job is queued is left out. A graceful shutdown that waits for the run is a crash with nothing
running. `Init` is a stack that is up, its startup reconciliation over, with no rows.

### Runs

The check of a run is the cfg of the same name.

| Run | Instance | What it shows |
|---|---|---|
| `lifecycle_crash` | 2 executions, a one-shot and a weekly schedule, 2 requests of any kind, 2 steps, 2 occurrences, 1 crash; executions and requests symmetric | types, the inductive invariant, `SiteEffects` implemented, no step twice, no started row lost, no pile-up, stopped schedules and their runs stay stopped |
| `lifecycle_steady` | 2 executions, a one-shot schedule, 3 requests, 2 steps, no crash; symmetric | queued rows and schedules are backed, silent failures reported, the right reason rescued, cancellation prompt, transitions as in the table |
| `lifecycle_ends` | 1 execution, a one-shot schedule, 2 requests, 1 crash, fair | what started ends; without a crash what was queued ends and schedules settle |
| `claim_cancel_sticks` | the smallest instance that shows it | see 10 |

Why these bounds are enough to be interesting: two requests reach every pair of
racing handlers (two cancellations, cancellation against DELETE, run against
schedule), three reach a schedule, its cancellation and a manual run at once.
Two steps distinguish "before the loop", "between steps" and "after the last".
One crash covers a death at every point with a restart after it, and the
stalled job of the first life next to the jobs of the second. Two occurrences
are needed for pile-up. `lifecycle_ends` keeps one execution row so that the liveness graph stays
small: its properties are about one row and what moves it. Deadlock checking is off
because a system nobody asks anything of is idle, and requests are bounded.

Every bound is a constant: `Executions`, `OneShots`, `Recurrings`, `Requests`,
`Steps`, `MaxOccurrences`, `MaxCrashes`, `MaxFaults`. `MaxFaults` counts deaths and
disowned schedules together and is 1: a run follows a death or a refused
schedule whose job is there, wherever either falls, and not both in one history, which
would not finish in minutes. The theorems hold for every `MaxFaults`.

`StoppedSchedulesStayStopped` and `StoppedRunsDoNothing` are about a schedule whose
DELETE found a `queueJobId` (`DeleteRows`). A DELETE that crosses the POST reads the
row before the link is written; it has nothing to remove, and the job enqueued
meanwhile stays. `FollowsTransitions`, `NoSilentFailure`, `CancelStopsPromptly` and
`OwnFailureRescued` leave out the rows of disowned schedules, which the handler and the
run write side by side: section 10 says what becomes of them.

### Fairness

Weak fairness, only where something in the code or its platform drives the
step: a handler that has begun goes on (Node's event loop); the consumer takes
jobs and the run goes on; the reconciliation goes on; the container runtime
restarts a dead worker; BullMQ promotes due jobs and fails stalled ones; time
passes. Users owe nothing, nothing obliges a crash, and occurrences need not
come due. `QueuedRunsEnd` and `SchedulesSettle` assume that no process dies:
section 10 says what a death leaves behind.

## 4. The browser sessions of a worker

`SessionState` declares the state, `BrowserSession` has `start()` and `close()`
of one session, `SessionManager` has `create()`, composes them and states the
properties. Each action is the code between two awaits.

| Variable | What it is in the code |
|---|---|
| `listed`, `taken`, `lock` | `SessionManager.sessions`, `SlotAllocator.taken`, `ProfileLocks.held` |
| `slot`, `keeps` | the locals `slot` and `ownsProfile` of `create()` that its callbacks close over |
| `stage` | the await at which `create()` or `start()` is; "launching" spans the ports and the browser |
| `procs`, `browser` | `processes` and `context`, as far as they are alive; x11vnc and websockify are one |
| `closing`, `doomed` | the await at which `close()` is, and its copy of the process list |
| `interrupted` | history: sessions closed while they were starting |

`CreateKeeping`, `CreateThrowaway` and `CreateBorrowing` are the ways through
`create()` up to its first await; a refused request changes nothing and is their
guard. `StageFails` is the catch of `start()` followed by that of `create()`:
either `start()` does the closing itself, or somebody else is at it, the call is
a no-op, and slot and lock are given back at once. `CloseRequested` is anybody
who calls `close()`: the user (who sees starting sessions in `GET /sessions`),
a run that ends or is cancelled, the reaper. Any stage may fail, a browser may
die at any time, and it comes up on whatever server has the display.

Not in it: what is copied when a profile is borrowed, idle times (the reaper may
come at any time), ports (they go with the display), `closeAll()`, and the
throwaway directory, of which only the await remains.

The run `sessions` has three sessions, two of which want the same profile, on
two slots with a limit of two: enough for a borrower, a third that takes a slot
given back, and a full worker. `MaxInterruptions` bounds the sessions closed
while starting to one, which is enough for every property that such a session
disturbs. `MaxPerUser` is 0, its default; the proofs cover every value.
`SlotsExclusive` and `ProfilesExclusive` carry the condition that no session was
interrupted, and `NothingOutlives` that the session itself was not, because
the code does not keep them otherwise: see `SlotsNeverShared` in section 10.

Fairness: every await of `create()`, `start()` and `close()` ends, and the timer of a
ready session fires. Most have a timeout (15 s per port or socket, 3 s per process,
Playwright's own for the launch and the first page). The calls into an open
browser that have none (`frame.evaluate`, `cookies`, `storageState`) are assumed to return
or throw, as they do when the browser goes: a browser that hangs and answers
neither is not covered. Nobody has to close anything: `SessionsEnd` rests on the timer.

## 5. The recorder

The worker keeps a list of recorded actions; every page of the browser has an
injected script with a copy of what is being recorded and armed. *Armed* means
that the next click is swallowed and becomes the closing action, or a read.
`RecorderState` declares the state, `RecorderPage` is the script
(`recorder/browser-script.ts`), `RecorderSession` the recording half of
`BrowserSession`, `RecorderControl` the routes of the control server and the API,
and `Recorder` composes them.

| Variable | What it is in the code |
|---|---|
| `recording`, `armedFinal`, `armedRead`, `actions` | the fields of `BrowserSession` |
| `pages`, `active`, `lastTab` | `pages` in order of appearance, `activePageId`, `nextTabIndex` |
| `passes` | per `applyConfigToAllPages()` in progress, the index it has reached in the list of pages |
| `doc` | the script's own copy of the configuration, per page |
| `asked`, `fresh` | whether the document has asked for its configuration, and whether the worker will bring it one |
| `toPage`, `fromPage` | evaluations on their way to a page, binding calls on their way to the worker, each in order |
| `skipped`, `requests`, `visits` | history: pages a pass went past; requests and documents so far |

`Click`, `Input` and `Bootstrap` are the script's listeners. `HandleEmitted` and
`AnswerConfig` are the two bindings; `PushReported` is the whole of
`pushAction()`, the disarming and the stop of the recording included.
`StartPass` and `DeliverConfig` are a pass at its first page and at each later one: the
list of pages may be spliced in between, which is what `Advance` is about.
`Navigated`, `TrackPage`, `Download` and `Close` are the listeners on Playwright's page.
`SetRecording` .. `ClearRecording` are what the user asks for, each with the pass
it ends in.

Abstractions: a page is one document and its frames share its state; of an
action only its kind and whether it closes are kept, and every kind that no
code here tells apart is `"other"`; verifying a locator and reading elements
for the user, which change no state kept here, are left out.

The run `recording` has the first page and one tab (`MaxTabs` 1), two passes that
may overlap, three requests that change the configuration (`MaxAsked` 3: arm,
disarm, arm again), two actions (`MaxActions` 2: one that closes and one that
follows it), one call under way per page (`MaxWire` 1) and one navigation or
tab (`MaxVisits` 1). The two passes are interchangeable and declared symmetric.
It checks `FinalClosesRecording` and `SettledPagesAgree`. Safety only: nothing
obliges a user or a page to act, so deadlock checking is off.

## 6. Performing a step

`StepPages` is the browser a run acts in and what the site does to it meanwhile,
`StepPointer` is `deliverPointerAction()` call by call, `StepExecution` is
`executeStep()`, `StepSettle` is the wait after the last step
(`settle.ts` over `quiet.ts`), and `Stepping` composes them.

| Variable | What it is in the code |
|---|---|
| `pages`, `lastTab`, `active`, `addr` | open pages, their numbers and addresses |
| `meant` | which tab of the recording a page really is; the runner cannot read it |
| `box`, `covered`, `labelled` | the control a pointer action is about: ticked, under something, with a label |
| `workflow`, `at`, `pc`, `result` | the steps, the current one, the await it is at, how the run stands |
| `found`, `right` | history: the page last handed to a step; whether the box has been as asked since the last click |
| `now`, `still` | ticks since the wait began, and since the page last changed |
| `wanted`, `installs`, `observer`, `early` | `quietMs`, observers on their way to the document, the one installed, and whether it was installed before the wait asked for it |

Between two calls of the runner the site may open a tab (one of the recorded
ones, in any order, or a stray), close one, move a page to another origin, change
the control or what covers it, and during the wait change or leave the page.
A step that throws fails the run; the code retries none.

`pageFor()` accepts a tab by its number and then by the origin it was recorded
on or, when the step or the tab has none that can be read (`about:blank`, a tab
still loading: `Unreadable`), by counting the open tabs. `WrongTabNeverSilent`
says what that is worth: while all recorded tabs and a stray one are open, the
count gives the stray away, so a step is handed a tab other than its own only if that
tab shows the very origin the step was recorded on.

The run `stepping` has three workflows (`MCStepping`): a box to tick, a popup
without an address, two tabs of which one has an address. `MaxTabs` is 3: two recorded
tabs and a stray. `MaxMoves` is 2: a change of the control and its undoing, or
one between a check and the click and one after it. `Timeout` is 4 ticks and
`Quiet` 2, so that a page can keep still, change and keep still again, and can
also run out of time. The control's changes and the page's navigations are
counted; the changes of a page during the wait are not, so `RunEnds` holds of a
page that never rests.

Fairness: weak, of the runner and of the clock. Actions, navigations and waits have a
timeout; `keyboard.press`, `count()` and `evaluate` have none and are assumed to return.
The site owes nothing.

## 7. The conversions

Pure functions of `packages/workflow-schema`, each stated next to a reference
definition that does not look like it:

| Module | Code | Property and reference |
|---|---|---|
| `SelectorChoice` | `chooseSelector` (`selector.ts`), the counting of `browser-script.ts`, `resolveUnique` (`locator.ts`) | `FindsItsElement`: the element named when recording is the element found, on the same page and on one that has grown |
| `RecordedSteps` | `actionsToSteps` (`recorded-action.ts`) | `RecordedAsDone`: performing the actions and running the steps do the same to the fields and addresses, as seen by each click; a recording with a field left empty, or with `Twins`, is set apart (section 10) |
| `Recurrences` | `recurrence.ts` | `CronMeansWhatWasPicked`: the cron line fires at the times the form's sentence means, and is read back as what was picked |
| `PageNumbers` | `parseLocaleNumber` (`read-result.ts`) | `AmbiguousNeverGuessed`: a number is taken only if every country that writes the text means that number |

`Schema` gives each function one input, once per behaviour; the element's page
then grows by one element. The run `schema` enumerates pages of up to two
elements out of the 31 of `MCSchema` and every place for a third; recordings of up
to four actions out of those of `MCSchema`, with closing actions only at the end,
which is all the recorder makes; every recurrence of the form with the hours
and minutes 0, 3 and a large one; and texts of up to eleven characters of
digits and the two marks (digits are not told apart: `1.234,567.8` has eleven). Four
actions are what it takes to have a refill, an intervening navigation or click,
a dropped action and the value again. There is nothing to be fair to: the
properties speak of the state after the function returned.

## 8. Editing a workflow

`EditorState` is the state and `mergeRecording`, `EditorServer` the recording that
grows and the API's answers, `EditorPage` the workflow page
(`apps/web/app/(app)/workflows/[id]/page.tsx`, `StepEditor.tsx`), and `Editing`
composes them.

| Variable | What it is in the code |
|---|---|
| `steps`, `dirty`, `lastPulled`, `removed`, `wasRecording`, `held`, `timer` | the page's state and refs; `timer` is the session `pollRef` asks of |
| `op` | per request of a button under way, which button, of which session, and at which await |
| `poll` | ticks of the page's timer in progress |
| `session`, `rec`, `recording`, `stamp` | the worker's session and its recording, which changes `stamp` times |
| `stored`, `cred` | the workflow's rows and the user's credentials |
| `own`, `applied`, `crossed`, `blurred` | history: what the user did last to each step; the newest answer applied; whether an older one was applied after it; whether the list changed while `schedule()` was saving it |
| `overlapped` | history: two requests that replace the list (a save, a run or schedule that saves first, Clear) were under way together |

Each request is two or more actions: sent, served, answered, with any refusal
or loss as `OpFails`. Requests overlap: the buttons are disabled while one is `busy`,
but whichever request ends first clears that, and renaming by Enter, typing by Enter
and cancelling a schedule set it without being disabled by it (`Send`).
`persistSteps` is the order "secrets first, then steps".
A step is its id, who wrote it and the form its JSON text has: rows give back
fields a recorded step leaves out, and `mergeRecording` compares texts.

Abstractions: React's state is set at once; every step is enabled; what the
user writes into a step is one version, `Mine`; leaving the page is left out; one
session lives at a time, since the page lets go of one before it holds another.
The run `editing` has two steps made by hand or by the recorder, one rewriting
by the recorder, three changes of the recording, two sessions one after the other,
four buttons (open, record, save and one more, or any others), two of them under way at
once, one edit, and one tick of the timer, which Stop's own pull overlaps. The two
requests are symmetric. It has no secrets; `claim_scheduled_secret` adds one. Both
properties leave out a page on which two requests that replace the list have
overlapped, and section 10 says why; other requests may overlap a save. Safety only.

## 9. Watching a run

`LogStream` is `GET /executions/:id/logs/stream`: a timer that polls the rows from a
cursor and sends what is new. `Watching` adds the page of the run: a snapshot when it
opens, the stream's events, one more reading at `end`. Each await of a tick
and each event is an action, and ticks of a slow database overlap. A query that
fails ends the stream without an `end` (`TickFails`), the connection may drop with
what was on its way (`ConnectionDrops`), and either reading of the page may fail; `broken`
remembers the first two. Nothing of it is tried again.

The run `watching` has three lines that share milliseconds or not, a query that
returns three rows (200 in the code), two overlapping ticks and at most one
event under way when a tick starts. Fewer lines than a query returns share a
millisecond; section 10 says what else would happen. Fairness: every timer
fires, every query and request is answered or fails, and the page handles what
reaches it. The run itself need not end: `PageLearnsEnd` begins when it has, and
excepts a stream that broke and a last reading that failed.

## 10. Where code and comments disagree

Three runs end in a violation, each the shortest history against a sentence of
the code:

* `claim_cancel_sticks` (`run-execution.ts:484`): the runner writes `starting` and
  `running` without looking, so a cancellation answered since it read the row
  is undone.
* `claim_number_misread` (`read-result.ts:66`): of several marks the last is
  always the decimal point, so `1.234.567`, the comment's own example of a grouped
  number, is stored as 1234.567.
* `claim_scheduled_secret` (`page.tsx:509-513`, `:636`): `schedule()` saves the steps
  by itself and not the secrets they name, which the API then creates empty.

Other properties are stated and not run; put into `claim_cancel_sticks.cfg` (with
a schedule, crash, fault or fairness where they need one) or into the cfg named
below, TLC finds the history.

* `MCExecutionLifecycle`: `FiringScheduleIsCancellable`, `OneManualRunAtATime`,
  `QueuedNeverForever` and `SchedulesSettleAfterCrash` (a death between row and job leaves
  a row nothing will move), `ReasonSurvivesLateCancel`, `MissedMeansJobGone`,
  `OrphansHaveNoRun`, `SkipsOnlyForRuns`, `SchedulesFollowTransitions`, and `RefusedNeverRuns`
  (`schedules.ts:119` answers that the job could not be enqueued).
* `MCSessions` (in `sessions.cfg`): `SlotsNeverShared` (`allocator.ts:1-4`): a session closed while it
  starts fails, the catch of `create()` releases its slot without waiting for
  `close()`, a third session takes it, and `close()` releases it once more.
  `LimitKept` (`README.md:349`): the borrow of a profile is awaited between the
  limit check and the count. `NothingLeftBehind`: later stages of `start()` add
  processes that nobody closes.
* `MCSchema` (in `schema.cfg`): `FinalValueKept` (`recorded-action.ts:415`: "Consecutive
  fills on the same element collapse to the final value"): a fill with the empty text is no step
  (`recorded-action.ts:347`, `step.ts:117-124`), so of `abc` and then nothing the run
  types `abc`.
* `Editing` (in `editing.cfg`): `CleanMeansSavedThoughSavesOverlap`: the rows one save
  reads are answered after another has replaced them, take the place of the list
  and clear the mark. `HeldIsAskedAfter` (`page.tsx:263-266`): Record, Stop, Arm or Clear
  put back the session they were pressed for, with no timer to find out that it has gone.

Seen while modelling, and kept in the models as the code has it:

* *Lifecycle.* A failed write of `queueJobId` answers 503 for a job that runs
  (`schedules.ts:103`), and so does a failed `nextRunOf` for a recurrence (`:68`): schedule
  and row say `failed`, the run takes the row from there to `starting`, which the state
  table does not have, and a weekly schedule keeps firing. The success path
  notifies and settles without looking at what `finish()` wrote
  (`run-execution.ts:405`).
* *Recorder.* A wait asked for by hand is accepted after a closing action, though
  "nothing may follow it". A download is put on the last click whichever page it
  was on. Stopping a recording leaves the arms. A new document is unarmed until
  it has asked for its configuration. A page that closes makes a pass skip the
  page that takes its place in the list (`skipped`). Clicks of two pages can both
  be swallowed by one arm; the second is lost. Outside the model: `verifyAction()`
  (`session.ts:597`) tries an action's selector, awaits the answer and writes it at
  the index the action had; if the list was cleared and begun anew meanwhile, the
  verdict shown next to the step now at that index is another's.
* *Steps.* The catch of `deliverPointerAction()` clicks the label and returns
  without reading the state again, against the comment at `pointer-action.ts:81-83`
  (the exception of `StateAsAsked`). A navigation during the first two waits after
  the last step installs an observer that waits for no silence at all, and the later
  install returns early, against `quiet.ts:14-16` (the exception of `QuietWhenSettled`).
  Between the check of a tab's origin and the action nothing is checked again.
  Two tabs without an address that open in another order, or a stray one that
  opens before the recorded ones, are not told apart.
* *Conversions.* Collapsing repeated fills ignores the frame and dropping a
  repeated address ignores the tab (`recorded-action.ts`); a field that was emptied
  and not filled again at once keeps its old value in the run (`LeftEmpty`); two password fields of
  one name on one site share a credential: `Twins`. A candidate of a grouped input
  is declared unique without counting (`browser-script.ts:360`) and labels and texts
  are counted over some elements only: `Miscounted`. A text that ends in a mark
  is read as a number, and so is one that groups thousands with both marks,
  `1.234,567.8` (`MixedThousands`), although the comment of `parseLocaleNumber`
  wants what is left of the decimal point grouped like thousands; the shortest is
  eleven characters long, and it came out of a proof that would not go through.
* *Editing.* A save gives every step other JSON text (`outputName: null`), so
  `mergeRecording` takes each for a step the user touched and drops later
  refinements, against `recording.ts:6-9`. A closing action recorded before any poll saw the
  recording running is never pulled, and the answer of a Clear or Save can undo
  the last pull. A new session's steps are put after a closing step. Answers
  of polls that cross overwrite an edit (`crossed`). Two saves, or a save and a Clear, that
  overlap (`overlapped`) answer in any order: rows already replaced come back into the
  list, marked saved, and the next save writes them over the newer ones. An answer read before Clear
  brings the steps back, and a late 404 forgets a newer session.
  `schedule()` clears the mark over changes made meanwhile (`blurred`). A delete
  during a save is undone.
* *Watching.* Lines written between the last query for rows and the query for the
  status, or after a cancellation's status, never reach the page. A snapshot
  that arrives after streamed lines takes them off the page, and `seen` keeps them
  off; one that arrives after `end` leaves the page saying "running".
  200 lines in one millisecond would stall the cursor. A query that fails once, or a
  connection that drops, ends the live log for good, and the page goes on saying
  "running"; so does a last reading that fails after the status was dropped.

## 11. Proofs

Eight modules, checked by TLAPS to the last leaf. Each theorem holds for every
value of the constants that its module's assumptions allow: any finite or
infinite sets of executions, schedules, requests, sessions, slots, pages or
polls, and any natural bounds (`ConstantsAssumption`, `SessionAssumption`,
`RecorderAssumption`, `SteppingAssumption` with `WorkflowAssumption`,
`SchemaAssumption`, `EditorAssumption`, `StreamAssumption`).

| Theorem | Says | Argument |
|---|---|---|
| `RunsOnceProofs!TypeCorrect` | `TypeOK` | inductive as it stands, one lemma per component |
| `RunsOnceProofs!RunsOnceInvariant` | `RunsOnceInv` | `TypeOK` with five parts: rows that are absent have no job (`AbsentRowsUntouched`); a job that waits belongs to an execution that has not acted (`WaitingJobsUnacted`); a handler about to enqueue is the only one (`EnqueuedOnce`) and one about to remove a job has seen that there is one (`RemovesSeenJobs`); the run is where its step count says (`RunInStep`) |
| `RunsOnceProofs!StepsOnce` | no step twice, in order | from `RunsOnceInv`: only the run in process acts, and a job once taken is never waiting again |
| `RunsOnceProofs!ImplementsSiteEffects` | the lifecycle refines `SiteEffects` | each action maps to beginning, acting, ending, or a stutter |
| `RowProofs!StartedRowsAreAccountedFor` | `StartedRowsAccountedFor` | with `OutcomeIsOver`: a run whose outcome is written, or will not be, has left its row over, so the runner may let go of it; whoever is not the runner begins rows as queued or ends them (`RowsBeginOrEnd`); the startup's list has every row in progress and loses one only with its row closed |
| `RowProofs!OccurrencesNeverPileUp` | `OneOccurrenceInFlight` | an occurrence's row has no job of its own (`OccurrencesHaveNoJob`), so only the run that made it can be on it, and it is made when nothing is in flight (`OccurrencesAlone`) |
| `RowProofs!StoppedSchedulesStay`, `StoppedRunsAreDone` | `StoppedSchedulesStayStopped`, `StoppedRunsDoNothing` | `StopInv`: a schedule is made by one handler, once (`CreatedOnce`), a one-shot one has one row, the one it points at (`OneRowEach`), a row being run has an active job (`TakenIsActive`), which the queue refuses to remove; so when DELETE answers, the schedule is `Halted`: no job to take, no scheduler, no occurrence, no run (`DeletesHalt`), and nothing undoes that (`StoppedIsHalted`) |
| `RowProofs!QueuedRowsAreBacked` | `QueuedRowsBacked` until something dies | `Calm`: a row has one handler that made it and it began blank (`OpenedByOne`, `BlankAtFirst`), a job not taken belongs to a queued or ended row (`JobsNotBegun`), the run is where its row says (`RunIsWhereRowSays`), a cancellation removes the job of its own row (`RemovesOwn`); so a queued row without a job has a handler or the run at work on it (`Backed`) |
| `RowProofs!RowsFollowTable` | `FollowsTransitions` when `MaxCrashes = 0`, rows of disowned schedules apart | from `Calm`: each write of a status starts from the one the table has; what is disowned has a job and stays so (`LinksJobs`), and no handler but the one that failed to link it is at its row; a crash voids it: the next worker fails the row of a missed schedule whose job still waits, and then takes that job (section 10) |
| `RowProofs!QueuedSchedulesHaveRuns` | `QueuedScheduleHasRun` until something dies | `Claims`: a cancellation and a run know the schedule of their row (`CancelsKnow`, `RunKnows`), so the one-shot schedule a run has claimed is the one it settles, or the one whoever cancelled its row is about to close (`ScheduleClaimed`) |
| `RowProofs!FailuresAreAnnounced` | `NoSilentFailure` until something dies | whoever wrote `failed` stands at the notification with `full` in hand (`FailureAnnounced`), and the job is not over before the run is (`RunsJobOpen`) |
| `RowProofs!CancellationsStopPromptly` | `CancelStopsPromptly` until something dies | once a step was let through after a cancellation the run is at its next check, or out of the loop (`OverrunOnce`) |
| `RowProofs!RescuedReasonsAreOwn` | `OwnFailureRescued` until something dies | a cancellation that may close the browser has left the row over, unless a status was written over it since (`CancelsTold`); so a browser closed under a run means its row was cancelled (`BrowserClosed`), a failure decided to be the run's own is one (`CauseKnown`), and a rescued reason stays what it was when written (`RescuedLast`) |
| `SessionProofs!SessionInvariant` and five more | exclusive slots and profiles, nothing outlives, no slot or lock lost | `ClosedAfterStart`, `CloseKnowsAll` (the copy `close()` took has every process) and `HoldersApart`; the condition that nobody closed a starting session is used only where the code needs it |
| `RecorderProofs!ClosingActionCloses` | `FinalClosesRecording` | with the calls on the wire typed: only `PushReported` adds a closing action and it stops the recording in the same step; what arrives later is dropped, and `SetRecording` refuses |
| `RecorderProofs!RecorderTyped`, `PagesFollowTheWorker` | `RecorderTypeOK`, `SettledPagesAgree` | `Informed`: of every open page, in the order of the list, either it is still to be told (it has not asked, is asking, was skipped, or a pass is at an earlier index), or the last configuration on its way is the current one, or its copy follows the worker's but for an arm whose click is on the wire. Each change of the configuration starts a pass at index 1 (`PassStarts`), a pass that moves on has told the page it stood at (`Advanced`), and when the list closes up under a pass the page that slips past it is the one `skipped` records (`ClosedTold`) |
| `StepProofs!StraysAreNotTaken` | `WrongTabNeverSilent` | counting: the open tabs that are recorded ones are as many as the identities among them; a stray next to all of them makes the count exceed what the workflow refers to (`StraysAreCounted`) |
| `StepProofs!ChecksAreChecked` | `StateAsAsked` | at each await of `deliverPointerAction()`, what `right` must be for the step to pass from there |
| `StepProofs!QuietIsQuiet` | `QuietWhenSettled` | unless it was `early`, the observer asks for `Quiet` ticks, and its timer and `still` add up to at least that many |
| `SchemaProofs!CronIsRight` | `CronMeansWhatWasPicked` | by kind of recurrence: each field of the line fires when the sentence says (`CronFires`), and reading a line back undoes writing it |
| `SchemaProofs!NumbersAreNotGuessed` | `AmbiguousNeverGuessed` | texts of any length: where the marks are decides which branch reads them, and each branch's reading is the only one a country has (the last mark by `Greatest`) |
| `SchemaProofs!ElementsAreFound` | `FindsItsElement` | pages of any length: a candidate counted once is matched once (`UniqueIsFound`), positions among elements of one tag are told apart (`Nth` grows), and an element put in moves the others without changing them (`ElementKept`) |
| `SchemaProofs!RecordingsAreKept` | `RecordedAsDone` | recordings of any length: `ConvInv`, after each turn of the loop, says that every step is lined up with the last action it was made of (`Aligned`), that no two reads have one name (a free one is found by counting, `FreeName`), that the secrets are those of password fields, and that the steps so far do what the actions so far did; a turn skips, repeats, refills or adds (`Turn`), and doing one thing twice in a row is doing it once (`DoneAgain`) |
| `EditorProofs!CleanListIsSaved` | `CleanMeansSaved` | as long as no two requests that replace the list have overlapped (`OverlapStays`), at most one is under way (`OneReplacer`), and what it carries is what the rows will be (`Sound`), a schedule's payload is the list shown unless `blurred`, and every change marks the list |
| `EditorProofs!WhatTheUserDidStays` | `EditsSurvive` | under the same condition, `EditsInv`: which steps an answer on its way can still bring (`Stages`, `AnswersTyped`); the recorder never has again a step it dropped (`GoneStay`); the last pull has every step the recorder and the list share, as it was before the user wrote on it (`KnownPulled`, `Lasting`), so `mergeRecording` sees the difference and keeps the user's (`MergedSteps`, `MineStay`) |
| `WatchProofs!NoLineTwice` | `LinesShownOnce` | what is shown is known (`ShownInv`), and only an unknown line is added; the snapshot replaces the list |
| `WatchProofs!NothingIsSkipped` | `StreamHasNoGap` | `GapInv`: times of lines do not decrease (`InOrder`); what is at or before the cursor was sent or is among the rows a tick has in hand (`Covered`), and a tick has read from a cursor no later than one of the past (`ReadsOn`) |

An invariant is proved as: it holds at first, every action keeps it, it implies
the property; each of these is a lemma of its own.

Only model-checked: liveness (`StartedRunsEnd`, `QueuedRunsEnd`, `SchedulesSettle`,
`SessionsEnd`, `RunEnds`, `PageLearnsEnd`), which is out of this prover's reach.
Where a proof needs an induction over numbers it is by the least or greatest
member of a set of naturals (`SchemaProofs!Least`, `Greatest`,
`EditorProofs!Least`), from the library's theorem that they are well-founded. For
that the loop of `actionsToSteps` is a recursive function of the number of turns,
`Conversion`, as is what a list of deeds does to the pages, `Worlds`: that such
functions exist is itself proved (`ConversionTurns`, `PlayTurns`), then that each
turn keeps `ConvInv`. What the provers are not told, that a literal is a string,
is not assumed: the types in these proofs name the literals they need (`Words`).

## 12. Not modelled

* *Retention*: deletes by age what nothing is at work on; one file-system walk.
* *Authentication*: the token version is one counter compared on each request.
* *Shared helpers* (templates, formulas, masking, encryption, URL checks): pure text.
* *Assembly, deployment, the test site, end-to-end tests*: no state of their own.
* *The VNC proxy* of `routes/sessions.ts`: bytes between two sockets.
* *The credentials page*, and credentials deleted while a workflow naming them is saved.
* *`closeAll()`*: every session's `close()`, which is modelled.
* *Verification of a recorded locator and `readElement()`*: they read the page and
  change only what is displayed next to an action.
* *Two writers of one workflow*: each page is alone with its rows.
* *PostgreSQL failing* under the lifecycle, except where a handler catches it (the link of a
  schedule to its job). An enqueue that throws is taken not to have enqueued;
  a Redis answer lost after the job was added is not modelled.

## 13. Checking it

In `tla/`, with TLC (`tla2tools.jar` and the community modules) and TLAPS 1.4.5:

```
tlc -workers 2 -config lifecycle_crash.cfg  MCExecutionLifecycle.tla
tlc -workers 2 -config lifecycle_steady.cfg MCExecutionLifecycle.tla
tlc -workers 2 -config lifecycle_ends.cfg   MCExecutionLifecycle.tla
tlc -workers 2 -config sessions.cfg         MCSessions.tla
tlc -workers 2 -config recording.cfg        MCRecorder.tla
tlc -workers 2 -config stepping.cfg         MCStepping.tla
tlc -workers 2 -config schema.cfg           MCSchema.tla
tlc -workers 2 -config editing.cfg          Editing.tla
tlc -workers 2 -config watching.cfg         Watching.tla
```

finish without an error;

```
tlc -workers 2 -config claim_cancel_sticks.cfg    MCExecutionLifecycle.tla
tlc -workers 2 -config claim_number_misread.cfg   MCSchema.tla
tlc -workers 2 -config claim_scheduled_secret.cfg Editing.tla
```

end in a counterexample each (section 10); and `tlapm <X>Proofs.tla` proves each of
the proof modules.

`PROJECT.json` lists components, runs, theorems, hazards and, for every
definition that models code, the lines it models; its `mutants` are one
plausible bug per property, each of which makes the run fail.
