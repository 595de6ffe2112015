# A TLA+ model of Mabobot

Mabobot is an assistant that lives in WeChat: a desktop WeChat client driven
through UI automation, a FastAPI service that turns messages into events, asks
Codex models for replies and sends them back, and a launcher that keeps both
processes alive. This directory models the parts of it whose correctness hangs
on *order*: who may act on what row, what may happen twice, what survives a
crash: the scheduled tasks, the shared work of a chat, the assistant's reply
tasks, the event bus and the launcher's supervisor.

* [The system](#the-system), [the plan](#the-plan)
* [Scheduled tasks](#scheduled-tasks)
* [An outbox](#an-outbox-sendonce), [shared work](#shared-work),
  [assistant tasks](#assistant-tasks), [event bus](#the-event-bus),
  [launcher](#the-launchers-supervisor)
* [What is proved](#what-is-proved), [not modelled](#not-modelled)

## The system

| component | source | state it keeps | talks to |
|---|---|---|---|
| launcher supervisor | `mabobot_launcher/supervisor.py` | process per service, generation, crash times, restore gate | starts and watches `wx_bot.py` and `start.py` |
| WeChat process | `mabowx/`, `wx_bot.py` | windows, listeners, callback queues, per-chat operation order | HTTP to and from the service |
| event bus | `app/core/event_bus.py` | a queue and a worker thread per chat, idle times, prefetch hooks | plugins, assistant |
| plugins | `app/core/plugin_manager.py`, `app/plugins/` | loaded modules, per-plugin state | event bus |
| assistant | `app/assistant/handler.py`, `task_supervisor.py` | tasks in progress, their outbox, dispatch slots | agent runtime, delivery |
| agent runtime | `app/services/agent_runtime.py`, `codex_app_server.py`, `codex_job_manager.py` | Codex process pools, threads, turns, jobs | Codex processes |
| work coordination | `app/services/work_coordination.py` | shared work with owner and lease, delivery slots | assistant, plugins |
| scheduled tasks | `app/services/scheduled_tasks.py`, `scheduled_task_runtime.py`, `schedule_*.py` | SQLite tables of tasks, runs, attempts, deliveries, monitors, switches and a lease; a timer and a worker thread per process | agent runtime (one turn per run), WeChat (deliveries), users (Web and chat tools) |
| storage and operations | `history/`, `backup_service.py`, `runtime_operations.py` | files and databases | launcher (restore gate) |

### What is hard, component by component

* **Scheduled tasks.** Every method of the store is one `BEGIN IMMEDIATE`
  transaction, but a run is a *sequence* of them spread over minutes, with
  model calls and WeChat sends between. Between any two steps a user may edit,
  stop or switch off, the lease may lapse to another process, or the process
  may die. Correct: one message and one model turn per run at most; what ended
  stays ended; nothing is made up for after a closing; skipped fires stay
  skipped; every run ends.
* **Work coordination.** A lease of 30 minutes and a worker that does not know
  it lost it; uncertain sends that must never be repeated; an identity that
  changes while work runs. Correct: one owner per identity; at most one send
  per slot.
* **Event bus.** Workers that come and go per chat. Correct: events of a chat
  are processed one at a time, in order, and none is lost between a worker
  that gives up and a publisher.
* **Supervisor.** Crash watcher, delayed restart and user commands race.
  Correct: a service the user stopped stays stopped; at most one process per
  service.
* **Operation sequencer, in-flight deduplicator, process pool, task
  supervisor.** Bounded waits, shared results, slots, outboxes.
  Correct: mutual exclusion per scope, no slot leaked, nobody waits for ever.

## The plan

| | module | state |
|---|---|---|
| 1 | `ScheduleStore`, `ScheduledTasks` | modelled, checked, all fourteen safety and action properties proved (`GoalStaysDone` under a condition) |
| 2 | `SendOnce`, the abstract outbox | proved; implemented by `WorkCoordination` and `AssistantTasks` (both proved) |
| 3 | `WorkCoordination` | modelled, checked, all four properties proved |
| 4 | `AssistantTasks` | modelled, checked, all eight safety and action properties proved |
| 5 | `LauncherSupervisor` | modelled, checked, all six properties proved |
| 6 | `EventBus` | modelled, checked, all five safety properties proved |
| 7 | the Codex process pool (`agent_runtime`), the operation sequencer, the in-flight deduplicator | not yet |
| 8 | `schedule_rules` as pure functions, which would discharge `FireAssumption` on bounded calendars | not yet |

Theorem to try next: `GoalStaysDone` with `clear_next_change` as long as it is
not used on the task of a reached goal.

How the parts meet: `AssistantTasks` contains the steps of the Codex client
that change a task; `WorkCoordination` contains the end of the runtime
operation around an execution; `EventBus` contains the assistant's follow-up
timer as a second publisher; `LauncherSupervisor` contains the gate of a
planned restore. A chat's bus worker is the thread that waits in `dispatch()`,
so `WorkerFreed` of `AssistantTasks` is what the fairness of `EventBus` ("a
handler comes to its end") rests on.

## Scheduled tasks

### Modules

* **`ScheduleStore`** is the database: one operator per transaction of
  `ScheduledTaskService`, named after its method (`Lease`, `AdmitDue`, `Claim`,
  `Finish`, `FailOrRetry`, `SaveReport`/`SaveRoleBlock`/`SaveObservation` for
  the three shapes of `save_result`, `Reserve` and `Settle` for the two
  transactions of `deliver`, `Create`, `Update`, `Pause`, …). A run is keyed by
  its task and its occurrence, the UNIQUE pair of the table, so `INSERT OR
  IGNORE` is a union of functions (`OrIgnore`). Beside some operators stands a
  variant marked *A fault*: the operator with one plausible bug, used to check
  that the properties notice it. Nothing in the model refers to them.
* **`ScheduledTasks`** is everything that moves: per process a timer thread
  (`Tick…`, the stages of `tick()`), a worker thread (`Work…`, the stages of
  `execute()` and `resume_due()`), a Web request that redelivers, the two
  stages of a delivery on either thread, users, crashes, and the clock. A
  `job` record is the stack of a thread: its `pc`, the run or task in its
  hands, and the local variables that outlive a step (`inference_returned`,
  the monitor revision it read, `resume_checked_at`, …).
* **`MCScheduledTasks`** gives the constants of the small instances: a
  schedule is the set of its fire times.
* **`ScheduledTasksProofs`** proves the types and what each transaction does to
  the tables, **`ScheduledSafetyProofs`** the theorems about runs, turns and
  deliveries, **`ScheduledPlansProofs`** those about plans, queues and monitors.

### State and code

| variable | code |
|---|---|
| `task` | `scheduled_tasks`, with `pause` and `next_exception` of the definition |
| `run` | `scheduled_runs`, with the number of `scheduled_attempts` and the last `retry_at`; `result` says which kind of result is stored, `news` which events it announces |
| `dlv` | `scheduled_deliveries` of runs, by run and part |
| `mon` | `scheduled_monitor_state` (revision), `_events` (seen), `scheduled_goal_events` (ledger) |
| `enabled`, `chatOn`, `lease` | `scheduled_settings`, `scheduled_chat_permissions`, `scheduled_lease` |
| `proc`, `tick`, `job` | threads of each process |
| `wechat`, `turns` | what the outside world has seen, in order |
| `since` | history: from when on a task's fires may be caught up |

Each transaction is atomic because the code opens it with `BEGIN IMMEDIATE`;
reads that no write separates are one step. A first look that a later
transaction repeats in full (create, update, resume and run-now look, let a
model review, and look again) is not a step of its own, because it leaves no
trace; the automatic resume, whose failed first look writes `resume_blocked`,
is split into `WorkReview`, `WorkCommit` and `WorkBlock`.

### What is abstract

Time counts small units; leases, grace, retry delays and notice windows are
constants. `_base_fire` is any function that returns a fire strictly after
(`Forward`) and not after (`Backward`) an instant: `FireAssumption`. The answer
of the model is one of `Outcomes`; an observation is a set of events. Refusals
of `authorize` for reasons other than the switches (listener off, creator
blocked) may happen at any time when `Faults` has `"refusal"`. A message has
one or two parts. Users act as the administrator; a creator may do no more.

### The runs

All use `MCScheduledTasks`, check deadlock, and finish without an error except
where said.

| run | asks | bounds |
|---|---|---|
| `runs` | `SentOnce`, `TurnOnce`, `RunningOwned`, `EndedStays`, `TypeOK`: at most once, under crashes, lapsed leases, refusals, lost acknowledgements and redeliveries | 2 processes, 1 task firing once, clock 0..2 |
| `plans` | `NoOverlap`, `ClosedQueueEmpty`, `PlanMatchesStatus`, `SkipHonoured`, `CancelIsSilent`, `NoBackfill`: any sequence of three versions of a task by update, pause with and without an end, resume by hand and by the clock, deletion and single adjustments, with stops and both switches at any time, around failing and retried runs | 1 process, a lease of two, 1 or 2 fires, clock 0..2, 3 versions; no run by hand |
| `monitors` | `NewsOnce`, `ObservationsCounted`, `GoalStaysDone`: a goal of two events and a silent baseline, observed by a leader and by its predecessor that was told to stop, while the goal's task is updated, resumed and run by hand, before and after the goal is reached | 2 processes, a lease of two, 2 monitors of which the chat's limit admits one at a time, 2 events, clock 0..2, 3 versions |
| `service` | `Settles`: every run, notice and timed pause comes to rest | 2 processes, 2 tasks of which one is a monitor, 1 fire each, timed pauses, a lease of two, clock 0..4 |
| `stop_race` | `RunningHasWorker` — violated, see below | 1 process, stops |
| `goal_reopened` | `GoalStaysDone` — violated, see below | 1 process, single adjustments |

Why the bounds are enough for the cases to happen. `Advance` waits until a
living leader has renewed its lease, so where the lease must not lapse it is
two units: the leader renews and time goes on around whatever its worker is
doing. In `plans` the first fire is claimed, fails and waits at 1, and the fire
at 2 meets it running or waiting; the retry is claimed again at 2 and fails a
second time; a timed resume is judged at one instant and committed at the next.
A rule of one fire has nothing planned after it, a rule of two has. Three
versions are the task, an edit, and an edit that meets a run of the version
before. In `monitors` a goal is closed with a later fire planned and a version
to spare, so an update, a resume and a run by hand are tried on it; both
monitors have two runs that may bring news. The third and last attempt of a run
fails in `service`, whose clock is long enough for it. In `runs` the lease may
lapse (`"lapse"`): with one unit it does so, moves and comes back while a run is
at any of its steps.

A run by hand competes with fires and retries in `monitors`; `plans` leaves
it out to stay small, and the theorem `RunsDoNotOverlap` covers the three
together. The bounds are `MaxTime` (clock), `MaxVersion` (edits), `Handled` (the tasks
users reach for), `CreateBy` and `ManualBy` (until when tasks are created and
run by hand), and `Replaceable` (a crash leaves somebody to take over).

### Fairness

`Settles` is checked under `FairSpec`: weak fairness of each process's start,
of its timer thread and of its worker, and of the clock. The timer loop runs
every five seconds until `stop_event` is set and swallows every exception
(`_loop`), the worker is one pool thread that never waits for another, the
launcher starts the service again after a crash, and time passes. Nothing is
assumed of users or of WeChat: a send has an outcome because the call returns.
`Advance` will not pass the expiry of a living leader's lease unless `Faults`
has `"lapse"`: a tick every 5 s against a lease of 45 s.

### What the runs found

* **A run without a worker** (`stop_race`). `execute` reads `cancelled()` after
  an exception (`scheduled_task_runtime.py:230`), then calls `fail_or_retry`,
  which refuses a run with `cancel_requested` (`scheduled_tasks.py:735`) and
  returns `"unchanged"`; nobody calls `finish`. A stop, deletion or switch in
  between leaves the row `running` as long as the process keeps its lease, and
  every later fire of the task is `skipped`.
* **A reached goal opened again** (`goal_reopened`). `clear_next_change` is
  allowed on a completed task and recomputes status and next fire without
  looking at the goal (`scheduled_tasks.py:526`–`554`).

## An outbox: `SendOnce`

Three places of this program send what must not be sent twice, each with a
table of its own. `SendOnce` states what they promise of an effect: it is
reserved before the transport is called, the transport is called at most once,
and what is not confirmed stays uncertain. Two modules contain it as `Outbox ==
INSTANCE SendOnce WITH ...` and check `OutboxSpec`:

| | an effect is | `outcome` | `sends` |
|---|---|---|---|
| `WorkCoordination` | a slot of a row of `shared_work` | the status in `shared_deliveries` | calls of `send()` |
| `AssistantTasks` | a part of a task's reply | the status in `assistant_outbox`; `failed` (the transport said no) is uncertain, `blocked` is refused | calls of the transport |

The third, the deliveries of scheduled runs, allows more (a row may be
refused and offered again): it has `SentOnce` instead.

## Shared work

`WorkCoordination` is `work_coordination.py`: one action per transaction of
`WorkCoordinator`, and the call of the transport between the two transactions
of `deliver()`.

| variable | code |
|---|---|
| `work` | `shared_work`: identity, status, `live` (`lease_until` is ahead) and `fresh` (`reusable_until` is ahead); numbered by `created` |
| `delivery` | `shared_deliveries`, by row and slot |
| `job` | the thread that runs, replies or redelivers: the row and slot in its hands |
| `calls`, `moved` | history: sends per slot, rows `reclassify()` changed |

`claim()` is `Admit`: `Found` is the row it sees, with a lapsed lease already
marked interrupted, `Acquires` the decision, `Target` the row it writes. It
takes part in `Claim` (an execution through `run()`) and `Observe` (a reply
through `tracked_send()`, which sends whoever owns the row). `Status` is
`update()`, which writes whatever the row holds by then. `Lapse` may happen at
any time because nothing stops a machine from sleeping for half an hour;
`Crash` forgets the threads and keeps the tables. `deliver()` also accepts a
slot with status `failed`, which nothing writes.

`work_claims`: two workers, two identities and a reply, one slot, two rows.
Two rows are what an identity needs to be claimed anew beside its older row,
or to meet the other identity in a reclassification; the third claim of a
scenario reuses a row. The run may stop, at the bound of rows. `owner_stolen`
has the same bounds.

* `OneRunningRow` — claims alone never make two running rows of an identity.
* `UncertainHolds` — an unresolved send of the newest row keeps the work from
  being started again, by force or not.
* `OutboxSpec` — a slot is sent at most once.
* **An owner can be robbed** (`owner_stolen`). "An active owner or an uncertain
  send must never be stolen by force" (`work_coordination.py:174`), but
  `update()` asks for nobody's lease. A plugin's operation writes its end
  twice: `run()` writes failed, and when the operation around it ends,
  `RuntimeOperationService._finish` writes failed again
  (`runtime_operations.py:329`). Between the two, q claims the failed row and
  runs; the second write takes the row from q, and the next claim executes it
  beside q. A lapsed lease opens the same way for the end of `run()` itself.
  `OneRunningRow` survives,
  since both execute the *same* row.

## Assistant tasks

`AssistantTasks` is `task_supervisor.py` with what `codex_app_server.py` does
to a task.

| variable | code |
|---|---|
| `door` | how far the chat's worker is in `dispatch()` before there is a task: `asking` for a slot, `slot` (it has one), `checked` (`_closed` was read again) |
| `task` | `TaskScope` and the row of `assistant_tasks`. `at` says where its thread is: `made` (created, not submitted), `queued`, `open` (in the handler), `loaded` (has its state), `turn`, `saved`, `ended`, `leaving` (`done` is set, the slot not given back), then `done`, or `lost` in a restart |
| `outbox`, `head`, `snapshot` | `assistant_outbox`, `assistant_chat_heads`, `codex_thread_state` (its thread, and which task wrote it) |
| `waiting`, `free` | the task a worker waits for in `dispatch()`, `_slots` |
| `closed`, `pool` | the steps of `close()`: `_closed` set, the active tasks cancelled, the pool shut |
| `calls`, `late`, `by`, `leaked` | history: sends, sends begun after a cancellation, writers, slots lost |

`dispatch()` is a sequence of steps, each of which another thread may come
between: `Arrive`, `Acquire` (waits for a slot), `Recheck` (closed meanwhile:
the slot goes back), then under the lock `Create`, `Refuse` (a duplicate: the
slot goes back) or `CreateFails` (the database raises in `is_head()`, `lookup()`
or `create()`: nobody gives the slot back), then `Submit` or `SubmitFails` (the
pool was shut: the slot goes back, the row stays queued until a restart
interrupts it), then `Detach` or `Return`. The `finally` of `_run()` is `Exit`
and `Release`.

`send` follows one part through `delivery()`: reserved, admitted (the check
under the task's lock), entered (the check of `source_message_policy` under
the lock of the transport), called. Time is three flags: `over`, `gen`,
`lapsed`; `DELIVERY_GRACE_SECONDS` starts with the result, so `lapsed` comes
after `gen`. `Lapse` waits for a part it can matter to.

* `assistant_replies` (one task, two parts, one slot, a close, one restart):
  `OutboxSpec`; `WindowFrozen`, a refusal is for good once delivery began,
  whatever is generated after it; `CompletedDelivered`; `OneLateSend`;
  `SlotsKept`, over every way out of `dispatch()`; and `WorkerFreed`. Two parts
  are one sent and one to come. One task is the bound of tasks, not of
  messages: the next message, the same one again, arrives while the detached
  task has the only slot, waits for it, is turned away by a close, refused as a
  duplicate or lost to the database.
* `assistant_threads` (three tasks of one chat, two messages, two slots, no
  parts, no close): `DistinctThreads`, no two running turns share a Codex
  thread; `SnapshotNeverOlder`. Three tasks are a detached one, its branch, and
  one that continues either; a second chat shares nothing but the slots and the
  single detached task.

**A slot can be lost.** An error of the database between the slot and the row
(`task_supervisor.py:347`–`361`) leaves `dispatch()` without giving the slot
back, until the next restart; eight of them and no chat is answered. No
document promises otherwise, so it is a step of the model and `leaked` counts
it: `SlotsKept` says that it is the only way a slot is lost, and `WorkerFreed`
asks that a slot be left. Waiting behind another detached task
(`:383`) needs two tasks: `assistant_threads` has it, but `WorkerFreed` is
checked with one.

Fairness: the steps of a task's own thread (the pool runs it, calls of Codex
and WeChat have timeouts, a handler returns), its deadline, the steps of a
worker in `dispatch()` (a free slot goes to a worker that waits for one), and
its return. Cancellation, detachment, reconnection, close and new messages need
not come. Both runs stop when every task is done.

## The event bus

`EventBus` is the part of `event_bus.py` that decides which thread handles an
event and when.

| variable | code |
|---|---|
| `box` | `_user_queues`, with `_user_workers` and `_user_last_activity`; queues are numbered as they are created |
| `queue`, `unfinished` | a `queue.Queue` and its count |
| `worker` | the thread created with a queue; it looks the chat's queue up in every round |
| `quiet` | chats whose last activity is more than the idle timeout ago |
| `publisher` | the processor task and a follow-up timer inside `publish()`: between the look at the queue, its creation, and the put |
| `bus`, `joined` | `stop()` |
| `events`, `order`, `mark`, `reaped`, `spoiled` | history |

`reaped` and `spoiled` name what the code does not exclude: the reaper of
`_create_user_queue` takes a worker that is busy for more than the idle timeout
for an idle one, and an exception between `get()` and `task_done()` leaves a
count that never reaches zero. The properties are stated for every other
history: events of a chat are handled one at a time (`SerialQueue`) and
completed in the order they were put (`InOrder`), over queues that come and
go; a queue has its worker (`BoxServed`), so a publisher that meets a worker
that gives up loses at most its own event; after `stop()` nothing received
before it is left (`StopDrains`); and `stop()` comes back (`StopReturns`).

`bus`: two chats, two received events, one follow-up, at most one worker
before the reaper runs, queues of one. So a queue is full, the limit is
passed, and a third queue is made for a chat that had one. Fairness: publishers
and workers go on, a handler ends, and `stop()` takes its steps once it was
called; that it is called, and that a chat grows quiet, is not assumed. The
run ends when all is handled and the bus is stopped.

## The launcher's supervisor

`LauncherSupervisor` is `supervisor.py`: one action per critical section.

| variable | code |
|---|---|
| `runtime` | `ServiceRuntime`; the process is named by the generation that started it, `crashes` are those of the last five minutes |
| `alive`, `watched` | processes, and the threads that wait for them |
| `timers` | restarts after a crash: before and after their check |
| `stopping`, `probed` | what `stop_service()` and the health loop hold while they work without the lock |
| `pending`, `blocked`, `down` | `pending_restore.json`, `_restore_blocked`, `_shutting_down` |
| `swept`, `survived`, `unwanted`, `overtaken` | history |

A process may end whenever it likes (`Exit`), so a kill that works and a crash
are the same step, and `StopEnd` may come while it still runs: `kill()` is not
waited for. `survived` names such processes.

`launcher` (three generations of the bot, two of the console, one crash
followed by a restart): one process per service (`OneProcess`), the status is
not that of an earlier process (`ShownIsReal`), a stop holds against timers
(`StopHolds`, except the stop that falls between a restart's check and its
start, which is `overtaken`), a shutdown holds against everything
(`ShutdownFinal`), a restore runs alone (`RestoreAlone`). Three generations are
a start, a stop and a start, or a crash with its restart and a stop; the
console's two let it run beside a restore of the bot. The generations are the
bound, so the run stops there.

## What is proved

For every number of tasks, chats, processes and events, and every schedule that
satisfies `FireAssumption`:

| theorem | says | how |
|---|---|---|
| `TypeCorrect` | `Spec => []TypeOK` | `TypeOK` is inductive: it says of every thread not only the kind of its locals but that the run and the deliveries in its hands exist, which each step needs. `ScheduledTasksProofs` shows each transaction keeps the tables typed and never removes a row (`Grows`); one lemma per action does the rest. |
| `RunningOwnedAlways` | `Spec => []RunningOwned` | inductive with `TypeOK`: a row enters `running` only in `Claim`, in the lease holder's name, and `Lease` closes all of them when the holder changes. |
| `EndedStaysAlways` | `Spec => EndedStays` | every action changes run rows in one of five ways (`RowSteps`): *tamely* (`Tame`), by a claim, a bind, a retry, a failure; none touches the status of an ended row or a stored result. |
| `CancelIsSilentAlways` | `Spec => []CancelIsSilent` | strengthened to `FailedIsClosed`: a row with a failure as result is no longer queued or running, so no stop can still reach it; and the fence of `fail_or_retry` keeps a stopped row from failing. |
| `TurnOnceAlways` | `Spec => []TurnOnce` | `TurnInv` adds what the run table knows of a turn: every turn's run has a thread recorded, no run with a thread is queued, a thread inside `execute` is the worker of the process its run was handed to (so two of them are never on one run), and between `bind` and `turn/start` the run has a thread and no turn. Each step but claim, bind and failure moves every thread on, out, or not at all (`Moves`, `Runs`). |
| `SentOnceAlways` | `Spec => []SentOnce` | `SentInv`: between the two transactions of `deliver` a delivery is held by one thread and its row is `sending` or `unknown`; what WeChat was given is `sending`, `sent` or `unknown`, never offered again; a holder that has not sent yet, or is about to settle `failed`, holds something WeChat does not have. `Settle` writes whatever the row says, so it is the last part that keeps a late holder from reopening a sent row. |

`SentOnce` and `TurnOnce` are not inductive alone: nothing in the list of messages
says that a row still `pending` was not sent, nor in the list of turns that a
queued run had none.

The theorems about plans, queues and monitors (`ScheduledPlansProofs`) rest on
one lemma, `StepEffects`: whatever the step, a task's row is left alone, edited
with a higher version, admitted or resumed (`TaskEffect`); a new run is queued
or skipped by the timer or by a user, at a fire that was due (`Inserted`); an
old one goes back to the queue only through the look of `fail_or_retry` at
versions and switches (`MayReturn`).

| theorem | says | how |
|---|---|---|
| `ClosedQueuesAreEmpty` | `Spec => []ClosedQueueEmpty` | inductive: a switch drops its queue as it closes, and a retry looks at the switches. |
| `RunsDoNotOverlap` | `Spec => []NoOverlap` | inductive: whoever inserts a queued run has looked for a live one in the same transaction. |
| `PlansMatchStatuses` | `Spec => []PlanMatchesStatus` | inductive over `TaskEffect`. |
| `SkippedFiresDoNotHappen` | `Spec => []SkipHonoured` | `SkipInv`: runs of the timer are of the past (`PastFires`); a planned fire is never the skipped one, and one that is still ahead is the first that stands (`Planned`), which is what `Forward` computes again, whenever it is asked before that fire; a resume was judged before now. |
| `NewsIsAnnouncedOnce` | `Spec => []NewsOnce` | with `NewsSeen`: what a run announced is in the ledger its monitor subtracts. |
| `ObservationsAreCounted` | `Spec => []ObservationsCounted` | `CountInv`: a monitor's revision is the number of its saved observations, a goal's ledger the union of their news, and stays finite and within the target; only the run of a monitor comes to save an observation. |
| `GoalsStayDone` | `Spec => []GoalStaysDone`, unless users have `"next"` | `GoalInv`: versions of runs and resumes are not ahead of their task's, and whatever could still put the task of a reached goal to work is of a version from before it was closed. |
| `NothingIsMadeUpFor` | `Spec => NoBackfill` | `SinceInv`: what is planned is not from before the reopening; with `JudgedBefore` for the resume by the clock (`ReopenedAhead`). |

`GoalsStayDone` has a condition because the statement is false without it:
`"next"` is `clear_next_change`, which opens a reached goal again, as the run
`goal_reopened` shows.

What counts as the reopening in `NoBackfill` is the history `since`: the instant
of a user's resume or of the switch that opened the task, and, for a resume by
the clock, the end of the pause or `LateWindow` (5 s) before the resume was
judged, whichever is later (`Reopening`). The latter may be before the instant
a switch was opened: when a timed pause ends while the service is off, the
resume after the reopening still takes a fire up to five seconds old
(`scheduled_tasks.py:582`, `latest >= pause.until and resume_now - latest <=
5`). `docs/SCHEDULED_TASKS.md:151` allows that boundary; `:72`, that nothing
missed while closed is made up for, does not mention it.

`FireAssumption` asks of the forward function of a rule that it is strictly
after its argument and that it gives the same fire to every instant before that
fire. That is how `_base_fire` searches (the first slot after an instant). It
is not asked that a rule without a next fire stays without one: `_wall_slots`
looks nine days ahead, so a weekly rule whose slot falls into the hour a clock
change leaves out has none now and one later. Of the backward function only
that it gives a time not after its argument.

Shared work, for every number of workers, identities, slots and rows
(`WorkCoordinationProofs`, assuming `CoordinationAssumption`):

| theorem | says | how |
|---|---|---|
| `WorkTyped` | `Spec => []TypeOK` | inductive: a worker in a step holds a used row. |
| `ClaimsKeepOneRow` | `Spec => []OneRunningRow` | `Shape`: the used rows are `1..n`, each with an identity, so a new row is the newest; `OlderIdle`: no row but the newest of its identity runs, unless reclassified. `update()` writes `running` to no row, and a claim writes it to the newest only. |
| `UncertainSendHolds` | `Spec => UncertainHolds` | the same invariant; each step keeps the table's identities, is a claim, or a reclassification (`StepKind`). |
| `DeliveriesImplementOutbox` | `Spec => OutboxSpec` | `SendsKnown`: what the worker between reservation and result knows of its slot (`sending`, not sent or sent once), that nobody else holds it, and that a slot nobody reserved was not sent. Each step maps to one of `SendOnce` or to a stutter. |
| `DeliveriesSendOnce` | `Spec => []Outbox!AtMostOnce` | from the refinement and `SendsOnce`, the theorem of `SendOnce`. |

The assistant's tasks, for every number of tasks, parts, slots, chats, messages
and restarts (`AssistantTasksProofs`, assuming `SupervisorAssumption`). The
inductive invariant, `IInv`, says of each task how its stage, its parts and
their sends fit (`Known`), and of the tasks together (`Family`) that they are
numbered as created (`Created`), that a worker still on its way into
`dispatch()` waits for no task (`Waits`), that a task not left to itself is the one its
chat's worker waits for and the newest of the chat (`Held`), that at most one
is detached, and it has a turn (`Lone`), that the snapshot is not ahead of the
head (`Heads`), that threads come from tasks of the same chat (`Owned`), and
that a detached task's threads are within the reach of no other (`Apart`): not
through the snapshot once another task is the head, and until then the next
task will branch. `DistinctThreads` says nothing of the snapshot and of tasks
that have not loaded yet, so it is not inductive without `Apart`.

| theorem | says | how |
|---|---|---|
| `TypesKept`, `CompletedIsDelivered` | `Spec => []TypeOK`, `[]CompletedDelivered` | `Known`. |
| `LateSendIsOne` | `Spec => []OneLateSend` | `Known`: after a late send no part is past the first check. |
| `SlotsAreKept` | `Spec => []SlotsKept` | inductive: each step takes a slot, gives one back, or hands it on (`SlotsStep`): from the semaphore to a worker, from the worker to its task (`Create`), back from either, or, in `CreateFails` alone, into `leaked`; a restart starts over. |
| `TurnsNeverShareThreads` | `Spec => []DistinctThreads` | two running turns are either detached and not, which `Apart` covers, or both held by one chat's worker. |
| `SnapshotsNeverOlder` | `Spec => SnapshotNeverOlder` | `Heads`: only the head writes, and heads grow. |
| `WindowsFrozen` | `Spec => WindowFrozen` | what shuts the window (cancellation, deadline, lapse) is never taken back once delivery began. |
| `TasksImplementOutbox` | `Spec => OutboxSpec` | each step maps to one of `SendOnce` or a stutter; a failed part is told as uncertain, a blocked one as refused, and a restart puts all parts being sent in doubt in one step. |
| `TasksSendOnce` | `Spec => []Outbox!AtMostOnce` | from the refinement and `SendsOnce`. |

The event bus, for any chats, timers, limits and queue size (`EventBusProofs`,
assuming `BusAssumption`). Each action's effect is stated once, value by value,
and the parts of the invariant follow from the effects:

* `Structure`: what points to something points to what is of the same chat
  (`Fits`); there is a number for every queue that a publisher is about to
  create (`Room`: an event creates at most one, and the events are bounded);
  a chat's queue is its latest (`Latest`); a chat that no other thread cleaned
  up has at most one live worker, and its queue is that worker's (`Alone`).
* `Flow`: what is published and not put is held by its publisher (`Held`); an
  event is put once, and the queues of a chat, one after the other, are in the
  order of the puts (`Puts`, `Sorted`); an event in work is in one worker's
  hands and in no queue (`InHand`); what is in a queue that is served waits,
  and what waits is in such a queue (`Waits`, `Located`); what was begun has
  nothing before it that waits or is in work (`Passed`).
* `Pending`: the count `join()` waits for covers what is in the queue and in
  hand. `Drained`: what each phase of `stop()` has excluded.

| theorem | says | how |
|---|---|---|
| `Types` | `Spec => []TypeOK` | `Fits`. |
| `QueuesAreServed` | `Spec => []BoxServed` | in `Structure`: a worker that goes takes its queue along in the same step, and a cleanup by another thread only takes queues away. |
| `OneAtATime` | `Spec => []SerialQueue` | `Alone`. |
| `CompletedInOrder` | `Spec => []InOrder` | `Passed`. `InOrder` itself speaks of handled events only; to keep it, an event in work must have nothing before it either, and that needs `Sorted` over the queues a chat had one after the other. |
| `StopHasDrained` | `Spec => []StopDrains` | `Drained` with `Pending`: a queue leaves `joined` at count zero, so nothing in it waits or is in hand. |

The launcher, for any services, generations and crash limit
(`LauncherSupervisorProofs`, assuming `LauncherAssumption`): `LauncherTyped`,
`ServicesHaveOneProcess`, `StatusIsReal`, `ShutdownIsFinal`, `StopsHold` and
`RestoresAlone`, all from one inductive invariant. `OneProcess` is what a start
needs to know that the process it replaces is dead; `SweptDown` that only a
shutdown sweeps; `TimersInv` that a timer's generation is not ahead of its
service's (`Earlier`), that one past its check is known to the history when
the user stops (`Held`), and that one whose generation is current belongs to a
service that nobody stopped (`Valid`).

The proofs of `ScheduledTasks` assume `StoreAssumption`, `FireAssumption` and
`TaskAssumption`. Every assumption is evaluated by the runs on their instances.

Only model-checked: `Settles`, `WorkerFreed` and `StopReturns`, since liveness
under fairness is beyond the prover, as is ENABLED. The three violations are
counterexamples of the runs. What the recursive calendar functions of
`schedule_rules` compute is neither checked nor proved: the prover has no
induction over data, so they are an assumption.

## Not modelled

* **Scheduled tasks**: chat notices of definitions (`kind='notice'`) and the
  links from messages to tasks; version history; validation of definitions; a
  change of a monitor's key or goal batch, which starts a fresh scope; the
  limit of 100 tasks per tick; attachments on disk; the tools by which chats
  manage tasks (they call the same methods). Three rules have no property
  because the documents promise both outcomes or none: a switch closed during
  an automatic resume (`docs/SCHEDULED_TASKS.md:149` and `:151`), one closed
  exactly at the boundary of a timed pause, and the observation of a monitor
  paused while it runs.
* **Shared work**: artifacts and their snapshots, the preparation of a
  redelivery on disk, requests, titles, queries; a send without a row.
* **Assistant tasks**: errors of the database in a running task, the status
  and steer commands and the control lane, what the context of a branch says.
* **Event bus**: what an event does once a worker handles it (listeners,
  plugins, permissions), events that are too old to be enqueued, system events
  (handled in the publisher's thread), a second `start()`.
* **Launcher**: output, log buffer, health details, the process tree of a
  service (one process stands for it), a missing script.
* **Not begun, and worth it**: the pool of Codex processes (slots, draining
  restart, circuit breaker), the operation sequencer (a wait with real time),
  the in-flight deduplicator (`invalidate()` during an operation).
* **Left aside**: the registry of Codex jobs (`finish()` takes a job out under
  the lock, so its first end wins; the rest is processes and files), the Codex
  protocol translation, plugins, chat log and history, the WeChat desktop automation, the Web pages and the vendored
  library: input, output and formatting around the parts above, or behaviour
  that is not in this code.

The hazards of all of them are in `PROJECT.json`, each with its line.
