# TLA+ specifications of the Orbital orchestrator

These modules specify and check the core of `orbital-sdlc`: how tasks of a
sprint are handed to worker processes, how those workers report, die and are
reaped, how a sprint is started, paused, resumed and completed, and the
services around that core in which calls, events, messages and failures
interleave. Paths below are relative to `src/packages/orchestrator/src/` unless
they begin with `domain/` (`src/packages/domain/src/`), `db/` or `daemon/`
(`src/packages/orchestrator-daemon/src/`).

## The system

One Node.js process (the orchestrator) runs most of what follows on one event
loop over one Postgres database. Nothing runs in parallel inside it, but every
`await` lets other handlers in, and no table row is locked between a read and
the write that follows it unless said so.

| Component | State it keeps | Operations | What makes it hard | Right when |
| --- | --- | --- | --- | --- |
| Scheduler `orchestration/scheduler.ts` | sprints, deficits; rows of `tasks`, `agent_workers` | `tick`, `addSprint`, `removeSprint` | a tick awaits a dozen times between counting slots and registering a worker; ticks are started without being awaited | workers stay within the limit, a task is handed out once per opening, every sprint gets its share |
| Spawn `orchestration/spawn.ts` | process, `agent_workers` row | `spawn` | the process runs before its row exists | as above |
| Worker tools `orchestration/registry-bootstrap.ts` | `tasks.state`, capability, row | `task.complete`, `task.fail` | unlocked read, then update by id | tasks move along the transition table |
| Heartbeat tool `mcp/tools/worker_heartbeat.ts` | `agent_workers.status` | `worker.heartbeat` | overwrites a drain mark | a dead worker's slot comes back |
| Monitor `orchestration/monitor.ts` | child handles, rows | `tick`, grace timer | late answers, failed appends in the middle of a poll | what is reaped is dead |
| Pause controller `orchestration/pause.ts`, sprint service `domain/backlog/sprint-service.ts` | `sprints.status`, `worker_pool_state.paused`, the scheduler's sprints | `create`, `createCommitment`, `start`, `pause`, `resume`, `complete` | lock released before the work; status, flag, rows and scheduler written apart | status, flag and scheduler agree between calls; a pause drains and ends |
| Task DAG `orchestration/dag.ts` | none | `buildDAG`, `computeReadySet` | duplicates, informational rows, cycles | accepts exactly the acyclic graphs, in an order that respects them |
| Defect loop `hooks/post-defect-reported.ts` | `tasks.state`, `iteration_count` | `onDefectReported` | handler not awaited; read, then write | a task is re-opened once per defect |
| Worktrees `orchestration/worktree.ts`, `worktree-cleanup.ts` | `worktrees` rows, git's directories and branches | create, cleanup, conflict | row and disk change in turn; cleanup is not awaited | an active row has its tree, a released one leaves nothing |
| Event store `domain/events/store.ts`, `notify.ts` | event log, the client's cursor | append, subscribe, periodic poll | ids are taken before the commit; a dropped connection loses notifications | every subscriber sees every event |
| Hub outbox `hub-client/outbox.ts`, hub client `hub-client/client.ts`, `appendWithOutboxFallback` | `local_outbox` rows, `ownedSeqs`, connection state | `enqueue`, `drain`, `dismiss`, `rpc` | appends run beside the drain; lost answers; uncounted attempts; what a restart forgets | confirmed means mirrored, nothing waiting is forgotten |
| WebSocket hub `ws/hub.ts`, `ws/server.ts`, client `hub-client/ws-client.ts` | subscriptions, cursors | connect, subscribe, backfill, fan-out | backfill not awaited; the subscribe may come before anyone listens | a reconnected client misses nothing |
| Model drivers `drivers/fallback.ts` | a circuit per provider | `send`, `embed` | answers of concurrent calls meet a circuit in any state | a circuit agrees with its count; a healthy provider is used again |
| Daemon `daemon/sqs-consumer.ts`, `main.ts` | deliveries in flight | `tick`, `handleMessage`, shutdown | redelivery beside a handler that still runs; shutdown without drain | nothing is deleted unhandled, every message ends |
| UAT `domain/uat/service.ts`, `defects.ts` | sessions, results, defects | start, mark, submit, accept | half of a submit runs without its lock; results are inserted apart | what is accepted was tested, what failed is reported once |
| Ceremony scheduler `domain/comms/ceremony-scheduler.ts` | `ceremony_trigger_firings` | `onEvent` | redelivered events, several processes, steps that fail one by one | one ceremony for a rule and an event |
| Retry, timeout `orchestration/retry.ts`, `timeout.ts` | attempts, budgets | `recordFailure`, `enforceTimeouts` | no caller in the code | |
| Capability authority `capabilities/` | capabilities, revocations, keys | issue, verify, revoke, rotate | revocation checked at connect only | |
| Cost governance `domain/cost/` | costs, budgets | canSpawn, killAll | thresholds against running cost | |
| Comms `domain/comms/`, backlog | channels, inboxes, stories | many | status machines over rows | |
| GitHub, SCM, middleware | deliveries, idempotency keys | many | redelivery | |
| API, UI, infrastructure, personas, CLI | none of their own | requests, rendering | not concurrent state | |

The components meet in the tables: a **tick** reads the tasks and the alive
rows, issues a **capability** for a new session, creates the task's
**worktree**, marks the task, starts the process and inserts its row; the
**worker** connects through the MCP gateway, beats, and calls `task.complete`
or `task.fail`, which move the task, revoke the capability and retire the row;
the **monitor** marks, signals and reaps workers that stop beating; the
**sprint service** puts sprints into the scheduler and takes them out;
**pause** marks, signals, waits, revokes and sets the flag the tick reads
first; the **defect hook** puts a task that was delivered back to `ready`. The
**event feed** carries the events of all of them to subscribers: the worktree
cleanup, the ceremony scheduler, the hub. Apart from these, the **hub outbox**
mirrors local events to a remote hub over a connection that comes and goes, and
the hub **pushes** its own to the installs.

## Modules

| Module | Models | State and actions |
| --- | --- | --- |
| `TaskLifecycle` | `orchestration/types.ts`, `computeReadySet` | operators only: states, transition table, ready set |
| `Dispatch` | scheduler, spawn, worker tools, heartbeat, monitor, defect hook | see below |
| `Pause` | sprint service and pause controller, EXTENDS `Dispatch` | see below |
| `TaskDag` | `buildDAG` | Kahn's algorithm, one action per iteration |
| `HubMirror` | what mirroring promises | abstract: stage of each event, events at the hub |
| `HubOutbox` | persistent outbox, its caller and the client's connection state | implements `HubMirror` |
| `SprintShare` | `pickSprint`, `addSprint`, `removeSprint` | deficits as whole numbers of 1/`Scale` slots |
| `SprintService` | the calls that move a sprint, EXTENDS `SprintShare` | status, scheduler and calls in flight |
| `EventFeed` | append, subscribe, `NotifyClient` | log, client, notifications |
| `Worktree` | create and cleanup, their callers, git | one task's row and disk |
| `HubPush` | hub, route and client of the push connection | one install |
| `ProviderCircuits` | `FallbackDriver`, `CircuitBreaker` | providers and calls |
| `DaemonQueue` | `SqsConsumer`, shutdown, external queue | messages and deliveries |
| `Uat` | acceptance sessions and defects of a story | sessions, results, defects, calls |
| `CeremonyTriggers` | `CeremonyScheduler.onEvent` over `schedule` | firings, ceremonies, runs |
| `MCDispatch`, `MCPause`, `MCHubOutbox`, `MCServices` | instances for TLC | definitions of constants, symmetry |
| `Dispatch_proofs`, `Pause_proofs`, `TaskDag_proofs`, `HubOutbox_proofs`, `Worktree_proofs` | theorems about the module named | `Pause_proofs` builds on the lemmas of `Dispatch_proofs` |
| `Workflow_proofs` | theorems about `SprintShare`, `SprintService`, `CeremonyTriggers`, `Uat` | |
| `Links_proofs` | theorems about `ProviderCircuits`, `DaemonQueue`, `HubPush`, `EventFeed` | |
| `Sums_proofs` | lemmas about sums over a finite set | for `Dispatch_proofs` and `Workflow_proofs` |

The modules from `SprintShare` on share no state with one another, nor with
`TaskDag`: `MCServices` runs them in one specification whose variable `focus`
says which of them a behaviour is about (`SprintShare` and `SprintService` share
the scheduler's variables but are two foci). The behaviours of different foci
never mix.

### Dispatch

Tables are variables: `taskState` and `iteration` (`tasks`), `row`
(`agent_workers.status`, `"absent"` without a row), `cap` (the capability of a
session), `paused`. `proc` is the operating-system process, `tracked` and
`termed` the handle the monitor holds and whether it was signalled, `fresh`
the rows whose heartbeat is recent. Sessions are model values that are used up
one by one, so a session id is never reused, as `uuidv7()` guarantees.

Each handler is cut at its awaits. A tick moves through

    idle → counting → picking → choosing → issuing → marking → spawning
         → registering → announcing → picking …

where `TickBegin` reads the flag, `TickCount` counts the alive rows,
`LoadSprint` loads one sprint's rows, `ChooseTask` reads the busy paths and
takes the first ready task without a conflict, `IssueCapability`,
`MarkInProgress`, `StartProcess`, `RegisterWorker` and `TrackWorker` are
`allocateSlot` with `spawn`. A tool call moves through
`complete|fail → completing|failing → report → retire`; a monitor poll through
`stale → marked → grace`; a run of the defect hook holds the count it read
until `ReopenTask` writes it back plus one. `AbortTick`, `AbortTool`,
`AbortMonitor` and `AbortDefect` are an awaited call that rejects: what was
written stays.

Abstractions: `pickSprint`'s weighted choice is any sprint, and the sprints
tried after it come in any order; declared write paths are sets of regions and
globs that overlap share one; time is absent, so a heartbeat may lapse and a
grace period end at any moment; polls of the monitor do not overlap each other
on one worker; routing and persona lookup are part of the step they precede;
the worktree's creation is part of `IssueCapability` and its failure of
`AbortTick`. The history variable `revived` holds the alive rows a heartbeat
brought back from `terminating` or `terminated`.

### Pause

`SprintService.pause` commits the status (`PauseBegin`), then the controller
reads the rows (`PauseFind`), marks them one by one (`PauseMark`), sends
SIGTERM (`PauseSignal`; `PauseKill` is the SIGKILL after the grace), waits
until nobody is left or the deadline passes (`PauseCollect`), revokes and
terminates one by one (`PauseRevoke`, `PauseTerminate`) and sets the flag
(`PauseFlip`). `ResumeBegin`, `ResumeRead`, `ResumeIssue` and `ResumeFlip` are
`resume`. `AbortCall` ends a call wherever a query of it rejects. Histories:
`late` (rows registered since a drain last read them) and `leaked` (sessions
given a capability since the flag was last written). Sprints are `active` or
`paused`; the other statuses belong to `SprintService`.

### TaskDag

`buildDAG` begins with any subset of the tasks and any subset of the candidate
rows. `CountPredecessors` fills the in-degrees, `Emit` is one iteration of the
loop, `Finish` the comparison of lengths. The queue is a set: the sorts of the
code fix one of the orders allowed.

### HubOutbox

An event handed to `appendWithOutboxFallback` goes through

    new → sending → direct                 (the hub took it)
    new → [sending →] inserting → owning → queued

`Append` reads the connection state, `DirectAnswer` is the answer to the direct
call, `InsertRow` the insert of the row, `OwnRow` what `enqueue` does when the
insert has returned: add the seq to `ownedSeqs` and call `drain()`. A drain
takes its list once (`Continue` is its loop head) and works one row at a time:
`ReadRow`, `DrainAnswer`, then `ConfirmRow`, `RejectRow` or `CountAttempt`, and
`WakeUp` after the back-off. Any database call may reject (`Fault`); the catch
block of `flushRow` counts an attempt, and a rejection inside it ends the drain.
`TimerDrain` is the interval, `Dismiss` the operator, `OtherCall` any other
request through the client (it moves the connection state), `LateArrival` a
request whose answer was lost and which arrives after all, `Restart` the end
of the process: rows stay, `ownedSeqs` and everything in flight do not.

The abstract `HubMirror` knows only the stage of each event (`new`, `pending`,
`abandoned`, `confirmed`) and the events that are at the hub. The refinement
reads the stage off `pc`, `flushed`, `lastError` and `owned` (`Stage`), so that
`ConfirmRow` must be preceded by the arrival and nothing that was given up may
become pending again. Mutations that are enqueued go the same way as events.
No code wires a connection source into the client, so its own is modelled.

### SprintShare and SprintService

A turn (`PickSprint`) goes to the sprint with the highest deficit plus share and
charges it one slot. Deficits are exact fractions, counted in units of
1/`Scale`; the code's are doubles, and where two scores are equal either sprint
may win in the model.

Each call of the sprint service is its transaction (`StartBegin`,
`CompleteBegin`, `Create`, ...: status checked and moved under the sprint's
lock) and then the steps after the commit, which other calls may interleave
with: `StartSchedule`, `StartEmit` or `StartEmitFails` with `StartRevert`,
`CompleteRemove`. `StartLoadFails` is a query, or the check for cycles, that
throws. `Restart` empties the scheduler and keeps the tables. What `pause` and
`resume` do after their transaction is in `Pause`. Histories: `contended`
(sprints whose `start` met another `start` or a `complete`) and `stranded`
(live sprints the code leaves without the scheduler).

### EventFeed

An append takes its id (`AppendBegin`) before its row commits (`Commit`), which
notifies the connection if it is up. The client starts with the first
subscriber (`Subscribe`, `StartQuery`, `StartDispatch`, `Listen`), fetches what
it is notified of (`FetchNotified`) and polls (`PollQuery`, `PollDispatch`);
`StartFails`, `FetchFails`, `PollQueryFails` and `PollFails` are a query or a
handler that throws, the handlers called before it in `reached`. The first two
are caught and logged. In the poll nothing catches them (`notify.ts:85`): the
rejection is unhandled and ends the process (`ProcessEnds`; by Node's default,
in the daemon by `main.ts:157`), and `NewProcess` begins with a new client of which
nobody has subscribed yet; rows and inserts under way are all that remains.
Connection loss (`Drop`, `Relisten`) is external. Simplifications: a poll ends before the next one is
due, and `unsubscribe` and `stop` are left out.

### Worktree

Branches and paths carry the task's id, so one task shows it all. `FindRow`
or `FindNoRow`, `InsertRow`, `AddWorktree`, `Activate` are `create`, with
`AddFails` and `ReleaseUnadded` the compensation; `MarkTask` and
`SpawnInWorktree` are the steps of the allocation after it; `BeginCleanup` to
`ReleaseRow` are one cleanup, of which several may run. `disk` holds what git
and the file system know: directory, registration, branch; `CanAdd`,
`CanRemove` and `CanDeleteBranch` are git's conditions. `RestartTree` is the
process dying. Histories: `suspect` and `upset`, the meetings and failures the
properties name.

### HubPush

One install with one subscription that every event matches. `Open` is the
upgrade, after which the client subscribes at once with the last event it has
seen; `Authenticated` is the moment the hub begins to listen, so that the
subscribe is `HelloHeard` or `HelloUnheard`. `BackfillQuery` and `BackfillSend`
run beside `FanOut`. `Receive` moves the client's cursor to the last event
received. Left out: tenants, patterns and further subscribes. The hub's own
notifications are handled once each.

### ProviderCircuits

A call (`SendBegins`, `SendSucceeds`, `SendFails`, `NextProvider`) holds the
provider it waits for and whether it was healthy when asked; what it reports
(`RecordSuccess`, `RecordFailure`) meets the circuit of the moment. Counts above
`Threshold` are not told apart. The clock is `ProbeTimeComes`.

### DaemonQueue

`Ask` computes the free places, `ReceiveMessages` starts a delivery for each
message of the batch, `HandlerReturns`, `HandlerThrows`, `Delete`,
`DeleteFails` and `ReturnMessage` are `handleMessage`. The queue is external:
`VisibilityTimesOut` at any moment, also while the handler runs; `Redrive` to
the dead letters. `main.ts` passes a handler that never throws; the class is
modelled with handlers that do.

### Uat

The sessions of one story. `InsertSession` and `InsertResults` are
`startSession`; a mark is one transaction (`SetResult`); `Submit` is the locked
transaction of `submit`, and `FindDefect`, `WriteDefect`, `DecideSession` what
runs after it, in any order of the failed criteria. `AcceptBegin`,
`PartialAcceptBegin` and `AcceptEnd` read and update without a lock.
`CallBreaksOff` ends a call at any await. Defects are named by the failure they
were made for; an operator reports a criterion once. Histories: `reports`,
`untested` and `cutShort`. `InsertSession` admits two sessions at once, which
`startSession` does whenever it is not asked to resume.

### CeremonyTriggers

A run of `onEvent` goes rule by rule through `CheckFired`, `MatchRule`,
`ClaimFiring` or `LoseClaim`, `ScheduleCeremony` or `ScheduleFails` and
`RecordCeremony`, which as in the code writes every row of the rule.
`RuleFails` is a query that rejects; `RunEnds` also the process dying. Runs may
belong to several processes. Whether a rule matches is left open.

## What the runs check

| Run | Properties | Shows |
| --- | --- | --- |
| `dispatch_reopen` | `TypeOK`, `WithinMaxWorkers`, `DispatchedOncePerOpening` | one tick at a time never exceeds `maxWorkers`, with every await allowed to fail; a task is handed out once, and once more per re-opening |
| `dispatch_fair` | `WritersDisjoint`, `DeadWorkersReaped`, `EveryRootDispatched` | over two slots, tasks with overlapping paths never have two live workers; slots of dead workers come back; tasks without predecessors get started |
| `pause_drain` | `DrainedSprint`, `StatusMatchesFlag` | a pause drains a sprint of two workers, the flag follows the status |
| `pause_faults` | `PauseTypeOK`, `PausedDispatchBounded`, `PauseCompletes`, `TableTransitions` | with failing calls and hanging workers, only ticks that had begun issue sessions under a set flag, a pause comes to its end, and tasks move along the transition table |
| `hub_outbox` | `TypeOK`, `SendsBounded`, `NothingForgotten`, `ImplementsHubMirror`, `EveryRowSettles` | two appends beside the drain, lost answers, dismissals, a database error, a restart |
| `services` | `TypesOK` and the following | each of ten components on its own instance |
| – task graph | `PredecessorsFirst`, `VerdictExact` | `buildDAG` is right on every graph of up to three tasks |
| – share | `DeficitsBounded`, `FairTurns` | debts stay below a slot for each other sprint, and every sprint gets turns, whoever comes and goes |
| – sprint service | `OnlyLiveScheduled`, `LiveScheduled` | status and scheduler agree, but for overlaps and failures the properties name |
| – event feed | `PolledWasSeen`, `DispatchedTwiceAtMost`, `DeliveredAfterCursor` | the cursor never passes an unseen event, repetition is bounded, and with a cursor every event arrives unless the process ends |
| – worktree | `ActiveHasTree`, `NothingLeftBehind` | row and disk agree after failures, restarts and cleanups |
| – push | `ConnectionComplete`, `NothingMissed` | a heard subscribe accounts for every later event |
| – providers | `CircuitConsistent`, `ProviderReturns` | late answers never leave a circuit that disagrees with its count, and a healthy provider is used again |
| – queue | `ConcurrencyBounded`, `DeletedWasHandled`, `MessagesSettle` | redelivery, failures and a shutdown neither lose a message nor exceed the limit |
| – acceptance | `AcceptedWasTested`, `FailuresReportedOnce` | concurrent marks, submits and accepts accept nothing that failed and report each failure once |
| – ceremonies | `ScheduledOnce` | redelivery and failures never schedule a ceremony twice |

`TypesOK` is the conjunction of the components' type invariants. Deadlock is
checked in all runs but those of `MCServices`, where algorithms end and
bounded inputs run out.

Six further runs state what a comment of the repository says and show a
behaviour of the code that contradicts it:

| Run | Says | Does |
| --- | --- | --- |
| `bug_overlapping_ticks` | `maxWorkers` bounds the workers (`scheduler.ts:67`) | two ticks in flight both count before either registers |
| `bug_successor` | a task is feasible once its predecessors are `done` (`scheduler.ts:12`) | `done` rows are not loaded, so the successor never is feasible |
| `bug_reap` | SIGKILL after an ignored SIGTERM (`monitor.ts:8`) | `!child.killed` is false once SIGTERM was sent |
| `bug_resume_lost` | pause and resume move sprint and flag together (`sprint-service.ts:14-15`) | a resume during the drain clears the flag before the pause sets it |
| `bug_null_cursor` | the poll makes up for dropped notifications (`notify.ts:81`) | every subscriber passes `null`, and after `null` the poll reads nothing |
| `bug_worktree` | an active worktree is returned (`worktree.ts:82`) | a row that is `creating` or `draining` is returned too |

### Further observations

Read off the code, or seen with other constants, without a run of their own:

- `task.complete` and `task.fail` update by id only: a `ready` task that a
  defect re-opened in between becomes `done`, which the transition table
  forbids. The constants of `dispatch_reopen` without faults show it as a
  violation of `TableTransitions`.
- Two defects on one task read the same `iteration_count`
  (`post-defect-reported.ts:153`) and one increment is lost. `dispatch_reopen`
  with two elements in `Defects`, three in `Workers`, `IterationLimit = 2` and
  no faults shows it as a violation of `DispatchedOncePerOpening`.
- A query that rejects after `pause` committed the status leaves a `paused`
  sprint with the flag unset (`sprint-service.ts:501-508`). `pause_drain` with
  `CallFaults = TRUE` violates `StatusMatchesFlag`.
- A session whose capability is issued after the drain read its rows keeps it
  (`pause.ts:169-179` revokes by row).
- A heartbeat writes `active` over a drain mark (`worker_heartbeat.ts:58`), and
  the worker is then no longer refused by `task.complete`.
- `cycle_members` (`dag.ts:120`) holds every task that was not emitted, also
  those that only come after a cycle.
- The hub receives no idempotency key (`outbox.ts:329` sends the payload
  alone), so an event whose answer was lost is stored twice.
- After a restart nobody takes up the rows that waited: `ownedSeqs` starts
  empty. `getPendingEntries` lists owned rows only, so that rows which were
  refused or have run out of attempts are missing from it.
- `stop()` does not wait for a drain that is running: `drain()` returns at once
  when the flag is set (`outbox.ts:252-268`).

- The drain goes on with the next row while an earlier one waits for its retry
  (`outbox.ts:279`), although `outbox.ts:33` says that order is preserved.
- `start` and `complete` of a sprint leave the pool's paused flag alone, so a
  sprint that is completed while paused leaves the pool paused. The ceiling on
  live sprints is checked in `create` only (`sprint-service.ts:119`), and a new
  sprint does not count as live yet; `start` takes any number of sprints past it.
- There is one route callback for resolver tasks, bound to the first sprint
  that starts; completing any sprint unbinds it (`sprint-service.ts:631`), also
  while another is active.
- If `git worktree add` fails after it made the branch, or leaves a plain
  directory, every later `create` for the task fails: the branch is there.
- `NotifyClient.start` that fails leaves `connected` set (`notify.ts:57`), so
  that no later subscribe starts it again.
- A query that rejects or a handler that throws in the periodic poll is an
  unhandled rejection (`notify.ts:85`) and ends the process, where the same
  failure for a notification is logged. Subscribers of the next process start at
  `null`, so that what was not dispatched by then is not dispatched at all.
- `MissedIsReplayed` in `HubPush` states the guarantee of `ws-client.ts:31-33`.
  It does not hold: a subscribe that arrives while the connection is being
  authenticated is dropped; a live event may overtake the backfill and take the
  cursor with it when the connection drops; and a query reads 500 events. No
  run shows it. `stop()` during the await in `connect()` leaves a live
  socket, and nothing fills the client's outbound queue.
- The reset of the failure count outside its window never takes place
  (`fallback.ts:127-133` compares the time with the `_lastFailureAt` it has just
  set, line 118); a half-open circuit admits every call, not one probe; errors
  that cannot be retried count as failures of the provider.
- The daemon's `shutdown` exits without waiting for the consumer, which
  `main.ts:133-135` says drains. A message that was handled can end in the dead
  letters, if its deletes fail.
- Two concurrent retries of a request with the same idempotency key both run
  (`middleware/idempotency.ts` stores the key at the end); two concurrent
  first calls of `getOrCreateActiveSubKey` can make two active keys.
- `startSession` inserts the session and its results apart, and the UI always
  resumes a session that is open: one without results can be submitted, since
  none is pending, and is accepted with nothing tested. Without its exception
  for `untested` sessions `AcceptedWasTested` is violated.
- The header of `service.ts` describes `submit` as one transaction; defects and
  decision come after the commit. If it breaks off there, the session stays
  `submitted`: with failures it can only be partially accepted from then on.
  `submit` and `accept` may both emit `UATAccepted`.
- `createDefect` sets a defect found again to `reopened`, where its comment
  (`defects.ts:182`) says `open`; `reopened` is not among the states it looks
  for, so the third failure of a criterion makes a second defect.
- `RecordCeremony` updates by `rule_id` alone (`ceremony-scheduler.ts:304`): it
  overwrites the ceremony of every firing of the rule, failed ones included,
  which operators are told to find by their NULL (`ceremony-scheduler.ts:290`).
  A firing that was claimed and cut off is never tried again.
- `recordTurn` in `domain/comms/ceremonies.ts` takes its advisory lock inside a
  CTE nothing refers to and writes counts from stale reads; it has no caller.

### Bounds

`Tasks` has one or two tasks: one is enough for a task against its own
sessions, two for conflicts, order and competition for a slot. `Workers` bounds
the sessions of a run, two. `MaxWorkers` is 1 where the limit is at
stake, so that every session counts, and 2 where two workers must live
together (`dispatch_fair`, `pause_drain`). `IterationLimit` is 0 where
re-opening is not in question, 1 where it is; the code's value is 3. `Ticks`,
`Calls` and `Defects` have one element, or two where overlap is the question.
`Outcomes` and `HeartbeatStatuses` restrict what workers say. When the sessions
are used up, a tick waits at `issuing`: a run is a prefix of what the system
does. Sessions are interchangeable, and the safety runs use that symmetry; the
liveness runs do not. In `hub_outbox`, two events are one that fails and one
behind or beside it; `MaxRetries` is 2, so that an attempt can be the last or
not (the code's default is 5); one database error (`MaxFaults`) reaches every
catch, one restart (`MaxRestarts`) cuts every step.

In `services`:

- task graph: every graph of three tasks, with self-loops and rows of both kinds
  between two of them: the shortest cycles, chains, diamonds' halves and
  duplicates.
- share: three sprints of weights 5, 3 and 1; `Scale` 360 makes the share of
  each in every subset a whole number (`ScaleIsCommon`). The deficits are
  bounded, so nothing else limits the run.
- sprint service: two sprints, two calls in flight, restarts without limit; one
  live sprint at a time (`MaxActiveSprints`).
- feed: three events, a batch of two, so that a backfill can end before the
  last; two handlers, so that one can be missed; one fault, which may be one that
  ends the process. Two faults give the same results in twice the states.
- worktree: two ends of the task, three rows, two cleanups: a cleanup can meet
  another and the row made after it. An end's event is delivered once or not
  at all. `bug_worktree` needs one end.
- push: four events, a query limit of two, so that a backfill after the first
  can end at the limit; two drops, hence three connections.
- providers: a chain of two, two calls, a threshold of two (the code's is 5),
  three changes of health.
- queue: two messages, two places, two receives each, one shutdown.
- acceptance: two criteria, so that a session can be partly failed; two
  sessions, two calls. The second session never fails the second criterion, an
  operator reports the first criterion only, and only that report is ever
  fixed: the other combinations add states, and no case the properties tell
  apart.
- ceremonies: two rules, two events, two runs, two deliveries.

### Fairness

`FairSpec` assumes weak fairness of a tick's steps, of a tool call that was
accepted, of the monitor's steps and of its scan (`setInterval`, `monitor.ts:79`),
of a worker process coming to its end, and of the lapse of a dead worker's
heartbeat. It assumes nothing about workers connecting, beating or calling a
tool. That a tick begins again and again is an assumption about the caller:
comments speak of the periodic loop (`vision/service.ts:416`,
`retros/service.ts:413`), which `EveryRootDispatched` and
`EverySuccessorDispatched` need and `DeadWorkersReaped` does not.
`FairPauseSpec` assumes only that a `pause` or `resume` that has begun goes on
while its queries succeed; whether one is made is left open, and so is
everything in `Dispatch`.
`HubOutbox`'s `FairSpec` assumes weak fairness of the drain's own steps (a
request has a timeout, `client.ts:260`) and strong fairness of the interval: a
timer that fires for ever finds the client connected now and then if it is
connected again and again, which is the premise of `EveryRowSettles`. Nothing
is assumed about what the hub answers.

In `services`, fairness is stated component by component. `EventFeed`: the
client's timers, queries and callbacks go on (`ClientStep`, which includes that
postgres.js listens again) and an insert ends one way or the other; no process
has to be started again. `FairTurns`
assumes that turns go on; nothing about sprints coming or going.
`ProviderReturns` assumes `CircuitsFairness`: requests end (they have
timeouts), the clock goes on, and calls keep coming, without which no probe is
ever made. `MessagesSettle` assumes `QueueFairness`: handlers end, hidden
messages come back or are redriven, the loop asks again, and a message that is
receivable again and again is received in the end (strong fairness, which a
queue gives a consumer that keeps asking).

## What is proved

`Dispatch_proofs`, for every set of tasks, sprints, workers, ticks and defect
runs, every limit and every dependency graph, from `ConstantsAssumption`:

- `TypeCorrect`: `Spec => []TypeOK`. `TypeOK` is not inductive: that a slot
  count stays within `0..MaxWorkers` needs to know that a tick which allocates
  holds at least one slot, and that a row is written only for a session; this
  is `TickHolds`, and `TInv` is both.
- `OverlappingTicksWithinLimit` (`WithinMaxWorkersPerTick`), for any finite number
  of ticks. `SlotInv` adds to the rows that count the slots each tick still
  holds: `Cardinality(Counted) + SumOver(Reservation, Ticks)` stays within
  `MaxWorkers * Cardinality(Ticks)`. A tick that counts takes what is free beside
  the rows, whatever the others hold, and they hold at most `MaxWorkers` each;
  `RegisterWorker` turns one reserved slot into one row (`FS_AddElement`), and
  every other actor can only take rows away (`OtherStepsShrink`): a heartbeat
  that brings a row back also puts it into `revived`.
- `SingleTickWithinMaxWorkers` (`WithinMaxWorkers`) is its case of one tick. The
  hypothesis `Ticks = {theTick}` is needed: `bug_overlapping_ticks` is its
  counterexample, and the theorem above says how far that can go. No run
  checks the bounds per tick: two ticks and the third session that could break
  them are too many states beside tool calls and heartbeats. Without those, on
  the constants of `bug_overlapping_ticks` with a third element in `Workers`,
  `Faults = TRUE` and `Outcomes` and `HeartbeatStatuses` empty, TLC finds both
  bounds, `SlotInv` and `OpeningInv` to hold (966 718 states up to
  symmetry).
- `OverlappingTicksDispatchOnceEach` (`DispatchedOncePerTick`), for any finite number
  of ticks and one run of the defect hook. `OpeningInv` counts what a task may
  still cost: its sessions, and for each tick the session it holds and the one it
  may still start (`Claim`), because the task is open or because the tick chose
  it when it was. The sum stays within one for each tick and opening. A
  re-opening renews every tick's claim and counts itself; a step of one tick
  raises no claim, `MarkInProgress` even withdraws those of others. It rests
  on `RowsInv`: a row belongs to a session with a capability, and the session a
  tick is starting is bound to the task it chose. Two runs of the hook may read
  one `iteration_count`: then the count falls behind the openings, which is why
  there is one.
- `SingleTickDispatchesOnce` (`DispatchedOncePerOpening`) is the case of one tick.
- `SingleTickWritersDisjoint` (`WritersDisjoint`), with one tick. `WritersInv`
  says that the task a tick has chosen stays free to write until its worker is
  registered, although the busy paths were read before capability, state and
  process were awaited: nobody else registers a worker, moves a task into
  `in_progress` that has one, or brings a row back without `revived`.
- `SingleTickTableTransitions` (`TableTransitions`, an action property), with one
  tick and `NoReopening` (no defects, or an iteration limit of 0).
  `LifecycleInv` ties the processes to the tasks: each task was started once
  (`FreshInv`, `ProcessOf`), so a tool call that has moved its task on finds it as
  it left it. With a re-opened task an old session still answers for it, and the
  table does not hold: the hypothesis is what the runs assume.

`Pause_proofs`, from `ConstantsAssumption` and `PauseAssumption`:

- `PauseTypeCorrect`: `PauseSpec => []PauseTypeOK`, for any calls, ticks and
  failures. Each step of a call keeps the core's `TInv`, which is why the
  lemmas about `Next` serve for `PauseNext`.
- `PausedTicksRunOut` (`PausedDispatchBounded`), for any finite number of ticks,
  calls and every failure. `LeakInv` attributes each session issued since the
  flag was set to a tick in flight, and keeps what a tick has issued plus the
  slots it may still spend (`Budget`) within `maxWorkers`; that the sessions of
  all ticks stay within the product is `UnionBound`.
- `PauseDrainsSprint` (`DrainedSprint`) and `FlagFollowsStatus`
  (`StatusMatchesFlag`), for one call at a time over one sprint whose own queries
  succeed, beside any number of ticks. `DrainInv` says that an alive
  worker is on the list of the call that will terminate it, or was registered
  since the call read the rows, or was brought back; `StatusInv` says which of
  flag and status is ahead at each step. `bug_resume_lost` is the counterexample
  with two calls; with `CallFaults` a failing query leaves the sprint paused and
  the pool not (further observations).
- `PauseKeepsLimitPerTick`, `PauseKeepsLimit`, `PauseDispatchesOnceEach`,
  `PauseDispatchesOnce`, `PauseKeepsWritersDisjoint` and `PauseKeepsTable`: the
  properties of the core under `PauseSpec`, each with
  the hypotheses on ticks and defects of its theorem about `Spec`, but any number
  of calls that may fail anywhere. Calls only take workers out of the count and
  leave tasks and openings alone (`OutsideShrinks`), and they keep the sessions
  bound to their tasks (`SessionsInv`).

`TaskDag_proofs`, for every finite set of tasks and every set of rows, from
`CandidatesAssumption`:

- `TypeCorrect`, `OrderSound` (`PredecessorsFirst`) and `VerdictCorrect`
  (`VerdictExact`). `IInv` says that the in-degree of a task is the number of
  its predecessors not emitted, that the queue holds exactly the tasks not
  emitted whose in-degree is 0, and that the emitted tasks are distinct and
  closed under predecessors. If the queue runs empty early, the tasks left each
  have a predecessor among themselves, which is a cycle; if it does not, the
  order itself shows that no such set exists.

`HubOutbox_proofs`, for every finite set of events, every retry limit and any
number of database errors and restarts, from `OutboxAssumption`:

- `TypeCorrect`, `NoRowForgotten` (`NothingForgotten`), `SendsAreBounded`
  (`SendsBounded`) and `OutboxImplementsMirror`. All rest on `Shape`: a row the
  drain still has on its list is owned or has been flushed since (`DrainSound`),
  which is why an attempt is never counted, and a send never made, for a row
  that was given up; rows exist exactly for the events past their insert
  (`RowsSound`). `SendsCounted` adds the bookkeeping of the bound: a waiting
  row has been sent at most once directly, once for each counted attempt and
  once for each database error, and the row in flight once more. The
  refinement maps each step to `Accept`, `Arrive`, `Confirm`, `Abandon` or a
  stutter; that `ConfirmRow` is a `Confirm` needs that the row has arrived.

`Worktree_proofs`, for any number of cleanups, deliveries, ends and rows:

- `TreeTypeCorrect`, with `RowKnown` (a step that writes to a row knows which);
  `ActiveRowsHaveTrees` (`ActiveHasTree`), from `TreeKept`: no cleanup is
  beyond the mark while its row says `active`; `DiskIsCleared`
  (`NothingLeftBehind`), from `DiskCleared`: what each step of a cleanup was to
  remove is gone by the next.

`Sums_proofs` has what the sums above and below need. The module library defines
a sum by recursion over CHOOSE; what it is for every set needs induction. The
library's induction theorem takes a predicate as a parameter; `SetInduction`
takes the *set* of the subsets that are good instead, and follows from the
well-foundedness of the subset order. From it: a sum splits over disjoint sets
(`SumOverUnion`), any element may be taken out (`SumOverTakeOut`), it is linear,
and it is bounded by its terms (`SumOverAtMost`, `SumOverRaised`).

`Workflow_proofs`, for any number of concurrent calls:

- `DeficitsStayBounded` (`DeficitsBounded`), for any two or more sprints of any
  priorities. The bound on each deficit is not inductive: a turn may charge the
  sprint that is lowest already. `ShareInv` bounds the deficits of every group of
  scheduled sprints taken together: above by one slot for each other sprint, and
  below by a debt that grows with the group, one slot less for each sprint that
  joins (`Debt`). A turn gives a group its shares and takes a slot from the
  winner, whose score is at least that of everybody else. A group without the
  winner gains: but with the winner it was below the bound before, so that its
  part of the two is below it still (`CreditArithmetic`). A group with the winner
  loses: what is left of it, and the scheduled sprints outside it, which score
  no more than the winner, keep the winner's score high enough for the slot it
  pays (`DebtArithmetic`; together the shares of a turn are that slot,
  `SharesAddUp`).
  A sprint that leaves or arrives brings a deficit of 0. With one sprint there is
  nobody to owe a slot to, the bound is 0 itself, and 0 is not below it: hence
  the hypothesis.
- `ServiceTypeCorrect`, `ScheduledSprintsAreLive` (`OnlyLiveScheduled`) and
  `LiveSprintsAreScheduled` (`LiveScheduled`). `ServiceInv` is inductive: a call
  in flight knows the status and the place of its sprint, unless the sprint is
  contended (`CallKnows`); two calls are at one sprint only where they contend
  (`Apart`); and the two properties with the steps spelt out that stand between
  status and scheduler (`ScheduledOrRemoving`, `PlacedOrStarting`).
- `TriggersTypeCorrect` and `CeremoniesScheduledOnce` (`ScheduledOnce`), for any
  processes, rules and redeliveries. `RunsInv`: of the runs at one firing one at
  most is past the insert of its row, and no ceremony has been scheduled for it
  yet.
- `UatTypeCorrect`, `AcceptedSessionsTested` (`AcceptedWasTested`) and
  `FailuresReported` (`FailuresReportedOnce`), for any callers, sessions and
  finite set of criteria. `UatInv` is the conjunction of what submit's second
  half, which runs without the lock, relies on: the pass and fail counts of a
  session are those of its rows (`CountsExact`, with `FS_AddElement` and
  `FS_RemoveElement` for each mark); a snapshot is written once and over no mark
  (`SnapshotFresh`); a session that no longer takes marks has them all
  (`ClosedTested`); whoever is about to accept saw no failure (`VerdictsSound`);
  and a call that reports is alone at its session, the failures left to it being
  the ones not reported (`ReportsExact`).

`Links_proofs`:

- `CircuitsTypeCorrect` and `CircuitsConsistent` (`CircuitConsistent`, inductive
  together with the type), for any chain, callers and threshold.
- `QueueTypeCorrect`, `ConcurrencyIsBounded` (`ConcurrencyBounded`, from
  `PlacesInv`: the deliveries in flight and the messages asked for fit together)
  and `DeletionsFollowHandling` (`DeletedWasHandled`, from `DeletingWasHandled`: a
  delivery at its delete was handled), for any messages and limits.
- `PushTypeCorrect`, `ConnectionsComplete` (`ConnectionComplete`) and
  `NoPushMissed` (`NothingMissed`), for logs of any length and any number of lost
  connections. `CursorServed` accounts for every event after the connection's
  cursor and `NothingLost` for every event owed to the client over all its
  connections; both need `QueryAtCursor`, that a running query is for what
  follows the cursor, and `HelloFirst`, that nothing is sent before the subscribe
  is heard. What a backfill sends has the events it found, in whatever order,
  which is all the proof uses of `OldestFirst`.
- `FeedTypeCorrect`; `PollMissesNothing` (`PolledWasSeen`), from `PassedWasSeen`,
  the property without its premise; `DispatchesBounded`
  (`DispatchedTwiceAtMost`), from `BudgetInv`: an event's dispatches and those
  still due to it, by the batch and by its notification, stay within two plus
  the faults (`WithinBudget`), for which a batch holds only rows the cursor has
  not passed (`RowsOnce`) and the phases exclude one another (`PhasesApart`).
  For any number of events, handlers, cursors and faults, and processes that end
  and are started again.

Each strengthening was also checked by TLC, on the instances of the runs.

## What is only model-checked

- Everything under fairness, in every module: liveness and ENABLED are out of
  the prover's reach.
- `TypesOK` of `MCServices` is the conjunction of the type invariants of its
  parts; each of them is a theorem of its part.

The violated properties have no theorem.

## Not modelled

- Of what is modelled: the cost check of `allocateSlot` (the local boot gives
  no project id, so it is not taken), the hub's task list and its dual writes,
  `pauseDueToCostCeiling` for projects and installs, the gateway's scopes and
  framing, the providers `embed` skips, the hub's tenants and patterns, and
  the local `WebSocketHub`, which replays nothing; of acceptance, the promotion
  of a defect to the backlog, severity and persona; the contents of events,
  capability files and briefs; the emitter of `FallbackDriver`, which the boot
  does not pass (`boot.ts:687`): one that rejects after a provider's answer would
  count as the provider's failure (`fallback.ts:216-232`).
- Without a caller, so that there is no schedule to model them under: `recordFailure`
  and `enforceTimeouts`, the turns, votes and closure of ceremonies, blockers.
- Not modelled yet: channels and inbox, the capability authority and its keys,
  cost governance, hooks other than the defect hook, the backlog's epics and
  stories, GitHub and SCM, idempotency keys, verifiers, vision, retros and
  replay. Most are single statements over rows or pipelines of model calls;
  vision and retros touch the core through `Scheduler.tick`, which `Dispatch`
  models as `Ticks`.
- Requests, presentation and deployment keep no state of their own.
- `infra/` holds generated bundles.

## Plan

What is left, in this order:

1. Capability authority: issue, verify, revoke and key rotation with two
   concurrent first calls; Dispatch keeps one capability state per session.
2. Cost governance: running cost against ceilings, with the pauses it causes.
3. Idempotency keys, webhook deliveries against pull-request state.
4. Channels and inbox: delivery and read marks.
5. Proofs: that alive workers and ticks stay within the limit once `tick` takes a
   lock or reserves its slots, when the code does.
