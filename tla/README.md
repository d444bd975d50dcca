# Formal models of the workflow engine

TLA+ models of the parts of this repository that decide whether a run of a
workflow, a crew, an app or an agent happens, happens once, ends, and ends with the
right verdict, and of the triggers that start it.  TLC checks the models on small
instances; TLAPS proves their safety properties for every value of the constants.

    tlc -config MCExecutionStream.cfg MCExecutionStream.tla
    tlapm ExecutionLifecycleProofs.tla

Paths below without `src/` are under `src/apps/api/app/`; `tasks.py` is
`src/apps/worker/app/jobs/tasks.py`.

## 1. Inventory

A FastAPI server (`src/apps/api`) and Celery workers (`src/apps/worker`) share
Postgres (the durable rows) and Redis (broker, locks, flags, slots, pub/sub).  The
API creates an `Execution` row, commits it and enqueues a task; a worker builds a
`WorkflowRunner`, which walks the graph with asyncio; results go back into the
row, to a log table, and to browsers over pub/sub and a WebSocket.  Celery beat
starts the schedulers and the reaper.

| component | state it keeps | operations | talks to | what is hard | model |
|---|---|---|---|---|---|
| Workflow mutex (`execution_engine/concurrency.py`) | one Redis key per workflow, with a token and a TTL | acquire (skip, queue, replace), release | the runner calls it around a run | collisions, expiry under a live holder, worker death, Redis errors | `ConcurrencyMutex` |
| Execution life cycle (`execution_engine/engine/__init__.py`, `features/executions`, `tasks.py`) | `executions.status`, `started_at`; the cancel key; the task message | trigger, cancel, run, crash net, reaper | API, broker, worker and beat write one row | unguarded writes from four processes, SIGKILL, redelivery, check-then-write | `ExecutionLifecycle` |
| Crew executions (`features/crews`, `tasks.py`) | `crew_executions.status` | trigger, run, handlers, crash net | a second table beside the first | a crash net that looks in the wrong table, no cancel, no reaper | `ExecutionLifecycle` |
| Execution event stream (`event_emitter.py`, `features/executions/websocket.py`) | a pub/sub channel per execution | emit, subscribe, catch up, close | worker and beat to browser | the gap between catch-up and stream, lost events | `ExecutionStream` |
| Workflow runner (`execution_engine/engine/workflow_runner.py`, `node_executor.py`, loop and crew nodes) | `_executed`, `_outputs`, `_failed`, `_budget` of each runner | `_execute_node`, `run_downstream`, `_execute_subgraph`, `run` | reads the cancel key; a worker awaits it | coroutines interleaved at every await, fan-in, cycles, nested sub-runners, exceptions through `gather` | `WorkflowRunner`, `GraphRun` |
| AI agent node (`node_system/nodes/ai/agent`) | budget, seen tool calls, messages of one execution | the loop, the tools and their retries, the summary, the report | models and tools outside | a model that answers anything or never, budgets checked between calls and blind to streamed usage, many ways to end | `AgentLoop` |
| Listen slots (`features/triggers/listen_service.py`, `features/meta`) | Redis slots and their index; a row in `waiting` | open, claim, claim one, cancel, expire, sweep | webhooks, the editor, `dispatch_existing` | five commands where one step should be, GET then DELETE, lists that name a slot twice | `ListenSlots` |
| Cron scheduler (`execution_engine/scheduler/cron.py`) | a `last_run` key per node | check every minute, fire | triggers executions | a key that expires before the window does | `CronScheduler` |
| Integration polling (`scheduler/integration_polling.py`, `features/triggers/polling_listener.py`) | a cursor row per trigger | poll, dispatch, advance, Listen, save, delete, manual run | external services, the editor | five writers of one cursor, each from a copy; a cap on what one poll emits | `IntegrationPolling` |
| Public apps (`features/apps`) | the in-flight counter, spend and rate counters in Redis | admit, run, settle | the worker gives the slot back | a counter that drifts when one step of several fails | `AppAdmission`, `TurnSemaphore` |
| Workflow editing (`features/workflows`) | `version_vector` | update with an expected version | several editors | check then write | - |
| Expressions, node library, accounts, copilot, front ends | none beyond rows | | | see `PROJECT.json` for why each is left out | - |

What makes each correct, in a sentence:

- **mutex** - no two runs both rely on it at once; a key is only taken by
  `replace` and only freed by its holder or by time; no dead run keeps it.
- **life cycle, crews** - a verdict is final; a `running` row ends; a queued
  execution reaches a verdict, whatever dies on the way.
- **event stream** - nobody who watches misses the end of an execution.
- **runner** - a node runs once per runner; the run ends and stays within its
  budget; `completed` means that nothing failed unhandled and nothing was left
  out; the rounds of a loop do not overlap; a sub-run returns its own result.
- **agent** - spend and calls are bounded whatever the model does; a tool call is
  not made again; the node ends, with a text, unless a model or tool never answers.
- **listen slots** - a listen fires once and not after it is over; an event finds
  every open slot of its tuple.
- **cron** - one fire per due time.  **polling** - the cursor passes no event
  that was not handled, and every event arrives, up to what a poller drops over its
  cap; an active workflow keeps its row.
- **apps** - the counter is the number of slots held, and the cap is kept.

`PROJECT.json` lists the components with their status, and under `hazards` each
place in the code where one of these can go wrong.

## 2. The models

### ConcurrencyMutex

One workflow, any number of calls of `WorkflowRunner.run` that contend for it.

| model | code |
|---|---|
| `lock`, `ttl` | the value of `workflow_concurrency:<id>` and its remaining life |
| `AcquireFree`, `Collide` | the first `SET NX EX` and the branch on the policy |
| `ForceReplace` | the unconditional `SET` of `replace`, a round trip later |
| `Poll` | one turn of the `queue` loop, the deadline included; the `or 60` of the caller is `EffectiveWait` |
| `AcquireError` | an exception in `acquire`: the run goes on without a token, the `SET` applied or not |
| `Bypass` | no workflow row behind the id |
| `LeaveBeforeTry`, `EnterBody` | the code between acquire and the `try` |
| `Release`, `ReleaseError` | the `finally` and the compare-and-delete script |
| `Crash`, `Tick` | SIGKILL; the clock of Redis |

`token`, `lost`, `replacing` and `owed` record who holds a token in its frame,
whose token was overtaken, who was a `replace`, and who still owes a release.

### ExecutionLifecycle

Executions of workflows and of crews, workers, the broker, the API's cancel and the
reaper.  Each database write and each Redis command is an action of its own,
because every other process may act in between: `cancel_execution` is `CancelCheck`,
`CancelFlag`, `CancelWrite`; the crash net is `NetRead`, `NetWrite`; the reaper is
`ReapRead`, `ReapWrite`.  `wpc[w]` is the worker's place in `execute_workflow`:

    idle -Take-> setup -WriteRunning-> started -EnterBody-> body
    body -BodyReturns-> returned -WriteCompleted-> notify -Done-> idle
    body -BodySeesCancel-> sawCancel -WriteCancelled-> notifyCancel -Done-> idle
    body -BodyRaises-> raised -WriteFailed-> escaped -NetRead-> (net -NetWrite->) idle

with an arrow to `raised`, `escaped` or idle for each statement that can fail.
`Kill` is SIGKILL with the message lost or redelivered; `VisibilityTimeout`
redelivers it beside a live worker (`acks_late`).

`crew` holds the ids whose row is in `crew_executions`.  `execute_crew` and
`_run_crew` are the same code but for what they lack: no log rows (so no
`LogCompletedFails`), no cancel (`CancelCheck`), no reaper (`BecomeStale`), and a
crash net that looks the id up in `executions` and finds nothing (`NetMissesCrew`).

A row can also begin as a listen (`Listen`, status `waiting`).  Of the race for its
slot, which is `ListenSlots`, only what reaches the row is here: `held` counts the
deliveries that have read the slot, each of which ends in `DispatchExisting` (the
unconditional `pending`) or `ClaimLost`; `owed` is an end that `cancel_listen`, the
sweeper or the poll loop has decided on and not yet written (`DecideEnd`, `WriteEnd`,
`EndLost`), to a row that may have been dispatched, and have finished, by then;
`overtaken` remembers the rows that were.

### ExecutionStream

Extends `ExecutionLifecycle` with the events that end a stream and with the
viewers.  Each action of the worker or the reaper that writes a verdict leaves a
debt, `due` or `beatDue`, because the code publishes after the commit; `Publish`
pays it, `PublishFails` swallows the error as `emit` does, `KillStream` dies with
it, and `LogRaises` skips it.  A viewer of an execution is `Subscribe`, `CatchUp`,
`Deliver`, `Disconnect`; `inbox` is what Redis has buffered for its subscription.
`missed` remembers the viewers whose event was never published; nothing in the code
tells these.

### WorkflowRunner and GraphRun

One execution of a graph.  A frame of `co` is one call of `_execute_node`, cut
at its awaits: `new` (scheduled), `asking` (the cancel check), `executing`,
`joining` (the `gather`), and how it ended.  An element of `rns` is one
`WorkflowRunner` object.

| model | code |
|---|---|
| `Begin`, `SeeCancel` | the `_failed` test and the cancel check |
| `ClaimDuplicate`, `Claim` | deduplication, placeholder and budget, one step because no await lies between them |
| `NodeSucceeds`, `NodeFails`, `HumanInput`, `RunnerRaises` | the executor, retries, edges of a branch, error edges |
| `Join`, `Propagate` | `gather` without `return_exceptions`: the first exception wins, the siblings run on |
| `BeginRound`, `StartSub`, `TooDeep`, `TakeSub`, `SubRaises`, `LoopSucceeds`, `LoopFails` | the loop nodes, `run_downstream`, `_execute_subgraph` |
| `Finish`, `Abort` | the end of `run` |

Data is left out: a node succeeds along a branch (none, one an edge was drawn for, or
another) or fails, at random; outputs are the set of nodes that have one, enough to
say which result a sub-run returns.  Edges are named by their places in the graph's
list.

`GraphRun` is what all this machinery promises of a graph, without calls, tasks,
runners, retries, budgets and cancel requests: `Run(n)` gives a wanted node its one
outcome and makes the nodes of one of its possible outcomes wanted, `Fail(n)` is a
failure that leads nowhere, `Break` anything else that goes wrong, and a verdict is
given once - `Complete` when all that is wanted has run and nothing broke, else
`GiveUp`.  `WorkflowRunner` implements it under the mapping

| contract | runner |
|---|---|
| `plan` | `Plan`: the start nodes, the pinned ones, and for each node the sets of nodes its outcomes may reach |
| `wanted` | the nodes with a call in the run's own runner |
| `ran` | those of them with a recorded result |
| `broken` | the runner's `failed`, or a call of it that has raised |
| `verdict` | `outcome` |

A loop node is one step of the contract, `Run`: its rounds are sub-runs, which the
contract does not see.  After `failed` or `cancelled` the contract allows what the
code does, nodes that run on; after `completed` it allows nothing.

### AgentLoop

One execution of an agent node, whose model answers with any list of tool calls,
with or without text, at any cost up to `CallMax`.

| model | code |
|---|---|
| `RunOut`, `BudgetStops` | the end of the `for`, which speaks first, and `Budget.any_exhausted` with its clamp to the system's ceiling |
| `Ask`, `CallModel`, `ModelFails` | the call is out; its answer, with the usage the budget is told (`Reported`); its failure, charged or not |
| `Judge` | `minIterations` and `successWhen` on an answer without tool calls |
| `BlockCall`, `RunCall`, `CallRaises`, `EndRound` | the tool calls in order, the block on duplicates, the end after two answers of duplicates only; `Execute` is the registry, which runs the executor up to `MaxAttempts` times, or not at all |
| `Summarise`, `SummaryFails`, `SummaryCall`, `SummaryCallRaises`, `SummaryEnds` | the closing call, which neither asks the budget nor the block, and the hard fallback |
| `Report`, `ReportFails` | the output, after the memory is written |

`spent` and `runs` are history: what the calls of the model used and how often each
tool's executor ran.  They differ from what the code counts: a streamed call reports
its usage in part or not at all (`streaming`), and an executor that failed may have
had its effect.

### ListenSlots

Listens on trigger nodes, webhook deliveries, cancel requests, and the expiry of
slots and index.  Every Redis command is a step: `open_slot` is `OpenRead`,
`OpenClear`, `OpenSet`, `OpenIndex` (SADD) and `OpenExpire`; the exact claim of
`claim_slots_for_event` is `ExactGet`, `ExactDelete`, `Srem`; the fallback lists
(`ListScan`, `ListGet`, `ListDone`) and takes its choice with a DELETE whose answer
says who was first (`ClaimSlot`).  `ClaimFails` is the exception that loses what was
claimed.  `Dispatch` is `dispatch_existing`, as far as the slot is concerned.

The code's lists are bags, the number of times each execution is in them: a SCAN may
return an index key twice, and a stale entry leads to the slot of another tuple, so
one delivery can list, claim and dispatch a slot more than once.  `expiring` are the
indexes that have a time to live and `guarded` the slots that were SET before an
EXPIRE of their index, which therefore outlives them; an index can lapse on any other
slot.  `overlap` and `unindexed` are history: the executions read while they were
held, and the open slots whose entry was taken by another request or lapsed between
SADD and EXPIRE.

### IntegrationPolling

The cursor row of one trigger.  The provider's events are numbered, a cursor is the
number of the last one seen.  A poll emits at most `MaxPerPoll` events; the rigid
variable `defers` says whether its poller stops at the last one emitted and fetches
the rest next time (Google Forms, Tasks, Chat and Sheets, Telegram) or moves past them
all, so that the overflow is never dispatched (the strategies of
`node_system/scaffolds/polling_cursor.py`, Gmail).  A step ends where a session
awaits something another process can change: `TickRead` to `TickPersist` is one pass
of the beat task, `ListenSnapshot` to `CleanupDelete` a Listen with its poll loop,
`RunRead` to `RunCommit` a manual run, `Save` the save that activates or pauses the
workflow or takes the node out of its graph, `DeleteWorkflow` its deletion.
`TickLookupFails`, `TickPollFails`, `ListenFails`, `LoopPollFails` and `RunFails` are
the exceptions and early returns between them.  `Upsert` is the session's view of the
row: SQLAlchemy writes the cursor only when it differs from the one the session
loaded, inserts a row that is missing, and `orphan` are the sessions that hold a row
someone else deleted.

### CronScheduler

`check_cron_triggers` for one node: beat's minutes, the `last_run` key with its life
of two minutes, checks that may overlap.  `GetPresent` is what `.decode()` does on a
client that decodes already: it raises, and the node is passed over.

### AppAdmission and TurnSemaphore

The in-flight counter of one app, from the INCR of `send_message` to the `finally`
of `execute_app_message`.  `Incr`, `Limit` (EXPIRE and the comparison), `Decr`,
`Floor` (the SET to 0 of a negative counter) and `Expire` are the commands;
`SendFails` and `DecrFails` lose a decrement, `WorkerDies` and `Redeliver` lose or
repeat a task.  `TurnSemaphore` is what the counter promises: a counting semaphore
that may break for good.  `AppAdmission` implements it under the mapping `inUse <-
UnderWay`, `broken <- lapsed`.

### How they compose

`ExecutionStream` composes the life cycle with its events in one state space, and
`ExecutionStreamProofs!StreamKeepsLifecycle` shows that the composition implements the
life cycle.  The other models meet at points that are over-approximated on both
sides, so each is sound alone.  `WorkflowRunner.run` is the body of the life cycle,
and what lies between `EnterBody` and `Release` in the mutex; the life cycle lets a
body hang, and `RunEnds` says when that can be: only while the code of a node
does not return.  `AgentLoop` is one call of a node of the runner; `AgentEnds` says that
it returns unless one remote call does not.  `ListenSlots!Dispatch` is
`ExecutionLifecycle!DispatchExisting`; `CronScheduler!Fire` and
`IntegrationPolling!TickDispatch` end where `ExecutionLifecycle!Trigger` or `Enqueue`
begin.

## 3. The runs

| run | configuration | shows |
|---|---|---|
| `mutex` | 3 runs, TTL 2, polls of 2 in a wait of 4 (the stored 0) | `MutualExclusion`, `OnlyReplaceSteals`, `OnlyHolderFrees`, `OrphanFreed` |
| `lifecycle` | 1 execution - of a workflow, of a crew, or a listen read by 1 delivery -, 2 workers, 2 messages | `VerdictStands`, `RunningEnds`, `QueuedReachesVerdict` |
| `stream` | `ExecutionStream`: the same without dispatched listens, and its viewers | `NoTerminalGap`, `ViewerLearns` |
| `reaper_clobbers` | 1 worker, 1 message | `ReaperSparesFinished` is violated: finding 1 |
| `runner` | six graphs, budget 7, depth 2, two rounds | `RunsOnce`, `WithinBudget`, `CompletedIsClean`, `CompletedIsWhole`, `RoundsInTurn`, `CleanSubAnswers`, `RunEnds`, `ImplementsGraphRun` |
| `loop_result` | the crew graph | `SubResultIsOwn` is violated: finding 2 |
| `agent` | 2 tool calls with 2 attempts each, answers of up to 2 of them, 2 measures with limit 2, ceiling 3, iterations 0, 2 or 4, minimum 2, streaming or not | `SpendBounded`, `CallsBounded`, `NoRepeat`, `AlwaysContent`, `AgentEnds` |
| `listen_slots` | 2 listens of one node, 2 tuples, 2 deliveries, SCANs of 2 keys | `SlotIndexed`, `FiresOnce`, `SettledIsOver` |
| `listen_twice` | the same | `FiresAtMostOnce` is violated: finding 3 |
| `integration_polling` | 1 beat run, 1 Listen, manual runs, 2 events, 1 per poll | `NothingSkipped`, `ActiveKeepsRow`, `EventsArrive` |
| `cron` | period 5, key 2 minutes, 7 minutes | `OncePerWindow` is violated: finding 4 |
| `app_admission` | 3 messages, cap 2 | `ExactCount`, `NoOvercount`, `CapKept`, `ImplementsSemaphore` |

Each passing run also checks the type invariant of its module.

Why the bounds are enough:

- *mutex*: a holder, one that takes over and one that comes late are three runs;
  two ticks make "has some time left", "about to expire" and "gone" different;
  a wait of two polls has a first, a last and none after it.  Each run calls
  `run` once, as one task does.
- *lifecycle*: executions do not interact except through workers and the reaper's
  batch, and no property relates two of them; the second delivery is the first
  one that can run beside another.  One delivery that holds a listen is enough to
  overwrite what cancel or sweeper wrote, and the other way round; a second one writes
  what the first did.
- *stream*: viewers do not interact, so one at a time stands for all, and one that
  comes back for a second.  `MaxClaims` is 0, because `dispatch_existing` publishes
  nothing that ends a stream.
- *runner*: the graphs are chosen one hazard each: a fan-in from two start nodes
  with a retry, an error edge and an edge to nowhere; a pinned cycle that only
  the budget ends; a loop whose body forks, with an error edge; a loop
  inside itself down to the depth limit; a crew with a retry; a human-input node
  with an error edge.  A budget of 7 is used up by the cycle and by the nested
  loops and is enough for the other graphs; a second round is the first that can
  see outputs of an earlier one.
- *agent*: two signatures are the least with a repeated and a new call in one
  answer; two attempts are the least with a retry; a limit of two calls lets the
  budget, the iterations (2), the system's ceiling (3, below the choice 4) and two
  answers of duplicates each be the first to end the loop.
- *listen_slots*: two listens of one node are a slot and its replacement; the second
  tuple is reached by the fallback (`Alias`); two deliveries are the least that
  overlap, and two index keys of one SCAN the least that repeat or that lead to one
  slot.
- *integration_polling*: one of each writer; with two events a cursor can lie
  between them, and a poll of one is over its cap.  Overlapping beat runs make the
  instance too large for TLC and are covered by the proofs of the two safety
  properties.
- *cron*: two windows, the first long enough for the key to lapse within it.
- *app_admission*: the third message is the one the cap refuses.

The proofs cover all other values for the safety properties they state.

Bounds of the models themselves: `MaxDeliveries` (redeliveries of one message),
`MaxClaims` (deliveries that hold a listen at once), `MaxRounds` (rounds of a loop
node), `MaxScans` (index keys of one SCAN), `MaxEvents` (events of a provider),
`MaxNow` (minutes).  `Budget`, `MaxDepth`, `SystemMax`, `Limit`, `MaxAttempts`,
`MaxPerPoll` and `MaxInflight` are the
code's own limits, scaled down; so are `TTL`, `PollInterval`, `MaxWait`, `Period` and
`KeyMinutes`.  Deadlock is checked for `integration_polling` only: every other
model reaches states where the work is over and nothing is left to do.

### Fairness

No time limit is assumed where the code sets none: the executor and the runner
set none for a node, Celery none for a task, and the calls of the language models pass
`timeout=None`.  Commands of Redis and statements of the database have no timeout
either; that they answer or fail is an assumption of these models.

- *mutex*: `WF(Tick)` - Redis's clock runs.  Nothing is assumed of the runs.
- *lifecycle*, *stream*: weak fairness of the live processes' own steps, publishing
  included, except in the body, which may hang; `Kill`, redelivery, cancel and the
  steps of a listen have none.  A workflow whose body hangs is the reaper's; for a crew
  there is neither reaper nor limit, and `RunningEnds` and `QueuedReachesVerdict` name
  the case.  In the composition one condition stands for all workers and the reaper: a
  message is handed out a bounded number of times, so while one of them acts for ever
  each gets its turn.  The socket's catch-up and delivery are scheduled by another
  event loop and have a condition of their own; nobody must connect or go.
  `WF(BecomeStale)` - time passes.  `WF(ReapRead)`, `SF(ReapWrite)` - beat starts the
  reaper every two minutes for ever; one attempt may die between its statements
  (`ReapLost`), not all.
- *runner*: `WF(EventLoop)` - the event loop is not stopped while a task can run.  A
  call that waits for the code of an ordinary node (`InNode`) is not such a task:
  `RunEnds` says that the run ends or such a call stays out for ever.  The cancel
  request and its expiry have none.
- *agent*: `WF(LocalStep)` - the node's own code goes on.  The model, the tools and
  the clock that passes `max_seconds` have none: `AgentEnds` says that the node ends or
  waits for a remote call for ever.
- *integration_polling*: `WF` of the steps of a beat run, `SF` of the steps others
  can disable again or that may fail (a Listen takes the row for a while; the lookup
  of a workflow or a provider may fail for a while, not for ever), and `<>[][no
  TickDies]`: a beat run may die any number of times, not for ever.  Listens end
  (`SlotCloses`), as their slots expire.  Nobody must save, listen or run.

### What the properties say of the known races

`VerdictStands` excepts, by name in `MayBeOverwritten`, the ways a finished row
changes again: the reaper's two statements; a cancel whose check came before the
verdict (the row is then `cancelling` and nothing leads out of it); a second
delivery beside the first; a failing log write after `completed` (the generic
handler then writes `failed`); and for a listen, `dispatch_existing` by a delivery
that has read its slot (the row is then `pending`), and `cancel_listen`, the sweeper or
the poll loop, which write the end they decided on over whatever the row has become.
The property is that among the modelled writers there is no other way.  In the
same way `RunningEnds` and `QueuedReachesVerdict` except the runs a worker abandoned,
among them the crew runs the crash net does not find, and bodies that hang;
`ViewerLearns` the viewers whose event was never published; `FiresOnce` a slot that was
read while a delivery held it; `SlotIndexed` an entry lost to a late SREM or to an index
that lapsed before its EXPIRE; `NoRepeat` the closing summary; `SpendBounded` speaks of
what the budget was told, and of what was spent only when nothing is streamed;
`CleanSubAnswers` a sub-run in which a call failed; `ActiveKeepsRow` a deletion decided
while the workflow was paused, deleted or without the node; `NothingSkipped` and
`EventsArrive` what a poller that moves past its cap leaves behind; `ExactCount` a
counter that expired under a held slot.  `NothingSkipped` counts an event whose
dispatch failed as handled, as the code does (`integration_polling.py:390-398`).

## 4. The proofs

| theorem | statement |
|---|---|
| `ConcurrencyMutexProofs!InvariantHolds`, `TypeCorrect` | `Spec => []IInv`, `[]TypeOK` |
| `AtMostOneProtected`, `StealsAreReplaces`, `FreesAreOwn` | `Spec => []MutualExclusion`, `OnlyReplaceSteals`, `OnlyHolderFrees` |
| `ExecutionLifecycleProofs!TypeCorrect`, `VerdictInvHolds`, `VerdictsAreFinal` | `Spec => []TypeOK`, `[]VerdictInv`, `VerdictStands` |
| `ExecutionStreamProofs!StreamKeepsLifecycle`, `StreamVerdicts`, `NoGap` | `StreamSpec => Spec`, `[]VerdictInv`, `[]NoTerminalGap` |
| `AgentLoopProofs!InvariantHolds`, `TypeCorrect` | `Spec => []IInv`, `[]TypeOK` |
| `SpendIsBounded`, `CallsAreBounded`, `CallsRunOnce`, `AnswersHaveText` | `Spec => []SpendBounded`, `[]CallsBounded`, `[]NoRepeat`, `[]AlwaysContent` |
| `WorkflowRunnerProofs!InvariantHolds`, `TypeCorrect` | `Spec => []IInv`, `[]TypeOK` |
| `WorkflowRunnerProofs!Refines` | `Spec => ImplementsGraphRun` |
| `NodesRunOnce`, `BudgetKept`, `CompletionClean`, `CompletionWhole`, `RoundsOneByOne`, `CleanSubRunAnswers` | `Spec => []RunsOnce`, `[]WithinBudget`, `[]CompletedIsClean`, `[]CompletedIsWhole`, `[]RoundsInTurn`, `[]CleanSubAnswers` |
| `ListenSlotsProofs!TypeCorrect`, `SingleShot`, `OpenSlotIndexed`, `SettledStays` | `Spec => []TypeOK`, `[]FiresOnce`, `[]SlotIndexed`, `SettledIsOver` |
| `IntegrationPollingProofs!TypeCorrect`, `NeverSkips`, `RowIsKept` | `Spec => []TypeOK`, `[]NothingSkipped`, `ActiveKeepsRow` |
| `AppAdmissionProofs!TypeCorrect`, `NeverOvercounts`, `CounterExact`, `CapIsKept` | `Spec => []TypeOK`, `[]NoOvercount`, `[]ExactCount`, `[]CapKept` |
| `AppAdmissionProofs!Refines` | `Spec => ImplementsSemaphore` |

*Mutex.*  `MutualExclusion` is not inductive: it says nothing of how the key and
the tokens are related.  `IInv` adds that a token is held by active runs only and
is still owed (`TokenDiscipline`), that a key exists exactly while it has time left
and carries every token that is not lost (`KeyDiscipline`), and that only a
`replace` gets to the unconditional `SET` (`ForceDiscipline`).  Two protected runs
then own the same key, so they are one.  Assumptions: `NoRun` is no run; `TTL`,
`PollInterval` and `DefaultWait` are positive; `MaxWait` is a natural number.

*Life cycle.*  `VerdictStands` follows from `VerdictInv`: with one delivery at most
one worker is on an execution, nothing is written to one that was not delivered, a
listen that was not dispatched has no message, and its row no verdict but one that
overtook the dispatch (`Unsent`), and a worker that still has a status to write
(`Unfinished`) finds the row unfinished unless one of the listed races happened.
`NetRead` is the step that needs it: its test is what makes the later `NetWrite`
harmless.  Assumptions: `NoExec` is no execution; `MaxDeliveries` is positive.

*Stream.*  Every step of the composition is a step of the life cycle or leaves its
variables alone (`StreamStepIsStep`), so what is proved there holds here.
`NoTerminalGap` needs one fact more: the reaper selects its next rows only when it
owes no event for the last ones (`BeatInTurn`), or its next update would forget
them.  Steps that finish no row and leave the events alone (`Quiet`) need no
argument each; what remains is a lemma for the write of a verdict, for a worker that
pays or loses what it owes (`SettleKeepsGap`), for the reaper and for the socket.

*Runner.*  Nothing bounds the calls of a run but its budget, so the proof is about
lists that grow.  `IInv` ties four things together.  What is in `executed`: a call
that runs its node, or did (`Took`), put it there (`Claimed`) and is the only one of
its runner that did, unless the node is pinned (`Single`), every entry was put there by
a call that did not skip the node (`Taken`), and a call that skipped has one of three
excuses (`Excused`).  `Single` is stronger than `RunsOnce`, which forgets a call that
raised after its node; it is inductive because the test and the placeholder are one
step.  The tree of calls: a call that is done or waits has called every
target its result leads to, and is done only after them (`Gathered`).  Failure: a
result is stored or is a failure (`Stored`), one without an error edge has failed its
runner (`FailureSeen`), and nothing else fails a sub-runner (`Blamed`).  Sub-runs: a
sub-runner has one root, whose parent is a loop of another runner (`Rooted`), a loop
waits for the last sub-run it started, and the ones before are over (`SubLast`,
`SubOwn`).  The budget is `Spent`: what is left and what has run never add up to more.
`AllReturned` is the lemma that carries a verdict upwards: when the first calls of a
runner have returned, all its calls have, for the earliest that had not would have a
parent that returned before it.  It gives `CompletedIsWhole` and `CompletedIsClean` at
`Finish`, and `RoundsInTurn` when a sub-run is taken.  `StepKinds` sorts the seventeen
steps of a call into four kinds, each with one lemma: a step that claims nothing and
makes no call (`OrdinaryStep`), the end of a node with the calls its result leads to
(`SettleStep`), `Claim` and `StartSub`.

The refinement uses the same four kinds.  An ordinary step, a claim and the start of
a sub-run leave the nodes called and the results of the run's own runner alone, so
the contract sees nothing, or `Break` when a call raises (`MainKept`).  The end of a
node of that runner is `Run` or `Fail`: the node is wanted because it was called,
and has not run because `Single` leaves it to this call, whose own result is still
unset (`Stored`). `Finish` is `Complete` because of `AllReturned` and the excuses: a
call that skipped a node left it to one that is done by then.  `Abort` is `GiveUp`:
the start node's call that raised is one of the runner's own (`Rooted`).
Assumptions: a graph has finitely many nodes and a finite list of edges; `Budget`
and `MaxRounds` are positive, `MaxDepth` is a natural number.

*Agent.*  The properties speak of history, so `IInv` relates it to what the code
counts: a call is made within the limit as the budget knows it, so that the excess
stays below one call (`Overshoot`); when nothing is streamed, what is spent is what the
budget has until the summary (`Accounted`, `SpentOvershoot`); the calls made are at most
the iterations begun (`Counted`); a call that is not remembered was not executed, and
one that is was executed no more often than its attempts (`Remembered`).
Assumptions: batches are sequences of `Calls`, no usage exceeds `CallMax`, limits,
attempts and the ceiling are positive.

*Listen slots.*  A second dispatch needs a second claim of the execution.  `IInv`
says that what was claimed or dispatched is in no slot (`Gone`) and that outside an
overlap one delivery holds an execution, in one place and once, and has not yet
dispatched it (`Alone`, `Once`); `Placed`, `Known` and `Phases` say where a slot's
content and a process's local values come from.  `SlotIndexed` needs that an open slot
was SET before an EXPIRE of its index (`Guarded`), so that the index outlives it, and
speaks of the slot from its SADD on (`Indexed`).  Assumptions: the placeholders are
none of the values; `node` maps executions to nodes; `MaxScans` is a natural number.

*Polling.*  A cursor is stored from a copy of an older one, so `IInv` says of every
copy what `NothingSkipped` says of the row (`CursorsCovered`), and of a beat run
that what it brings is handled, passed over, or still in its list; a poller that defers
passes nothing over (`DeferringKeeps`, from `DeferringStep`: its new cursor is the last
match).  Assumptions: `NoRow` is no number, the names of the sessions differ,
`MaxPerPoll` is positive.

*Apps.*  `CapKept` rests on what INCR answered being the number of slots held at
the time: `WhileExact` bounds the granted messages by the cap as long as the counter
is exact.  Counting uses the library's theorems on cardinality; every step moves at
most one message into or out of `Holders`.  The refinement maps initial state to
initial state, and each step to `Enter`, `Exit`, `Break` or a stutter.  Assumptions:
`Msg` is finite, `MaxInflight` a natural number.

Only model-checked: everything under fairness (`OrphanFreed`, `RunningEnds`,
`QueuedReachesVerdict`, `ViewerLearns`, `RunEnds`, `AgentEnds`, `EventsArrive`), which
the prover does not handle.  The four properties the code violates are only run, as
is `CronScheduler`, whose one property is among them.

## 5. Findings

1. `reaper_clobbers` - the reaper selects stale ids and updates them by id alone;
   a run that completes in between becomes `failed`.
2. `loop_result` - a sub-run's result may be the output an earlier round left
   behind, and its failure is then not surfaced.  `CleanSubRunAnswers` says that this
   needs a call of the sub-run that failed: without one the result is its own.
3. `listen_twice` - `claim_slots_for_event`, "atomically", reads a slot and deletes it
   a command later without a look at the reply: two webhooks fire one listen.
4. `cron` - the last-run key lives two minutes and is never read (`.decode()` on a
   `str` raises), so a due time is fired again every two minutes until the next.

Seen while modelling, without a run of their own:

- `update_workflow` flushes the row of a new polling trigger after its last commit,
  and `get_db` does not commit: the row is rolled back and the beat task does not
  see the trigger until a Listen or a manual run inserts it
  (`features/workflows/service.py:101-116`, `features/triggers/repository.py:106-128`).
- The crew's cost cap is dead: the agent adds `total_cost_usd` of a snapshot whose
  key is `cost_usd` (`agent.py:1042`, `budget.py:132`), so `_crew_cost_used` stays 0;
  `tasks.py:592` looks for the same key and books app runs at no cost.
- An agent that runs out of iterations reports `success`: the `for` (`agent.py:557`)
  ends before the gate that would report `budget_exhausted` is asked.  `budget.py:4-5`
  and 86, and the comment at `agent.py:552-553`, say that any exhausted budget,
  iterations included, ends the loop as `budget_exhausted`.
- A streamed call of a model is counted in part or not at all: the last chunk
  overwrites the input tokens (`agent.py:1867-1876`), and the OpenAI stream is not asked
  for its usage (1734).  The "hard" token and cost budgets (`budget.py:1`) then stop late
  or never.
- Over its cap, a poller built on `polling_cursor.py` drops events for good (87-93,
  115-120).  The comment of `gmail_trigger.py:65-68` says that the remaining ids stay
  in the next window; its cursor moves past them as well.
- `open_slot` sets the time to live of an index after it has added the entry
  (`listen_service.py:109-110`): an older time to live can end in between, and the slot
  is then found by the fallback only if another index key leads to it.
- `run()` acquires the mutex before the `try` that releases it
  (`workflow_runner.py:170-201`); a graph that is empty or has no start node returns in
  between and the workflow is locked for the TTL of an hour (`LeaveBeforeTry`;
  `OrphanFreed` is what frees it).
- `PauseSignal` is caught by the node executor as an ordinary failure
  (`node_executor.py:65`), so a human-input node never pauses a run.
- Every refused message of an app renews the thirty minutes of a leaked counter
  (`spend.py:75`), so an app that is asked often enough stays refused.
- A crew run that escapes its handlers stays `pending` or `running` for ever.

## 6. Not modelled

Of the components with a model:

- life cycle, crews, runner: `save_pause`, `resume` and `_resume_from` (no run
  reaches them, as the pause is swallowed); parallel rounds of loop nodes and the
  versions of an output they would race on; the deletion of a crew while it runs;
  `is_locked` (a read).
- event stream: the snapshot app turns leave for late viewers, the logs channel of a
  workspace, and events that end nothing.
- agent: the formats of the providers, the forced choice of a tool (the provider is
  asked for it, and may ignore it), skills, and the crew's cost cap (dead, above).
- listen slots: corrupt payloads; an event routed by an index entry of the wrong
  target.
- polling: the fetch code of the providers, the reset of a cursor when the event or
  scope of a trigger changes or a provider's history has expired, several triggers in
  one tick.
- apps: daily spend, rate limit, session sweep.

Of the rest: the components marked `not_modelled` in `PROJECT.json`, each with its
reason.  Most of the repository's lines are the node library - some 1500 files that
call an external service and return its answer, without state or steps that can be
interleaved - and front ends; a model of them would have nothing to say.

## 7. Plan

Done: `ConcurrencyMutex`, `ExecutionLifecycle` with crews, `ExecutionStream`,
`WorkflowRunner` with `GraphRun`, `AgentLoop`, `ListenSlots`, `IntegrationPolling`,
`AppAdmission` with proofs, `CronScheduler` without.

1. `WorkflowEditing`: the `version_vector` check of concurrent editors beside the
   sync of polling rows.
2. Parallel rounds and versions of outputs, then pause and resume, in
   `WorkflowRunner`.
3. The app turn: snapshot, stream and settlement around `AppAdmission`, with the
   daily spend.
4. A specification in which a verdict is given once, which `ExecutionLifecycle`
   implements outside the listed races.
