# Telegram Migration Studio: TLA+ models

Telegram Migration Studio is a desktop program that collects the members of Telegram
groups into datasets, and adds or removes members by long-running jobs that respect
Telegram's waits, can be paused, stopped and resumed, and survive a restart. These
modules model its core: the writer of the database, the executor of the jobs, the
commands that create and control jobs, the scanner of member lists, the clients of
the accounts, the accounts themselves, the store of members from which plans are
made, imports and exports, and the end and start of the process. TLC checks them on
small instances; TLAPS proves every safety property of the passing runs for all
instances, some under a hypothesis that "Proofs" lists. Paths are relative to `src/src/tms/` unless they start with
`docs/` or are one of the documents at the root of the repository.

## The system

### Actors

| actor | runs | its part |
|---|---|---|
| Qt UI thread | commands of `runtime/handlers/` | reads the database, checks, and hands work to the others |
| network loop (`NetworkRuntime`) | one asyncio loop in a thread: coordinator, executors, scans, authentication, client manager | atomic between two `await`s |
| worker pool, 2 threads | plans, combinations, imports, exports, reads of candidates, enabling and deletion of accounts, cancellation of idle jobs | interleaves freely with the rest |
| `DBWriter` thread | every write of the SQLite database | one transaction at a time |
| Telegram (Telethon) | answers, waits, revoked sessions, lost connections | nondeterministic |
| the user | commands, quitting | nondeterministic; assumptions are named constants |

Commands check a row on the UI thread, and what they start writes the row later
on another thread without looking again. Most of what is hard in this program
comes from that, from buffers whose content is written later, and from crashes
between two transactions.

### Components

| component | state it keeps | operations | interacts with | hard behaviour | what makes it correct |
|---|---|---|---|---|---|
| `runtime/db_writer.py` | queue, pending routine batch, futures, `_stopped` | submit, coalesce, critical write, rollback, stop | every repository | threads racing with stop, shared rollback, cancelled futures, bounded queue | acknowledged is durable; critical is a barrier; everything queued is answered; stop returns |
| `migration/executor.py`, `scheduler.py`, `candidate_buffer.py` | control events, result buffer, flush task, position, server wait | run, attempt, flush, pause, stop, backoff, FloodWait | job repository, governor, gateway | racing flushes, candidates read ahead of what is written behind, waits cut short, failing writes, crash between call and write | nothing lost or counted twice; no call during a wait or after a restriction; requests obeyed; runs end |
| `jobs/repository.py`, `state_machine.py` | rows of jobs and items, counters, `waiting_until` | create, set_state, submit_results, mark_retry, queries | all job code | unconditional updates | counters agree with items; terminal is terminal |
| `migration/recovery.py` | rows, at startup | normalize_after_restart | job repository | any state a crash leaves | no job stuck; waits survive |
| `runtime/handlers/workflow.py`, `data.py`, `job.py`, `workflows/coordinator.py`, `runtime/resource_governor.py` | `_executors`, mutation lock of an account, coordinator coroutines | collect, prepare, start, pause, resume, stop | executor, scanner, planner | check on one thread and write on another | one action job and one executor and one call per account; finished stays finished |
| `telegram/participant_scanner.py` | page queue, batch, checkpoint, cancel events | scan, cancel, resume | member store, job repository | two tasks on a bounded queue, task group cancellation, two-transaction batches | nobody missed by a resumed scan; counts right; the scan ends |
| `telegram/client_manager.py` | slot per account, reaper task, credentials | get, disconnect, reap, close_all | authentication, executor, scanner | awaits between reading and filling a slot | one live client per account, none leaked, none reaped in use |
| `telegram/auth_service.py`, `accounts/`, `runtime/handlers/account.py` | account row, code hashes | connect, send code, sign in, enable, delete | client manager, jobs | overlapping coroutines and worker tasks | enabled and status agree; jobs keep their account |
| `members/`, `datasets/`, `migration/planner.py`, `precheck.py` | members, datasets, peer cache, plans | ingest, merge, combine, plan | scanner, imports, executor | members with and without id, transactions that interleave | nobody lost from a dataset; foreign keys never hit; nobody added twice |
| `telegram/error_mapper.py`, `migration/result_classifier.py` | none | exception to code, code to action | executor | token lists that overlap, durations that are missing | a restriction of the account pauses the job |
| `import_export/service.py` | a job, a dataset, counts in local variables | import, export | worker pool, writer, member store | bounded waits for batches that are written all the same, writes outside the try | complete means whole; terminal is at rest; unfinished is worked on |
| `runtime/application_runtime.py`, `worker_pool.py`, `network_runtime.py` | queue of tasks, shutdown hooks | start, stop | everything | what still runs or is queued at each phase of stop | stop loses no final state and returns |
| `telegram/telethon_gateway.py`, `peer_cache.py`, `groups/` | caches | requests, parsing | – | external service | not modelled |
| buses and state store, `storage/`, `ui/` | – | wiring | – | – | not modelled |

## The modules

| module | role | models | checked through |
|---|---|---|---|
| `WriteLog` | abstract | what the writer promises: an ordered log of writes | – |
| `DBWriter` | | `runtime/db_writer.py`; implements `WriteLog` | `MCDBWriter` |
| `JobStateMachine` | | `jobs/state_machine.py`, `core/enums.py` | the modules that extend it |
| `ErrorPolicy` | | `telegram/error_mapper.py`, `migration/result_classifier.py`, as operators | `MCExecutor` |
| `MemberActionExecutor` | | one action job: commands, `run()`, candidate buffer, delayed flush, recovery | `MCExecutor` |
| `WorkflowCommands` | | all jobs of one account | `MCWorkflow` |
| `ParticipantScanner` | | one collect job and its coroutines | `MCScanner` |
| `ClientManager` | | client slots, reaper, change of credentials | `MCClients` |
| `AccountLifecycle` | | one account row and all that writes to it | `MCAccount` |
| `MemberStore` | | members, datasets, combination, plans | `MCMembers` |
| `ApplicationRuntime` | | imports, exports, the pool they share with a run, `stop()` and the next start | `MCRuntime` |
| `DBWriter_proof`, `MemberActionExecutor_proof`, `WorkflowCommands_proof`, `ParticipantScanner_proof`, `ClientManager_proof`, `AccountLifecycle_proof`, `MemberStore_proof`, `ApplicationRuntime_proof` | | the theorems about the module each is named after (those about the executor take `ErrorPolicy` and `JobStateMachine` with it, those about the writer `WriteLog`) | TLAPS |

The modules compose by assume and guarantee rather than by one product:
`DBWriter` shows (`CriticalIsBarrier`, a part of `AnswersAreTrue`) that an awaited
critical write is one step behind everything queued before it, and the other
modules use that as the step. `MemberActionExecutor` and `ParticipantScanner`
show the inside of a run and of a scan; `WorkflowCommands` sees of them the few
steps that touch what the jobs of an account share. `AccountLifecycle` sees of
the jobs only their number, `MemberStore` only their items. `ApplicationRuntime`
composes the writer (as a queue that is answered in order), the worker pool, the
tasks on it and a run of which only its place in `stop()` is left.

### DBWriter and WriteLog

`queue`, `pending`, `future`, `stopped` are the fields of the class; `log` is the
database. `Enter` and `Put` are the two halves of `submit` (test of `_stopped`,
then the blocking `put`), `GetRoutine`, `GetCritical`, `GetStop` and
`FlushInterval` the loop of `_run`, `Rollback` and `Resolved` the outcomes of
`_commit_batch`, with futures resolved one at a time so that a cancellation can
fall between `done()` and `set_result`. `stop()` is its flush, its sentinel and
its join. The two callers that may race to `start()` are one step, and a rollback
fails all futures of its batch in one: `_fail_tasks` has the same window between
`done()` and `set_exception` as the other outcome, which is modelled.
`WriteLog` knows only a log and the answer of each operation: an operation is
applied at the end of the log or refused, and is answered accordingly.
`ImplementsWriteLog` is the refinement. It admits one thing only because the code
does it: operations whose waiter was cancelled may be applied again (`Reapply`).

### MemberActionExecutor

One action of the executor is what runs between two awaits; `pc` names the await.
The database part is the job row (`jobState`, `waitingUntil`, `counter`) and
`itemState`; `inflight` is what the delayed flush has queued and the writer has
not committed; `buffer` is `_result_buffer`. `HandleControl`, `Schedule`, the
`Rpc...` actions and the `Flood...` and `Pause...` actions are the branches of
`_attempt_candidate`; `Finish`, `FinalState`, `ExceptState` the ends of `run()`.
A call may end with any exception of `Errors`; `ErrorPolicy` says what it means.
`queue`, `lastLoaded`, `exhausted` and `loading` are the fields of
`CandidateBuffer`: `Prime`, `Take`, `PopCandidate` and `PopWaits` are `prime` and
`pop`, `ReadChunk` is `pending_chunk` on a worker (it takes the rows as the
database has them at that moment), `Filled` is what `_finish_fill` does after its
await, `ReadFails` and `FillFails` a read that raises and the await that learns of
it. Telegram is `floodLeft`, a countdown; `Tick` is the passing of time. `answers`
and `restricted` are history: how often Telegram has given a definitive result for
an item, and whether it has told this run of a restriction (`Restrictions`).
Ordinals start at 1 here. Checkpoint text, attempt counts, `next_retry_at`, the
local interval of 3–8 s and event texts are abstracted; that a wait of less than
a second may or may not be entered is a choice. An orderly quit is a pause
followed by a crash. Two things that change none of this state are no steps: a
pause or stop that arrives before `run()` has created its events (the code accepts
and loses it), and the ACTION_FAILED event, stored or not.

### ErrorPolicy

`ErrorMapper.map` looks at an exception in a fixed order: token lists against the
name of its class, "flood_wait" in its text, its type. An exception is the set of
lists its name hits, so that one with several (`AuthKeyInvalid`) is kept apart
from one with a single hit; `Ladder` is the order, `Map` the code, and `Skips`,
`PausesJob`, `Transient` and `ItemStateOf` what `ResultClassifier` makes of it. The
classes in `MCExecutor` are those that the tests, the documents and the lists name.

### WorkflowCommands

All jobs of one account (accounts share nothing but the table, and the governor's
locks are per account). `Flows` are coordinator coroutines: resolve, precheck with
its `TARGET_SCAN` job, plan, scan. `run[j]` is where the executor of job `j` is,
`lock` the mutation lock, `cancelling` the worker tasks that will write CANCELLED.
`Normalized` is the recovery.

Any awaited write may fail (`WriteFails`, bounded by `MaxFaults`), and a state and
the event that reports it are two steps wherever that matters. `RunFails` and
`FlowFails` are what the `try` of a run, a precheck or a scan catches: a page, a
batch, the final state or the event after it; `RunFailed` and `FlowFailed` then
write FAILED, over a COMPLETED if need be. `FlowBreaksOff` is a RUNNING state or a
STARTED event outside the `try`, `RunFailureLost` and `FlowFailureLost` a write of
the except path: the coroutine ends and the row stays as it is. `fault` remembers of
each job which of the two it was. A worker that gives up a cancellation after its
10 s leaves the write in the queue, so for a patient user the command has not taken
effect before it is written or has failed.

A FloodWait may be met by a call of an executor (`Flooded`), which stores it, and by
a resolve, a precheck or a scan (`FlowFlooded`), which do not: `waitOf` is the job
whose executor met the wait that lasts, or none. Listing, joining and leaving groups
are left out, and with them the FloodWaits they meet and forget too.

### ParticipantScanner

Each coroutine has a producer, a bounded queue and a consumer that run while it
is at `"group"`. `Ingest` and `Checkpoint` are two transactions with an await in
between. The list of participants is stable and all have ids; the read slot of
the governor is left out. A quit cancels coroutines as a crash does.

### ClientManager

A step is what runs between two awaits of the loop. Clients are numbered;
`clients` is `_clients`, `stale` one bit per slot for `idle_timeout` having
passed since `last_used`; `task` has the three coroutines that disconnect. A
disconnection goes on when its caller is cancelled, as Telethon shields it; one
that raises is taken to have closed the connection.
`Overlap` allows several coroutines per account at a time; `LongCalls` a job that
holds its client for longer than `idle_timeout`.

### AccountLifecycle

`auth[x]` says which command a coroutine runs and at which await it is;
`enabling` and `deletion` are queued worker tasks. `overlapped` is history: a
command was given while an earlier one was not finished. Failing writes and the
removal of session files are left out; a deletion whose disconnection fails
leaves `deletion` where it is.

### MemberStore

`store` is the tables `members`, `dataset_members` and `peer_cache`, changed by
whole transactions. `RowOf` is the choice `_upsert_one` makes, `MergeFallback` its
merge. `CombineReads` to `CombineAddsOther` are the reads and writes of
`DatasetService.combine`, which interleave with everything. `Precheck`,
`CreatePlan` and `AddItems` are a preparation; the two reads of `CreatePlan` are
one step, because no job of the account runs between them. `Call` is a call of the
executor: its result goes to `heard`, the result buffer of the job, and reaches the
items with `Flush` or is gone with `ResultsLost`, a crash or a failing flush; a call
that times out may have taken effect all the same and is repeated or becomes FAILED.
`unrecorded` is history: who was added with nothing on record to say so. Plans are
those of one account for one target. Two accounts may prepare actions for the same
target at a time, with plans that do not know of each other; `NobodyAddedTwice` says
nothing of that. What a crash leaves of a combination or a preparation is left out.
Ids and usernames are
model values, the filters keep any subset of the candidates, provenance labels
are left out. A batch is a fold over its members; TLC ingests batches of one member,
the theorems are about batches of any length.

### ApplicationRuntime

`pc[t]` names the write an import or export waits for; `memory[t]` are its local
variables, `jobs[t]` the row of its job and the batches its dataset has. `Commit`
and `WriteFails` answer the head of the writer's queue; `GivesUp` is
`result(timeout=...)`, after which the write stays queued and is committed later:
`Raises` distinguishes the writes outside the try, those inside it and those of the
except clause. `phase` follows `stop()`: hooks (`Quit` pauses the run),
`NetworkStops`, `QueueDropped` and `WorkersEnd` (the two halves of the pool's
shutdown), `WriterStops`. `Recovered` is the recovery of the three kinds of rows.
The run is a client that reads candidates on the pool and is paused between two
calls; a read that is under way when the loop ends gives its worker back at once.
The queue of the writer (5000 writes) always has room: `submit` puts without a
timeout, so if it were full and the writer dead, a worker would hang and `stop()`
with it.
Performance mode is on while it works, and an export that is ordered then is
dropped. `unlucky` is history: the clients that lost or gave up a write. The 8 s
that the hooks and the join of the loop may take are a choice of how far the run
has got.

## The runs

| run | instance | what it shows |
|---|---|---|
| `DBWriter` | 2 routine operations that may be cancelled, 1 critical, the flush of stop; batch 2, queue 2 | durability, barrier, refinement of `WriteLog`, every answer, stop |
| `Executor` | 3 items (one unusable), chunks of 2 read ahead at 1, batch 2, 16 exceptions, a FloodWait of up to 2 ticks, a crash, a failing write or read, patient user | results neither lost nor counted twice; COMPLETED means all; calls justified; waits respected; restrictions pause; state machine |
| `ExecutorLive` | 2 items, a FloodWait | a run ends; a request is obeyed in an endless wait; the delayed flush writes while the executor hangs |
| `ExecutorSummary` (violation) | 2 items | COMPLETED with failed items |
| `Workflow` | 4 jobs, one flow, 2 FloodWaits, failing writes of 2 jobs, a crash, patient user | one executor, one action job, nothing stuck, terminal stays terminal for every type of job, waits of executors across jobs |
| `WorkflowImpatient` | 4 jobs, none of them a scan of a source, two flows, a FloodWait, any user | one call at a time |
| `WorkflowHasty` (violation) | 4 jobs, a job stopped in its wait | the wait is forgotten |
| `Scanner` | 5 listings of 4 members, pages of 1, queue 2, batches of 2, a crash, a failing page, a failing write | resumption, completeness, counting, cancellation, termination |
| `Clients` | 2 accounts, 2 coroutines, 3 clients, one of each disturbance | one client, no leak, reaper, change of credentials |
| `Account` | 2 coroutines, 2 jobs, a crash, overlapping commands | agreement of the row with itself, with jobs, with the session |
| `Members` | 2 users, a username, 2 datasets and their combination, 2 live rows, 3 ingestions, 2 jobs, calls that time out, lost results | merging, counting, foreign keys, unions, no repetition of an addition that is on record |
| `Runtime` | an import of 2 batches, an export and a run on 2 workers, a failing write, any number of timeouts, a quit at any point, a crash or a restart | whole imports, terminal jobs at rest, nothing unfinished without a worker, an orderly stop |

The properties, by run:

- `DBWriter`: `AnswersAreTrue`, `QueuedIsAnswered` (each
  queued operation gets an answer), `StopReturns`, `ImplementsWriteLog` (the
  refinement).
- `Executor`: `CountersMatchItems`, `SettledOncePerLoss`, `NoResultLeftBehind`,
  `CompletedIsComplete`, `ResultsAreFinal`, `NoCallDuringServerWait`,
  `RestrictionsPause`, `CallsAreJustified` (a call is for an open item of a RUNNING
  job), `RowFollowsStateMachine`. `ExecutorLive`: `RunEnds`, `RequestIsObeyed`,
  `ScheduledFlushSuffices`. `ExecutorSummary`: `CompletedHasNoFailures`, violated.
- `Workflow`: `OneOfEach`, `NoJobIsStuck`, `TerminalIsFinal`,
  `NoCallDuringServerWait`. `WorkflowImpatient`: `OneCall`. `WorkflowHasty`:
  `NoCallDuringServerWait`, violated.
- `Scanner`: `CheckpointIsBehindDataset` (with the count of the accepted),
  `CompletedIsWhole`, `RunningCanBeCancelled`, `ScanEnds`.
- `Clients`: `SlotsAreClients`, `ReaperSparesUsed`, `ChangeLeavesNoClient`,
  `IdleIsReaped`.
- `Account`: `DisabledIsThorough`, `JobHasAccount`, `StatusIsTrue`.
- `Members`: `TablesAreSound`, `MembersStay`, `UnionIsWhole`, `NobodyAddedTwice`.
- `Runtime`: `CompletedImportIsWhole`, `RowsAreTrue`, `TerminalJobRests`,
  `StopReturns`.

Bounds. Two operations on each side of a critical one are what coalescing and
barriers distinguish, and a queue of two fills up. Three items give a batch that is
full, one that is not, and an item that is skipped without a call. One crash and one
fault at every point of a run, and the run after it, is where recovery can go wrong;
a second crash meets a state that the first one could have left. Chunks of two of
three items, read again when one is left, give reads before, during and after the
results of the rows they follow. Four jobs hold a scan, a target scan and two
actions; in `WorkflowImpatient` they are two of each of the latter (`MCNoScans`: scans
do not take the mutation lock). Repeated listings and pages of one exercise duplicates across batches. With
two rows a fallback and a canonical row exist at a time, and a third ingestion
merges them. In `Runtime` a file of two batches has a batch that is summed up while
the next is queued; an import, an export and a run are one client more than there
are workers, so that tasks wait and are dropped; and timeouts, unlike failures, are
not bounded. Budgets (`MaxFloods`, `MaxCrashes`, `MaxFaults`, ...) are guards of the
model and no part of the code.

Several invariants are conjunctions of named parts: `AnswersAreTrue` (types,
`AcknowledgedIsDurable`, `FailedIsNotDurable`, `CriticalIsBarrier`), `OneOfEach`
(types, `OneActionJob`, `OneExecutor`), `SlotsAreClients` (types, `OneClient`,
`NoneLeaks`), `DisabledIsThorough` (types, `DisabledIsShown`, `DisabledHasNoJob`),
`StatusIsTrue` (`ConnectingIsWorkedOn`, `ReadyIsAuthorized`), `TablesAreSound`
(types, one row each, counts, foreign keys), `RowsAreTrue` (`UnfinishedIsWorkedOn`,
`QuitLosesNothing`). Every property has a mutant of the code's model that breaks
it; the mutants stand next to what they change. `TypeOK` of the executor is no
property of a run: it is proved, and `CountersMatchItems` would not be defined
without it.

Assumptions on the user are constants. `Impatient = FALSE`: no command on a job
while the write of the last one is still queued; `Hasty = FALSE`: no stop while a
job is in a call or a wait; `Overlap = FALSE` and one flow: one preparation and
one coroutine per account at a time. Without them the properties they guard are
false of the code, see below; the theorems that need them state them as hypotheses.

Some properties say when they hold: `FailedIsNotDurable` when no future was
cancelled, `NoCallDuringServerWait` when there was no crash between FloodWait and
row (and, across jobs, when an executor met the wait and no write of its job failed),
`NoJobIsStuck` of jobs whose coroutine lost no write outside of a `try`,
`TerminalIsFinal` but for a FAILED of the coroutine that stored the end,
`NobodyAddedTwice` of additions that are on record, in the database or a buffer that
was not lost, `RunningCanBeCancelled` and the last case of `RowFollowsStateMachine` when no
write failed, `OneClient` and `NoneLeaks` when no connection was lost,
`DisabledIsShown` and `DisabledHasNoJob` when commands did not overlap,
`RowsAreTrue` of clients none of whose writes failed or came late. Each exception is
a behaviour of the code that TLC shows as soon as the condition is dropped.

### Fairness

- `DBWriter`: the writer thread, the second half of a submission and of `stop()`
  are threads that the OS schedules. Nobody is obliged to submit or to stop.
- `MemberActionExecutor`: the delayed flush, the writer and the workers run
  (`Fairness`; a read of candidates is one of the things that end). `RunEnds`
  further assumes that calls return (their watchdog, 30 s) and that time passes;
  `RequestIsObeyed` does without time and `ScheduledFlushSuffices` without the
  executor itself. Crashes, floods and commands are never fair.
- `ParticipantScanner`: the tasks of the loop run, page requests answer or fail.
- `ClientManager`: what is ready on the loop runs, the reaper's sleep ends,
  disconnections end. No coroutine is obliged to ask for a client or to release it.
- `ApplicationRuntime`: the thread in `stop()` and the workers run; every wait of
  theirs has a timeout. Nothing is asked of the writer, and `StopReturns` holds
  without it. Commands, quits, crashes and restarts are never fair.

The other modules have safety properties only.

## Proofs

Every safety property of the passing runs is also a theorem, for all values of the
constants: any number of items, jobs, coroutines, members, batches and restarts, and
budgets of any size. Each proof follows the same
plan: an inductive invariant that says where things are (what is queued, what a
coroutine has in hand, which row goes with which place), checked by TLC on small
instances first; one lemma per action or group of actions that the invariant is
kept; the property as a consequence. Assumptions are the `ASSUME`s of the modules,
which only say that sets are finite or disjoint and sizes positive, and these
hypotheses of single theorems:

| hypothesis | theorems | why |
|---|---|---|
| `~Impatient` | `CallsJustified`, `NoCallWhileWaiting`, `StateMachineFollowed` (executor); `NothingStuck`, `TerminalRests`, `OneAtATime`, `WaitsRespected` (workflow) | a command while the cancellation of a job is queued revives it |
| `OneFlow` (no two elements of `Flows`) | `OneAtATime`, `WaitsRespected` | two preparations pass the same check for a free account |
| `~Hasty` | `WaitsRespected` | a stop in a server wait forgets the wait (`WorkflowHasty`) |
| `Scans = {s}` | `CheckpointBehind`, `RunningHasEvent` | a scan that is resumed twice has two coroutines and one cancel event |
| `~Overlap` | `LiveClientsInSlots`, `ChangeIsSafe` | two coroutines of one account create two clients |
| `\A x \in Restrictions : Pauses(x)` | `RestrictionsEndRuns` | what counts as a restriction is what the policy maps to a pause; the run's set satisfies it |

Each is what its run assumes too, and without it the code does otherwise, see below;
none is needed for the other theorems.

### MemberActionExecutor

- `TypeCorrect` (`TypeOK`), `Invariance` (`IInv`), `CountersCorrect`
  (`CountersMatchItems`), `ResultsFinal` (`ResultsAreFinal`). `CountersMatchItems` is
  not inductive: a routine batch adds to a counter what it adds to the items only if
  the items of the batch are still open, and `submit_mark_retry` rewrites an item
  unconditionally, so it must not meet a settled one. `IInv` therefore adds `RunInv`:
  between runs nothing is buffered or queued; results on their way belong to items
  that were popped already and, while the executor works on a candidate, that
  candidate is the last one popped and is open, in the database and behind the writes
  that are queued. `WindowIsAhead` says why the read ahead is sound: what the buffer
  holds lies beyond the last candidate popped, so no write of the run has touched it
  since it was read. `CountSplit` is the arithmetic of disjoint sets of items.
- `SettledOnce` (`SettledOncePerLoss`) and `NothingLeftBehind` (`NoResultLeftBehind`).
  `ResultsInv` pays for every answer: an item has had no more answers than there were
  crashes and failed writes, and one more only if its result is stored or on its way
  (`LossesExplained`). A run flushes before it ends or leaves its candidate to a retry
  mark (`EndsFlushed`), which is why nothing is left behind.
- `CompletedComplete` (`CompletedIsComplete`). `CoverInv`: an item is settled, at
  hand, in the window of the buffer or beyond it (`NoneForgotten`); a read returns all
  the first open rows beyond the last one loaded (`ReadIsWhole`); and `pop` finds no
  candidate only if there are none (`PopHasRows`).
- `CallsJustified`, `NoCallWhileWaiting`, `StateMachineFollowed`. `RowInv` ties each
  place of the coroutine, and the place an awaited write returns to (`Dest`), to the
  state of the row (`RowFollowsRun`), and the waits of row, scheduler and Telegram to
  each other (`WaitsAgree`, `FloodIsKnown`).
- `RestrictionsEndRuns`. Once a run knows of a restriction every place it may be at
  leads to its end (`RestrictionEnds`).

### WorkflowCommands

- `LockHeld`, `CallsAreSerial` (`OneCall`), for every user. `OneCall` says nothing of
  the lock, so it is not inductive; `WorkerHoldsLock` is what every path into, around
  and out of the loop of `run()` must keep. The paths out of it release the lock only
  where the executor leaves its candidate (`LeaveKeeps`), which the server wait does
  not do. `TypeCorrect` is for every user as well.
- `NothingStuck` (`NoJobIsStuck`), `TerminalRests` (`TerminalIsFinal`), for any number
  of overlapping flows and of failing writes. `AgreeInv` says of each executor, queued cancellation and flow
  which row it has, and conversely of a RUNNING row who works on it, or that a write
  failed where no `except` was left: what a command checked on the UI thread is still
  so when a worker or the loop writes. A coroutine in its except path finds RUNNING,
  or an end it has stored itself (`FlowRow`, `RunHasRow`); that is the one way in which
  a terminal row changes.
- `OneAtATime` (`OneOfEach`). `AloneInv` adds that at most one job is unfinished, and
  none while a flow is still to create one (`FlowIsAlone`).
- `WaitsRespected` (`NoCallDuringServerWait`). `WaitInv`: while a wait
  lasts that an executor has met, its job is unfinished and knows of it, as its
  scheduler has it, or its row, or both (`KnowsWait`), and being the one unfinished
  job it is the one that would call. Waits that prechecks, scans and resolves meet are
  outside of it; the code forgets them.

### ParticipantScanner

- `CompletedWhole` (`CompletedIsWhole`), for any number of coroutines, by
  `DatasetCorrect`: what a coroutine has come across is in the dataset or in its batch
  (`Collects`), the queue carries the pages up to the one fetched last and then the
  sentinel (`QueueCarries`), and a task is cancelled only because the other one failed
  (`GroupIsLinked`).
- `CheckpointBehind` (`CheckpointIsBehindDataset`), `RunningHasEvent`
  (`RunningCanBeCancelled`), for one coroutine, by `OneScan`: the row and the
  registered cancel event follow the coroutine, and until a write fails or the process
  dies it counts the whole dataset (`CountsAll`).

### DBWriter

- `AnswersTrue` (`AnswersAreTrue`), by `WriterInvariant`: the accepted operations are a
  sequence of which a first part is answered, a second one is held by the writer
  (pending, in the batch, or the critical one at hand) and the rest is the queue, with
  the sentinel somewhere in it (`QueueLayout`, `WriterLayout`). A cancelled future
  breaks that order, so what the layout says of answers holds of runs without one;
  that an acknowledged operation is in the log holds always (`Bookkeeping`).
- `WriteLogImplemented` (`ImplementsWriteLog`): every step of the writer is a step of
  `WriteLog`, under the mapping of futures to statuses, or leaves log and statuses as
  they are.

### ClientManager

- `ReaperSpares` (`ReaperSparesUsed`), whatever overlaps, by `ClientsHoused`: a slot
  in use by anyone but a job is not stale.
- `LiveClientsInSlots` (`SlotsAreClients`), `ChangeIsSafe` (`ChangeLeavesNoClient`), by
  `ClientsExclusive`: a client that is being connected is new and its slot empty, one
  in a slot is not being disconnected, and while no connection was lost the slots hold
  every live client.

### AccountLifecycle

- `TypeCorrect` (`TypeInv`). `TypeOK` bounds the waiting and the running jobs one by
  one; a crash makes the latter the former, so `TypeInv` bounds the sum.
- `JobsKeepAccount` (`JobHasAccount`).
- `StatusCorrect` (`StatusIsTrue`). `StatusInv` follows a coroutine from what it has
  written and heard to what it will write: one that has heard of a login is right
  unless Telegram has ended it since (`IdentityIsAuthorized`), and CONNECTING has an
  author that is still to write another status (`ConnectingHasAuthor`), which needs
  that `sign_in`, the one that may end without a status, never writes it
  (`SignInsDoNotConnect`). All that is not a coroutine is `Aside`.
- `DisabledCorrect` (`DisabledIsThorough`). Unless commands overlap, a coroutine works
  on an enabled account that nobody is about to disable (`WorkIsAlone`), and a
  disabling that waits has no job to wait for (`DisablingHasNoJob`): that is why the
  check of the command still holds when the worker writes.

### MemberStore

- `TablesSound` (`TablesAreSound`), `NoMemberLost` (`MembersStay`), `UnionsAreWhole`
  (`UnionIsWhole`), `AddedOnce` (`NobodyAddedTwice`), for batches of any length. The
  transaction of a batch is a fold (`FoldLeft`), and what every member keeps the fold
  keeps: `FoldExists` shows that the function the fold is taken from exists,
  `FoldKeeps` that its values stay in a set that `IngestOne` does not leave. Both are
  inductions over a number; the prover cannot instantiate the library's induction
  theorems, which take a predicate, so `UpTo` takes the set of the numbers for which
  something holds, and finds the largest in it (`LargestExists`, from `WFMin`).
  `IngestMerges` reduces what a member does to the tables to one row written and at
  most one merged into it, `MergeKeepsSound` shows that this keeps ids and usernames
  unique, that no dataset grows by it but the one ingested into, and that whoever
  leaves a dataset was merged (`Later`). `LaterStill` makes that of a whole batch.
- `TablesInv` needs `Later` for what happens between the transactions of a
  combination: a deleted row stays deleted, and what is in the combined dataset stays
  unless it is merged away (`CombineHasRead`). `JobsInv` needs only that a row keeps
  its id (`RowsLast`): items refer to rows with ids (`ItemsHaveIds`), which no merge
  deletes; whoever was added is an item of a job that plans look at, or a result in the
  buffer of the one job that runs, or `unrecorded` (`AddedAreKnown`); what is buffered
  belongs to open items of a job that is not over (`BuffersAreOpen`); and nobody still
  to be invited has been dealt with (`InvitedAreNew`, which rests on `OneAtATime`: one
  job or preparation). `AddedOnce` is as strong as the code allows: without either of
  the two exceptions TLC finds a second addition.
- The proof found that `MembersStay` was too strong as it first stood (the row merged
  into has the username): the same batch may rename the user once more. It now speaks
  of the user that was found under the username.

### ApplicationRuntime

- `ImportsWhole` (`CompletedImportIsWhole`), `RowsTrue` (`RowsAreTrue`),
  `TerminalRests` (`TerminalJobRests`), by `RuntimeInvariant`. What a task has queued
  at the writer follows from where it is, or from its having given up (`QueueFollows`),
  and two writes of one task are queued only if the second reports a failure of the
  first (`Ordered`). The dataset, the local variables and the state of the row agree
  with that (`DatasetFollows`, `StateFollows`). `PoolInv` says that the pool is empty
  and its workers have ended before the writer stops, `NetInv` the same of the run.

### Only model-checked

Liveness under fairness and what rests on ENABLED (`QueuedIsAnswered`, both
`StopReturns`, `RunEnds`, `RequestIsObeyed`, `ScheduledFlushSuffices`, `ScanEnds`,
`IdleIsReaped`), which the proof system does not reach, and the two runs that expect a
violation.

## Where code and documents disagree

Shown by a run:

- `ExecutorSummary`: a delayed flush in flight when the run ends is missed by the
  summary (`migration/executor.py:564`): COMPLETED although items failed.
- `WorkflowHasty`: a stop in a server wait forgets the wait of the account
  (`migration/executor.py:263`, `jobs/repository.py:407`).

Found while modelling, without a run of their own; dropping the named condition or
enabling the named constant makes TLC show them:

- A FloodWait met by a precheck is swallowed (`migration/precheck.py:41`), one met by a
  scan makes it FAILED without a wait (`telegram/participant_scanner.py:244`), one met
  by a resolve ends the flow (`workflows/coordinator.py:192`): nothing knows of the
  wait, and the next action job of the account calls inside of it, although
  `LOCKED_SPEC.md:18` says "Server wait overrides local scheduling." and
  `docs/USER_GUIDE.md:92` that a FloodWait is respected exactly
  (`waitOf = NoJob` in `NoCallDuringServerWait`).
- A future cancelled between `done()` and `set_result` kills the writer, whose
  `finally` commits the batch a second time (`runtime/db_writer.py:142`; see
  `Reapply`).
- A job goes from PAUSED to WAITING_SERVER (`migration/executor.py:466`), which the
  state machine does not allow (exception in `RowFollowsStateMachine`).
- A crash between a FloodWait and the WAITING_SERVER row loses the wait
  (`migration/executor.py:365`; the condition `crashes = 0`).
- An impatient user's resume brings back a job that a queued task cancels
  (`runtime/handlers/workflow.py:291`; `Impatient`).
- Two preparations that overlap leave two unfinished action jobs
  (`runtime/handlers/workflow.py:131`; two flows).
- A scan resumed twice has two coroutines and one cancel event: the first one can no
  longer be cancelled (`telegram/participant_scanner.py:73`; `docs/USER_GUIDE.md:39`
  says that a running scan can be; `Scans <- MCTwoScans` makes
  `RunningCanBeCancelled` fail).
- A scan stopped while READY is cancelled and then runs
  (`telegram/participant_scanner.py:80`; `Impatient`).
- A failing SCAN_STARTED or TARGET_PRECHECK_STARTED event leaves a RUNNING job
  without a coroutine, which locks its account until a restart
  (`telegram/participant_scanner.py:87`, `workflows/coordinator.py:133`; the condition
  `writeFaults = 0`, `fault` in `NoJobIsStuck`). So does a failing flush, or FAILED
  itself, in an except path (`migration/executor.py:592`).
- The event that reports the end of a run, a precheck or a scan is inside the `try`:
  when it fails a COMPLETED that is true becomes FAILED (`migration/executor.py:572`,
  `workflows/coordinator.py:154`, `telegram/participant_scanner.py:222`; `fault` in
  `TerminalIsFinal`).
- A member added by a call that timed out (`migration/executor.py:333`), or whose
  result is lost in a crash or a failing flush (`migration/executor.py:194`), is added
  again by a later plan once they have left the target (`unrecorded`).
- A failing page cancels the consumer before the queue is drained
  (`telegram/participant_scanner.py:206`).
- Two coroutines that connect one account create two clients, one of which can
  never be disconnected (`telegram/client_manager.py:67`; `Overlap`).
- A client being connected while credentials change is kept with the old ones
  (`telegram/client_manager.py:62`).
- An account disabled while it is being authenticated may be shown as READY
  (`runtime/handlers/account.py:88`; `overlapped`).
- A process that dies while connecting leaves CONNECTING behind
  (`telegram/auth_service.py:92`; the condition `crashes = 0`).
- A merge of two rows leaves `member_count` of other datasets too high
  (`members/repository.py:223`; `CountCoversMembers` is an inequality for that reason).
- A combination whose rows are merged away half way fails and leaves a part of
  its dataset (`datasets/service.py:45`).
- An import whose IMPORT_STARTED event fails or is late stays RUNNING and locks its
  account until a restart (`import_export/service.py:80`; `unlucky`).
- An import or export whose completion event is late turns from COMPLETED into FAILED
  (`import_export/service.py:125`; the last case of `TerminalJobRests`).
- An exception that says that the own account is deactivated (`UserDeactivatedBan`)
  hits only the list of invalid users and skips the candidate
  (`telegram/error_mapper.py:28`); so does one about the target
  (`ChannelInvalid`), for every candidate. `Restrictions` does not have them.
- An account that is disabled while its job runs makes every further candidate
  FAILED, as its clients are refused with an exception that maps to UNKNOWN
  (`telegram/error_mapper.py:97`).
- A READY job without its items is visible between two transactions
  (`migration/planner.py:136`).

## Not modelled

The gateway's requests and the peer cache beyond the presence of an access hash,
the formats of imported and exported files and the exports of logs and results
(pure file I/O that writes no row), groups, the event and command buses, the state
store beyond code hashes, settings, the account state resolver and all of the user
interface: they keep no state that the properties above depend on. The loop of the
network runtime appears as interleaving.

## Plan

1. Done: writer, executor with candidate buffer and error policy, workflow commands,
   scanner, clients, accounts, member store, imports, exports and the end of the
   process.
2. Done: theorems for every safety property of the passing runs, the refinement of
   `WriteLog` included.
3. Next, abstract specifications whose refinement can be proved on top of the
   invariants there are: a job as seen by the user (settled items, final state),
   implemented by `MemberActionExecutor`; a scan as a growing set with a checkpoint,
   implemented by `ParticipantScanner`.
4. Left to model: two accounts that prepare actions for one target at a time, the
   commands on groups and their FloodWaits, provenance labels in `MemberStore`, the
   addition of accounts, the cache of peers in the gateway.
