# Pheasant: TLA+ models of the indexing core

Pheasant indexes folders, repositories and remote sources into a knowledge
base: rows (artifacts, chunks) in SQLite or Postgres, a graph published beside
them, a manifest per source that says which content hashes are indexed. This
directory models the parts of it where an error is expensive and hard to test:
who may index a source, how work is handed out, in which order the durable
writes of a pass happen when processes die between them, and the protocols by
which jobs, graphs, evaluations, experiments, memories and logs survive the same.

Source paths below are relative to the package `src/pheasant`.

## 1. Inventory

| Component | State it keeps | Operations | Hard behaviour | What makes it correct |
|---|---|---|---|---|
| `LocalQueue`, `drain`, `_keepalive` (`sync/queue.py`) | table `index_tasks`: status, attempts, visible_at, enqueued_at | publish, claim, ack, nack, dead letter, heartbeat, requeue_dead, purge_completed | claim races, visibility timeouts, late acks and nacks, crashes, poison tasks | one holder per task, at least one run per request, at most max_attempts runs, nothing stuck |
| `SourceLease`, `source_lock`, `SyncEngine._source_write_lock` (`sync/locks.py`, `sync/engine.py`) | table `source_leases`, a lock file per source | acquire, heartbeat, release, create, clear stale, remove | several processes, threads sharing an owner string, crashes, restarts, missed heartbeats | one indexer writes a source; a dead one does not lock it for good |
| `SyncEngine.sync_source`, `checkpoint_graph`, `_finalize_index_state`, `_apply_index_task`, `startup`, `close` (`sync/engine.py`) | rows, published graph, manifest, source fingerprint, full-resume marker; in memory: graph, manifest of the pass | incremental, repair and full pass; checkpoint; resume of a full task | death between durable writes, edits during a pass, configuration changes | a finished pass equals a fresh index; the manifest is never ahead |
| `NatsQueue` (`sync/queue.py`) | JetStream stream, consumer, dead-letter subject, duplicate window | publish, claim, ack, nack, requeue_dead | redelivery on ack timeout, publish-then-terminate, replay of dead records | no task lost between two steps, bounded deliveries, every task settled |
| `EngineLease` (`sync/locks.py`) | lease file per state directory | acquire, heartbeat, release | read-then-write race, unconditional heartbeat, one temporary file for all writers, engines of one process | one writer process on SQLite, outside known windows |
| `_OrchestrationSupervisor`, `_QueueDrainer` (`cli.py`), `SyncScheduler`, `SourceWatcher` (`sync/`) | lease row, leadership, loop threads, the sync lock of the process | elect, heartbeat, promote, reconcile, demote, drain, shut down | joins that time out, threads revived by a second promotion, lost leases, heartbeats that hang, a drainer that ends with an exception | one holder, demoted processes go quiet, published tasks are claimed |
| `JobRegistry`, `JobSnapshotStore` (`jobs.py`) | jobs and their order, snapshot files | create, progress, finish, evict, clear | ids shared by redelivered tasks, snapshots written after the lock | what is shown as running runs; what runs is not forgotten |
| Graph rows (`graph/simple.py`, `persistence/graph_rows.py`) | memory graph with pending sets, node and edge rows, fold and counts, generation id | add, remove, save | changes during a save, cascades, deaths between transaction and publication | rows follow the graph; the generation names the rows |
| Graph refresh (`persistence/graph_store.py`, `sync/graph_events.py`, `_GraphRefresher`) | graph file, metadata, announcements, stamps of replicas | publish, announce, poll, reload | lost announcements, publications between a load and its stamp | replicas come to serve the newest generation |
| Worker pool (`sync/worker_pool.py`) | breaker per endpoint, rotation | order, probe, dispatch, record | callers acting on a stale order, half-open slots | a dead worker is cheap, a recovered one returns |
| Evaluation runs (`evaluation/`) | run row, lease, checkpoints | enter, open or resume, replay, report, reclaim | two attempts of a process, reclamation of a resumed run | one attempt, reports stay, checkpoints survive |
| Tuning (`tuning/`, `search/ranking.py`) | experiment row, trials, lease; bundles, cached overlay | claim, trial, cancel, prune, close; apply, roll back | rows without a heartbeat; applies in two statements | one attempt works; the fleet ranks with what was asked for |
| Memory (`memory/`) | record files, index, projection rows | write, fold, revive, correct, sync, consolidate | rows rebuilt from older listings, a pass beside a sync or another pass | what a writer was told is held is served; what was corrected is not |
| Log tier (`telemetry/interactions.py`, `sync/log_queue.py`) | ring, `log_tasks`, spool, hot rows, partitions | record, flush, persist, ingest, roll, expire | roll and delete not atomic, redelivery, several rollers | events neither lost silently nor doubled silently |
| Ingestion, graph building, search, API, MCP, assistant, configuration, security, sandbox, deployment, readiness, synapse | mostly request-local | – | – | not protocol state; see `PROJECT.json` |

How they interact: `sync_all` publishes one task per source into the queue and
drains it with several loops; other indexers drain the same table. The handler
of a task calls `sync_source`, which takes the source write lock, reads the
manifest, and commits. The scheduler, the watcher, the API and `startup` call
`sync_source` directly. Which process runs the scheduler, the watcher and the
drain loop is decided by the orchestration lease. Replicas read what was
published. Evaluation, tuning, memory and the log tier keep state of their own
in the same store and meet the rest through the scheduler's beat.

## 2. Modules

`IndexRequests` – the abstract ledger: a request is handed to one worker at a
time, closed only by that worker, and given up after exactly `MaxAttempts`
deliveries.

`TaskQueue` – the table and the drain loops. One action per SQL statement; the
claim is two (`ClaimSelect`, `ClaimUpdate`), since under Postgres' READ
COMMITTED the subquery may have picked a row that is no longer claimable when
it is locked. `visible_at` is kept as "has passed", `enqueued_at` as the set of
older rows, `attempts` saturates one above the limit (no guard tells larger
values apart). `deliveries` is a history variable: handler starts since the
task was last armed. The same claim serves `LogQueue`.

`SourceWriteLock` – the Postgres path of `_source_write_lock`: the lease row,
its heartbeat threads, and the lock file with its two-step creation (`open`
with `"x"`, then the JSON). Writers are threads of processes; the owner string
is `host:pid`.

`SyncCommit` – one source, its durable state and one pass at a time (the write
lock's guarantee). Each durable write is an action, so `Kill`, `Close` (which
publishes the graph without a manifest) and `Fail` (the pass raises, the
process and its graph live on) fall between any two of them. A row, a node or a
manifest entry is represented by the content version and the configuration it
was made from. `_needs_repair`'s comparison of chunk counts is represented by
the content version alone. Deleted files are outside the model: incremental
passes do not prune them, by design.

`NatsQueue` – the same drain loop over JetStream. The broker is external: it
delivers, redelivers when nobody answers, takes the answer of an earlier
delivery, and remembers publication ids for a while. `claim` sets no limit on
deliveries; `nack` of a spent task publishes a dead record and then terminates.

`Orchestration` – several indexers, one lease row, and in each the election
thread, the loops and the gate (`sync_lock`). A loop is a number of threads,
because `stop` sets an event and joins with a timeout: a thread that works or
waits for the gate outlives it, and a later `start` clears the event. A heartbeat
arrives, fails and is counted (`HeartbeatFails`), or loses time without raising
anything (`Stall`): then the row can go stale under a holder that learns of it
from its next beat (`HeartbeatLost`). A claim, ack or nack that raises ends the
drainer's thread while the process leads on (`DrainerRaises`).

`JobRegistry` – the registries of several processes and the snapshot files they
share. A job's thread changes its record under the lock and writes the snapshot
afterwards. `orphan` is a history variable: no writer is left behind a snapshot.

`GraphRows` – the memory graph, what the rows still owe it, and a save in its
four steps (`graph_delta`, `apply_delta`, `clear_graph_delta`, `publish`). The
XOR fold of row digests is kept as the set of rows folded in: a row folded twice
is out again, as with XOR. `GraphRefresh` – the file backend: the indexer
replaces the graph, then its record, then announces; replicas load, note the
generation, stamp, wake by event or interval.

`EngineLease` – the lease file of a SQLite state directory. A write is three
steps, by `acquire` and by the heartbeat alike: `open("w")` truncates the one
temporary file all writers share (`OpenTemp`), the payload goes where the handle
is (`DumpPayload`), even if another writer has meanwhile renamed that file over
the lease, and the file is renamed, whatever is in it by then (`RenameTemp`) or
not there any more (`RenameFails`). A file that is empty or no JSON is free for
anyone. `windows` records through which of five known gaps an engine went, so
that `EngineExclusive` can say there is no sixth; `EvaluationRuns` uses the same
device.

`EvaluationRuns`, `TuningRuns` – attempts at one run row or one experiment row:
the lease, which names a process and lets all its threads in, the claim in
separate statements, checkpoints or trials, the close, beats and reclamation.
`TuningOverlay` – applying and standing down a bundle in the statements the code
commits, and the cache every replica ranks with.

`LogTier` – from the ring of a request's event to a cold partition: three sinks,
the logger's claim, spool ingestion, rolling day by day, retention.

`RemotePool` – the callers of `WorkerPool`: order, probe, dispatch, record, each
a lock scope of its own, over endpoints whose health changes. The list `_order`
returns is given by what it is (`Orders`: the available endpoints, once each, by
their place in the rotation), which leaves exactly one list.

`MemoryRecords` – record files, their index and their rows. A record is a claim
and the second it was written; a write folds into a record, revives an archived
one under its old id, or makes a new one. A sync lists the files, reads them,
commits their chunks, lists again for the rows and saves the manifest last; it
only adds to the index, and a listed file that is gone ends it. What is archived
leaves the index through the consolidating pass alone. Syncs exclude each other;
a pass runs beside them and beside other passes: it leaves serialization to its
callers, and of the scheduler's beat, the endpoint and the MCP tool only the
first takes a lock. Each pass archives, by path, what it listed when it began; a
listed file that another pass has archived ends it (`ArchiveFails`), and one that
came back in between is archived all the same (`met`, `lapsed`). Two things are
simpler than the code: an append is one step, although its look at files and rows
and its write are separate and take no lock, and writes of one claim are more
than a second apart, so that a digest is never taken by an ended live record of
the same second.

`MCWriters` – one TLC model for `SourceWriteLock` and `MemoryRecords`, which share
nothing in memory: a behaviour picks one of them and runs it alone.

`MCParts` – the same for the eleven other components from `NatsQueue` to `RemotePool`. The
state space is the sum of theirs and one run checks them all. It also holds their
fairness.

`MC*.tla` and `*.cfg` are the instances; `*Proofs.tla` hold the theorems (eight
modules, most for several components: `RunProofs` for `EngineLease`,
`Orchestration`, `EvaluationRuns` and `TuningRuns`, `DeliveryProofs` for
`NatsQueue` and `LogTier`, `ServiceProofs` for `RemotePool` and `JobRegistry`,
`PartsProofs` for `GraphRefresh`, `TuningOverlay` and `MemoryRecords`, and for the
composition). Each component has its own specification (`LeaseSpec`,
`FleetSpec`, ...), which the theorems are about. The definitions commented "Mutant:" are deliberate errors used to test that the
properties can fail; no specification uses them.

## 3. Runs

| Run | Instance | Result |
|---|---|---|
| `queue_safety` | 3 workers, 2 tasks, 2 attempts, 1 requeue-dead; keepalives on time | `ExclusiveDelivery`, `NoLostRequest` and the refinement `ImplementsRequests` hold |
| `queue_live` | 2 workers, 2 tasks, handlers may stall, purge allowed | `BoundedDelivery` and `EventuallySettled` hold |
| `queue_stall` | as above with 1 task, stalls | **`NoLostRequest` fails**: a late ack closes a re-armed request |
| `writers` | the lock: 3 processes, one writer each, 2 restarts each; memory: 2 claims, 3 writes, 2 passes, 1 fault | `IndexersExclude`, `WriterKeepsFile`; `MemoryHolds`, `MemoryIsTrue` hold |
| `lock_live` | 1 process, 2 threads, stalls, 2 restarts with new identity | `NeverBricked` holds |
| `lock_threads` | 2 processes with 2 threads | **`IndexersExclude` fails**: threads share one lease row |
| `lock_restart` | restart keeps hostname and pid | **`NeverBricked` fails**: own stale file counts as active |
| `commit_crash` | 2 files, 2 configurations, 2 edits, 2 deaths | `PassConverges`, `ManifestIsBacked`, `IndexHeals` hold |
| `commit_fullkill` | a full pass dies before its first checkpoint | **`PassConverges` fails**: stale manifest, empty index |
| `commit_revert` | an edit is undone after a pass died | **`PassConverges` fails**: undone text stays indexed |
| `parts` | the eleven components of `MCParts`, two or three actors each | the type invariant and the 25 properties below hold |
| `rows_stale_edge` | one edge, changes only between saves | **`RowsMatchGraph` fails**: a node removed and added again keeps its old edges in the rows |

What `parts` shows, component by component, and `writers` of memory:

| Component | Properties |
|---|---|
| jobs | `JobBoardIsTrue`: a snapshot that says running has a thread behind it (unless its process died or could not write), and no process forgets a job it runs |
| fleet | `HoldersExclude`: a holder whose beats fail gives up before another may take the row, unless a heartbeat stalled; `DemotedQuiesces`: every outliving or revived thread ends; `BacklogDrains`: published tasks are claimed, unless the leader lost its drainer |
| nats | `NoTaskLost`: a terminated message has its dead record, an acknowledged dead record its replay; `DeliveriesBounded`: max_attempts plus the faults; `TasksSettle` |
| rows | `NoWriteLost`, `NoDanglingRow`, `GenerationNamesRows` |
| refresh | `ReplicasCatchUp`, even if no announcement arrives |
| lease | `EngineExclusive` outside the windows *race*, *stall*, *sibling*, *temp*, *late* |
| evaluation | `OneAttempt`: one attempt at a time outside the windows *second* (a process starts another attempt beside its own, whose lease lets it in), *unguarded* (the lease statement fails and the attempt goes on without it) and *stalled* (a living holder could not beat for the whole stale window); `ReportStays`: a settled row is not touched, unless one of these was used, an attempt was interrupted after its report (*late*), or a resumed run was reclaimed (*raced*); `CheckpointsSurvive`, `RunningEnds` |
| log | `NoSilentLoss`, `ColdOnce`, `EventsArrive` |
| pool | `NoLeakedProbe`, `DeadWorkerIsCheap`, `RecoveredReturns` |
| tuning | `OneTuner`: one attempt works, with the lease or without it, unless a row looked abandoned while its owner lived |
| overlay | `OneOverlay`: one bundle is active, and between acts the one the last act asked for; `OverlayFollowed`: the fleet comes to rank with what was last asked for |
| memory | `MemoryHolds`: nothing is archived that was not corrected (unless it came back after a pass had listed it), chunks of archived records are about to be dropped, and what the manifest has is indexed; `MemoryIsTrue`: what a writer was told is held is served unless it was corrected; what is corrected or archived is not |

`PartsTypeOK` is the type invariant of all eleven. Where a property has an
exception ("unless"), the exception is a history variable set at the one step
that opens the window, so the run says that the window is the only way in. These
exceptions are what the code really allows:
- a node written again between `graph_delta` and `clear_graph_delta` is
  forgotten with its older version (`overtaken`);
- a save that dies between its transaction and its publication leaves an old
  generation id over new rows (`unnamed`);
- a reload that fails is not retried before the next publication, because the
  stamp is remembered first (`missed`);
- events appended to a spool file between its read and its unlink are lost
  (`appended`); a second cold copy has the three causes in `twice`;
- an inserted experiment has no heartbeat before its first phase (`robbed`);
- overlapping applies leave two active bundles (`muddled`);
- a record revived while the pass is about to drop it loses its index entry
  until it changes; one archived by a pass that dies or meets another, or while a
  sync is about to commit it, keeps its chunks until a full sync (`torn`);
- a record that one pass archives and a writer revives is archived again by a
  second pass that had listed it before, although nothing may correct it any
  more (`lapsed`). That takes two overlapping passes; the case without a
  correction also takes four writes of three claims, beyond the bounds of
  `writers`, and is covered by the theorem `MemoryIsKept`;
- a holder of the orchestration lease whose heartbeat hangs, or whose process is
  paused, past the stale limit still takes itself for the leader until it beats
  again (`stalled`);
- a drainer that ended with an exception is not replaced while its process leads
  (`Deserted`): the backlog waits for another leader or promotion;
- two writers of the engine lease that meet in `engine.lease.tmp` can publish an
  empty, mixed or foreign file (*temp*), and a heartbeat write that outlasts the
  join of `release` brings back a lease its owner has let go (*late*).

The failing runs are the project's findings; `PROJECT.json` quotes the lines
of the repository they contradict. Each switch that separates a passing run
from a failing one (`Stalls`, `Purging`, `SameIdentity`, `FullDies`, `Reverts`,
and the number of `Slots`) is a constant, so what a passing run assumes is
written in its configuration. `MidEdit` (a configuration change while a pass
lies interrupted) is FALSE in all of them: set to TRUE in `commit_crash` TLC
finds `PassConverges` violated within 14 states, because the fingerprint that
would trigger a full pass is only written when a pass ends.

Bounds. Two tasks are needed for the claim order and for a subquery that picks
another row; three workers give a holder, a late claimant and a fresh one. Two
attempts separate retry from give-up. Three processes give a holder, a waiter
and a taker-over; two restarts let a dead owner's leftovers meet a second
death. Two files separate a partial pass from a finished one, two deaths let a
recovery be interrupted itself, two edits let one fall in a pass and one
between passes, two configurations are what escalation compares.

The bounds of `parts` are one more than what separates the cases: two job ids
over a cap of one make every finish evict; two elections and one fault give a
takeover and a revived thread; two attempts, two messages and two faults give a
dead letter, its replay and a death in between; two edits give an addition and
a change or a removal inside a save (the row properties are proved for any
number); three engines over two processes give a sibling and a rival of the
lease and of an evaluation; `MaxWindows` = 0 ends a behaviour of the lease with its
first window, after which `EngineExclusive` says nothing; one fault of the fleet is
a failed or stalled heartbeat, a drainer's error, a death or a shutdown; two tuners are attempts of one process, between
which the lease is no safeguard (`OneTuner` is proved for any set of them); one
replica suffices where replicas do not interact; two events over a ring of one, two rollers and one fault give every drop, double and
deferral; three acts give an apply, an overlapping apply and a roll back. In `writers`, three
writes give a claim, its correction and its re-assertion, and the one
`MaxMemoryFaults` is a sync or a pass that dies, a projection that fails, or a pass
that begins beside another; more of each is left to the theorem. A stop is no deadlock
where the bounded inputs are used up, so the run does not check deadlock.

## 4. Fairness

- Queue: a drain loop polls until stopped and executes what it started; a
  handler ends (the sync child has a deadline); time passes. `Bury` is strongly
  fair: a process does not die between the same two statements for ever.
- Lock: writes keep being requested, a writer past the lease proceeds, a
  heartbeat that no longer comes ages out. `Acquire` is strongly fair: it polls
  every fraction of a second for `lock_timeout_seconds`, and the scheduler asks
  again. Timeouts and crashes are not forced.
- Commit: `WF(SyncSource("incremental"))` is the scheduler beat,
  `WF(PassStep)` a pass that does not die. Edits and deaths are bounded, so the
  property is about what happens after the last of them.
- The eleven components (defined in `MCParts`): threads that have begun a step
  take it, time passes (rows age, `ack_wait` ends, breakers cool, caches
  expire), and periodic beats come round (`Reclaim`, `SyncStep`, `WakeUp` at the
  poll interval). A behaviour runs one component, so the conditions `Clock`,
  `Beat`, `Background` and `Work(p)` each serve several components, which keeps
  TLC's search short and asks no more than a condition each would. Faults,
  publications, requests and operator commands are never forced.
  `BacklogDrains` alone also assumes, in its statement, that the drainer's way
  to the gate is strongly fair (`DrainerGetsIn`): the other loops hold the gate
  for a round and then wait for their interval. A stalled heartbeat runs again,
  and then finds its row gone (`Background`); no drainer is assumed to survive.
- Memory (`MemoryFairness` of `MCWriters`): the scheduler keeps syncing the memory
  source, and a pass that has begun goes on or dies. Writes and passes are never
  forced.

## 5. Proofs

`TaskQueueProofs` (any tasks, workers, limits):
- `TypeCorrect`, `DeliveryIsBounded` hold without further assumptions. The
  argument for the bound: `deliveries` never exceeds `attempts` unless the row
  is armed again, and a claim that would exceed the limit buries.
- `DeliveryIsExclusive`, `RequestsAreServed`, `QueueRefinesRequests` assume
  `~Stalls` and `~Purging`. None is inductive alone; `PromptInv` adds that the
  holder's row is inflight and invisible with the holder's own attempt count
  (`HolderOwnsRow`), that deliveries and attempts agree (`ExactCount`) and that
  the rows an operator is about to replay are still dead (`BatchIsDead`). The
  refinement proof maps every action to one abstract step or a stutter.

`SourceWriteLockProofs` (any processes and restarts):
- `LockTypeCorrect`; `SourceIsExclusive` for timely heartbeats and one writer
  per process, by `LockInv`: whoever is past `acquire` owns the lease row, and
  whoever is past `open` owns the file.

`SyncCommitProofs` (any files, configurations, edits and deaths):
- `CommitTypeCorrect` holds without further assumptions.
- `PassesConverge` and `ManifestsAreBacked` assume `~FullDies`, `~Reverts` and
  `~MidEdit`; the runs `commit_fullkill` and `commit_revert` show that the code
  needs the first two for `PassConverges`. `CommitInv` is the strengthening:
  the label of the pass bounds what the resume marker may say (`Control`);
  nothing is newer than its file (`NoneNewer`); stored and in-memory manifests
  are backed by tables, memory graph and, once saved, the published graph
  (`StoredBacked`, `PassBacked`); what a pass dealt with is up to date
  (`Progress`); and configurations mix only where the fingerprint differs from
  the running configuration and so forces a full pass (`OneConfig`). A pass that
  ends then has rows and nodes neither older (`PassBacked`) nor newer
  (`NoneNewer`) than the file, made under the right configuration (`OneConfig`).

`RunProofs` (any processes, engines, indexers, elections, attempts and faults):
- `EngineIsExclusive`, by `LeaseInv`: as long as `windows` is empty, whoever
  holds is named by the file (`HolderNamed`) and whoever has read the file and is
  about to act judged it rightly (`JudgedRightly`). The second is what carries the
  proof over the gap between reading and writing the file. The lemmas
  `RenameNamesHolder` and `UnlinkSeesNone` are its two hard steps: a rename that
  opens no window publishes the payload of an engine that may have it.
- `HoldersAreExclusive`, by `FleetInv`: the row of a holder that has not stalled is
  no older than the failures it has counted and names it (`HolderIsFresh`), so that
  nobody else's election statement can match. This is where
  `GiveUpAfter <= StaleAfter` is used.
- `AttemptsAreExclusive`, by `AttemptInv`: without a window past the lease a live
  attempt owns the lease and is alone. `ReportsStay` and `CheckpointsLast` are
  action properties; they need in addition that what an attempt read of the row
  is still so when it writes (`RowAsRead`).
- `TunersAreExclusive`, by `TuneInv`: until a row is taken from a living owner,
  the one at work owns the row (`WorkerOwns`) and an owned row is running
  (`OwnedRuns`); whoever is about to insert beside a row does not own that one
  (`InsertsBeside`).

`GraphRowsProofs` (any finite set of nodes and any edges between them):
- `WritesArrive` and `NoRowDangles`, by `OwedInv`: where rows and memory differ
  the difference is due or in the delta in hand (`Owed`, `LeftOwed`), what is due
  fits the memory graph (`DuesFit`, `DeltaFits`), and applying the delta in hand
  would leave rows without dangling edges (`TargetClosed`).
- `GenerationsNameRows`, by `NameInv`: the fold is the set of the rows' digests
  and the counts are their cardinalities at every step, the cascade of a removed
  node included.

`DeliveryProofs` (any workers, messages, limits, events, rollers and faults):
- `TasksAreKept`, by `LossInv`: whoever may forget a task has seen to its copy
  first (`CopiesExist`), the publication ids the broker remembers included.
- `DeliveriesArePaid`, by `CountInv`: a delivery count, plus the loops that may
  still answer an earlier delivery (`Nakers`, `Stale`), fits the budget of
  max_attempts and the faults so far; each late answer has been paid for by a
  fault. The sets of loops are counted, hence finitely many workers.
- `EventsAreCounted`, by `KeptInv`: what is about to be forgotten (a claimed
  batch, the spool file, the rows of a day) has been written (`WrittenStored`).
  `ColdRowsAreSingle`, by `ColdInv`: while nothing has gone wrong for an event,
  one roller at most has its row in hand and has written it at most once.

`ServiceProofs` (any callers, endpoints, thresholds; any processes, ids, caps):
- `ProbesAreReturned` is inductive once a candidate list is known to be non-empty
  while its head is tried (`ListsAreUsable`).
- `DeadWorkersAreCheap`, by `CheapInv`: for a breaker that is open and cooling,
  the dispatches wasted on it plus the callers that still have it on a list read
  earlier (`Armed`) are at most all callers but one. The one is whoever opened
  it: a list names an endpoint once. Hence at least one caller, finitely many.
- `BoardStaysTrue`, by `JobInv`: what a thread has yet to write says how far it
  is (`Tied`), so no thread ends with an older payload behind it; and only ended
  records leave an order, where the lemmas `Ranks` and `WithoutKeeps` show that
  every other entry keeps a place.

`PartsProofs` (any replicas, bundles, actors, claims, interleavings and deaths):
- `ReplicasKnow` and `ReplicasAdvance`, by `RefreshInv`: neither a stamp nor a
  served generation is ahead of the file (`NoneAhead`), and a replica that has yet
  to take its stamp serves the file or has missed a change (`StartsCurrent`).
  `NotedIsServed` and `NeverOlder` are the safety half of `ReplicasCatchUp`: a
  replica whose stamp ran ahead of its graph would never look again.
- `OverlayIsOne`, by `OverlayInv`: an act nobody overlapped is the only one
  (`CleanIsAlone`) and finds the rows as its last statement left them
  (`CleanFinds`); until something is muddled the active rows follow the statements
  of the one act (`RowsFollow`). It rests on `OverlayChosen`: `active_overlay` is
  an active row if there is one, since a bounded set of naturals has a greatest
  element (`HasGreatest`, from the library's well-foundedness of `<`).
- `MemoryIsKept`, by `MemoryInv`, for any number of overlapping passes. Nothing is
  forgotten because whatever a pass has on its list was corrected when listed and
  has not come back since (`CorrectionsKept`): a write that lifts a correction
  makes a record that is not live (`NewRecordIsNew`, which needs `IdsPast`: no id
  is from the future), and every pass that has it on its list meets it
  (`WriteMeets`). The
  index is right because the manifest of a sync names what that sync read, minus
  what was rewritten since (`ChunksKept`).
- `PartsRunComponents`: a step of `MCParts` is a step of one component and leaves
  the variables of the others alone, so the composition implements each of the
  eleven specifications. `PartsTypeCorrect` and `PartsAreSafe` follow: every
  invariant and action property of the run `parts` holds of the model the run
  checks, for every value of the constants.

The type invariants of `SourceWriteLock` and `SyncCommit` are proved and therefore
not in the runs.

Assumptions. The theorems of the first three modules name theirs as hypotheses;
those of the other five have none but the named constant assumptions of the
modules (`RowConstants`: finitely many nodes, none of which is an edge;
`NatsConstants`, `PoolConstants`: finitely many workers or callers;
`FleetConstants`: a leader gives up no later than its row goes stale; bounds are
naturals). What the code does not guarantee is not assumed but recorded: the
exceptions of section 3 are part of the properties, so a theorem also says that
there is no further way in.

Only model-checked:
- everything temporal under fairness, which is beyond the prover:
  `EventuallySettled`, `NeverBricked`, `IndexHeals`, of `writers` `MemoryIsTrue`,
  and of `parts`
  `DemotedQuiesces`, `BacklogDrains`, `TasksSettle`, `ReplicasCatchUp`,
  `RunningEnds`, `EventsArrive`, `RecoveredReturns`, `OverlayFollowed`.

Every invariant, every action property and the refinement of the passing runs
have a theorem.

## 6. Not modelled, and the plan

Next:
1. Proofs: an abstract ledger that `NatsQueue` implements, as `TaskQueue` does
   `IndexRequests`; `JetStream` may deliver twice, so it is another ledger.
2. `SyncCommit`: deferred enrichment, `replace_source`, `remove_source`.
3. Composition of queue and commit: a publish that meets a running pass.
4. Memory with TTLs, retention and capacity; a tuning batch that applies its own
   winner.

Seen while modelling and covered by no property:
- `cancel_requested` is never reset, so a cancelled experiment that is run again
  cancels at once (`tuning/store.py:293`).
- `prune_experiment` deletes the trials of a running experiment.
- The request-scoped `auto.apply` of `tuning_run` is restored from the object it
  was set on (`api/app.py:3131`, `3145`), so it stays on.
- The backpressure gate of tuning counts tasks with status `claimed`, which no
  queue uses (`tuning/executor.py`).
- Chunks of an archived memory record can stay for good: only the pass that
  archived it drops them (`memory/maintenance.py:169`), and an incremental sync
  visits listed files only (`sync/engine.py:2086`). Once the projection has no row
  for them a search takes them for an ordinary document (`memory/policy.py:353`),
  although `docs/memory-system.md:139` counts on the next sync. `MemoryHolds` and
  `MemoryIsTrue` excuse these records by name (`torn`).
- `_run` of the maintenance leaves serialization to its callers ("Callers own sync
  serialization", `memory/maintenance.py:38`), and neither the endpoint
  (`api/app.py:3622`) nor the MCP tool takes the sync lock.
- `HeartbeatLost` is told to nobody but the supervisor: work under way goes on.
- The drainer of a leader that raised is started again only by a new promotion,
  and the supervisor does not look at it (`cli.py:627`).
- A folded memory write drops its `supersedes`; a claim that is corrected,
  archived and re-asserted against its own correction ends both.

Simplified, with the effect disclosed here: `GraphRows` has one saver at a time,
although `_save_rows` (`persistence/graph_store.py:175`) takes no lock of its own
and `close` and the MCP tools save outside the sync mutex; `SyncCommit.CommitItem`
is the writes of one item in one step, since a death among them leaves the item
unlisted in the manifest and it is done again; a torn line of the spool file is
not modelled.

Left out for good: text extraction, ranking quality, graph enrichment, the web
API and UI, configuration and setup, connectors, deployment manifests – most of
the repository's lines, data-heavy or stateless, with nothing for a
state-machine model to say.
