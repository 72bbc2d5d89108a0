# Futures-orderbook: TLA+ models, checks and proofs

Futures-orderbook is a Rust engine that keeps a local copy of a Binance futures order book: it
joins a WebSocket stream of numbered changes to a REST snapshot, feeds an analytics engine,
records what it sees in ClickHouse, and replays recorded sessions; a browser front end shows a
heatmap. This directory holds TLA+ modules translated from its source, the TLC runs that check
them on small instances, and TLAPS proofs of their main properties for every instance.

Paths below are relative to the repository (`src/main.rs` is the Rust file).

## 1. Inventory

| Component | State | Operations | Talks to |
|---|---|---|---|
| `src/binance/websocket.rs` | connection, back-off | connect, forward depth events, report a lost connection | main loop through the unbounded channel `ws_tx` |
| `src/binance/ws_trades.rs` | the same, for trades | the same | main loop through `trade_ws_tx` |
| `src/binance/rest.rs` | none | fetch a snapshot | called by snapshot tasks |
| `src/orderbook/synchronizer.rs` | state, buffer, `last_applied_u`, counters | `on_connected`, `buffer_event`, `process_live_event`, `reconcile`, `trigger_resync`, ... | behind an `RwLock`, shared by main loop and snapshot tasks |
| `src/orderbook/book.rs` | two `BTreeMap`s, `last_update_id`, `initialized` | `apply_snapshot`, `apply_depth_update` | behind an `RwLock`, shared likewise |
| `src/main.rs` | the `select!` loop | one branch per source; spawns snapshot tasks, never cancels them | everything |
| `src/analytics/` | shadow book, windows of trades and level changes, heatmap | `process_event`, `on_trade` | main loop through `event_tx`; rows to the analytics sink |
| `src/storage/analytics.rs` | batches | submit, periodic flush | unbounded channel from the main loop |
| `src/recording/` and the end of `main()` | bounded queue, batches, session health and status | `record_*`, worker flush with retries, final status | main loop and snapshot tasks; storage |
| `src/storage/` | in memory or ClickHouse | insert, query, migrate | recorder, replay, verify |
| `src/trades/` | counters, window of seen ids | normalize, deduplicate, aggregate | main loop |
| `src/replay/` | position in a recorded session | read, reconcile, feed the same analytics engine | storage, analytics |
| `src/server.rs` | sockets, broadcast channels, the count of pending snapshots | commands of a browser; forward frames, deltas, status | front end; the controller behind an `RwLock` |
| `src/server_replay.rs` | the controller's `info`, the local variables of each replay | load, play, pause, stop, speed; play a session event by event | sockets, storage, analytics |
| `src/verify/`, `src/diagnostics/`, `src/config.rs` | none of their own | report | storage, everything |
| `frontend/src` | connection status, frames, view | reconnecting transport, store, renderers | the server |

What makes it hard: the WebSocket task, the main loop and one or more snapshot tasks
interleave, with two locks taken separately; the stream and the snapshot are not ordered with
respect to each other; frames, requests and connections fail; the analytics engine receives the
book second-hand, from two senders; batches must survive failing inserts; a replay must compute
what the live run computed. The properties that make each component correct:

* **synchronizer, book, main loop** - a book published as live is the venue's book at the last
  accepted event; gaps are noticed; somebody is at work while it is not live; synchronization
  settles.
* **shadow book** - once the event queue is consumed, it is the live book.
* **recorder** - what was accepted is stored or accounted for; a session that lost data is not
  reported COMPLETED; the queue never exceeds its bound; shutdown flushes.
* **analytics engine** - flow, cells and clusters are those of the tape; liquidity is that of the
  shadow book; what the snapshots report adds up; evidence is used once; a browser's cells are
  the frame's.
* **analytics sink** - every row is stored, or lost with its insert, or still on its way; the
  shutdown drains it and ends.
* **trades** - no trade is processed twice or in another order, whatever the size of the window of
  seen ids; every payload is counted under one heading.
* **replay** - a replay that calls itself synchronised has the venue's book, unless the link behind
  the bridge, which the code does not test, was the gap. **replay server** - a halt is obeyed by
  every replay that has started, commands are served, no deadlock.
* **front end** - one live connection at a time, no update after disposal.

## 2. Plan

Done (sections 3 to 5):

1. the depth engine (`Exchange`, `OrderBook`, `Synchronizer`, and `DepthEngine`, which composes
   the three) with its abstract specification `DepthFeed`, and its proofs;
2. the recorder (`Recorder`) with its abstract specification `DurableLog`, and its proofs;
3. the trade path: `TradeProcessor`, and `TradePath`, which composes it with the trade stream, the
   main loop, its shutdown and the analytics sink, with its abstract specification `TradeTape`,
   and its proofs;
4. the analytics engine: one module per detector (`AnalyticsBook`, `TradeFlow`, `Clusters`,
   `Liquidity`, `Absorption`, `Heatmap`), composed by `AnalyticsEngine`, and its proofs;
5. the replays and their server: `Replay` (on `OrderBook`, `Synchronizer` and `TradeProcessor`) and
   `ReplayServer`, and its proofs.

Left: the fan-out of `server.rs` (the count of pending snapshots, lagging receivers) composed with
the browser's reconnecting transport; a live engine and a replay of what it recorded side by side.

No module that is proved about declares a `RECURSIVE` operator; parameters are `CONSTANTS`
with named assumptions (`ExchangeAssumption`, `EngineAssumption`, `RecorderAssumption`, `ProcessorAssumption`,
`PathAssumption`, `AnalyticsAssumption`, `ServerAssumption`).

## 3. What is modelled

**`Exchange`** (external). The venue numbers every change of its book. `BookAt[n]` is its book
after update *n*, `Touched[n]` the levels update *n* writes; the assumption says that levels
nobody touches keep their quantity. A depth event `[first, final, prev, valid]` stands for the
updates `prev + 1 .. final`; its payload is the function `Changes(e)` of its ids. `valid` is
false when a number in it does not parse.

**`OrderBook`**. `book.rs`, and `analytics/book.rs`, which maintains the shadow book by the same
rules. `levels` stands for both maps, 0 for an absent level. The error path is modelled as it
is written: a malformed entry leaves through `?` with the earlier entries already written
(`FailedUpdates`) or with the maps cleared and partly refilled (`FailedSnapshots`). The shadow
book is emptied when it stops being ready (`SetReady`, `analytics/book.rs:261`).

**`Synchronizer`**. One operator per method of `synchronizer.rs` on a record that stands for
`self`. `reconcile` is described by its result: the first bridging event, and the maximal chain
from it in which every link *except the first* is tested, as in the code, where `expected_pu`
is still `None` when the event after the bridge is examined.

**`DepthEngine`**. The actors and their atomic steps:

| Actor | Actions | Code |
|---|---|---|
| venue and WebSocket task | `Connect`, `Publish`, `PublishUnseen`, `LoseConnection`, `CloseConnection` | `websocket.rs` `run` |
| main loop | `MainConnected`, `MainDisconnected`, `MainBuffer`, `MainMismatch`, `MainAccept` -> `MainApply` -> `MainPublish`, `MainMarketEvent`, `MainStop` | `main.rs` 421-970 |
| snapshot task | `TaskFetchFails`, `TaskFetched` -> `TaskApply` -> `TaskReconcile` or `TaskNoBridge` -> `TaskDrain` ... -> `TaskAnnounce` | `main.rs` 450-555, 646-731 |

A step is the code between two points where another actor can intervene: an await that takes a
lock, or the end of a handler. A snapshot task holds the synchronizer's lock from `reconcile` to
its return (phases `drain`, `announce`), and the book's lock while it drains; the main loop
releases the synchronizer's lock before it takes the book's, which `MainAccept` / `MainApply`
keep apart. The REST answer is the venue's book at *any* id, since nothing orders the two
channels. A Close frame sends `Disconnected` twice, as in the code. After `MainStop` the tasks
may still take steps, since the runtime is not yet gone, but no fairness is assumed of them.

The faults of the environment are a constant, so that each run can say which ones it allows:
`rest`, `badSnapshot`, `badUpdate`, `close`, `liveLoss` (a frame does not parse while the book
is live and the channel is drained), `loss` (at any time), `staleTask` (the main loop learns of
a lost connection while a snapshot task still runs). Without `staleTask`,
`MainDisconnected` waits until no task runs: an assumption about time (a fetch takes seconds at
most, a reconnection at least the back-off), not something the code enforces.

Abstractions: prices and quantities are levels and numbers, both sides of the book are one map;
counters that nothing reads back are left out; the branch for a stale live event is not an
action because a venue that numbers events with `pu < u` never reaches it once `pu` matched;
`PriceTick` conversion, best bid and ask, and logging are left out; recording, which the depth
engine only calls and never waits for, is `Recorder`'s.
The sleeps between attempts carry no state and are left to the scheduler.

**`DepthFeed`**. What a reader of the book is promised: no live book, or the venue's book at some
id, which only grows until the book is withdrawn. `DepthEngineInv` has the refinement mapping
`ReaderView` and states `ImplementsFeed`.

**`DepthEngineInv`**. The inductive invariant `IInv` (section 5).

**`MCDepthEngine`**. A venue with two levels: every level changes twice and one is removed.

**`Recorder`**. The actors and their atomic steps:

| Actor | Actions | Code |
|---|---|---|
| main loop and snapshot tasks, calling the recorder | `Number` -> `SendOk` -> `Count`, or `SendFull`, or `SendClosed` | `recorder.rs` 142-332; `main.rs` 489-498, 570-581, 778-811 |
| storage worker | `WorkerReceive` -> `WorkerEnqueue`; `WorkerTick`; `WorkerShutdown` -> `WorkerDrain` -> `WorkerEnqueue` ... -> `WorkerDrained`; a flush: per kind `FlushNothing`, or `InsertFails` ... `InsertOk`, then `SyncNothing` or `SyncHealth` | `recorder.rs` 104-139, `worker.rs` |
| end of `main()` | `MainStop` -> `MainStopping` or `MainStoppingFails` -> `MainFinish` | `main.rs` 1022-1063 |
| environment | `Kill`; the outcome of every insert and update | external |

A call of the recorder is three steps because `seq`, the channel and `queue_len` are three
separate atomics, and callers run on several threads. For the same reason the worker's handling of
a record is two: `recv` or `try_recv` takes it off the channel, `enqueue` decrements `queue_len`
and batches it. One insert attempt and one status update are one step each. `worker.step` names the
point the worker has reached (`select`, `enqueue`, one of the four kinds while it flushes, `health`,
`drain`, `stopped`), `worker.rec` is the record it has taken, `worker.attempt` is `retry_insert`'s loop variable, `worker.last` says that this is
the flush after the drain. `pending[k]` stands for `pending_raw`, `pending_trades`,
`pending_depth`, `pending_snapshot`; the batch that is being inserted stays in it, since nothing
is enqueued during a flush and a failure puts it back.

The outcomes of an insert: it writes and returns; it fails; it writes and its answer is an error.
An insert replaces the row in the tables that are `ReplacingMergeTree` and adds one in the others
(`Replacing`, from `migrations/`). A status update has the same three outcomes. `main()` leaves
through `?` when the update to STOPPING fails (`MainStoppingFails`) or the final one does
(`MainFinish` with the status unchanged).

Abstractions: a row is its sequence number and kind; a depth event is one record that counts as
`DepthRows` rows for the batch threshold; the counters in `metrics.rs` that nothing reads back,
`queue_high_water` among them, are left out; a raw payload may be followed by a trade, by level
rows or by nothing (`derived`), without saying which stream it came from. `insert_failures > 0`
implies `degraded`, so `FinalStatus` asks for the latter alone. The receiver's closing is one
step with the end of the worker.

**`DurableLog`**. What the recorder promises: a record is refused at once or owed; it leaves the
debt only by being stored; a session is declared complete only when nothing is owed and nothing
was refused. It speaks of raw payloads, trades and depth events. It does not speak of snapshots,
of which the recorder promises nothing (see the findings).

**`RecorderInv`**. The inductive invariant and the refinement mapping: *owed* is the channel,
the record in the worker's hand and the batches, *log* what has at least one row in the store, *verdict* the session's status when
the process has ended.

**`TradeProcessor`**. `trades/processor.rs`, and of `normalizer.rs` which of its three results a
payload gives (a trade, a marker, malformed). One operator per method on the record `Processors`;
`recent` is the window of seen ids, `Process` the whole of `process`.

**`TradePath`**. The way of a trade, with these actors:

| Actor | Actions | Code |
|---|---|---|
| trade stream and its client | `Connect`, `Deliver` (any payload: new, repeated, older, marker, malformed), `Disconnect` | `ws_trades.rs` |
| main loop | `MainLink`, `MainTrade`, `MainRejected`, `MainTradeEvent`, `MainDepthEvent`; `MainStop` -> `MainFinalize` -> `MainJoin` | `main.rs` 762-905, 980-1018 |
| sink worker | `WorkerReceive` (and flush at capacity), `WorkerFinalFlush` | `storage/analytics.rs` 211-291 |

One branch of `select!` runs to its end before the next, so a branch is a step. What the engine
derives is only a number of rows per table here, because the sink does nothing with their
contents; `AnalyticsEngine` says what they are. A flush is one step with every combination of its
four inserts failing: the worker does nothing else between them. `tape` is what was recorded and
sent to the engine, `seen` (a ghost) all trades in the order of arrival.

**`TradeTape`**. What the trade path promises: a sequence that grows by one later trade at a time.

**`Analytics`, `AnalyticsBook`, `TradeFlow`, `Clusters`, `Liquidity`, `Absorption`, `Heatmap`**. One
module per file of `src/analytics/`, pure operators on a record that stands for the detector:

| Module | State | Operations |
|---|---|---|
| `AnalyticsBook` | levels, readiness, crossings | changes of an update or snapshot, best prices, depth |
| `TradeFlow` | totals, profile by price, open and completed buckets | `on_trade`, `finalize_bucket`, `prune` |
| `Clusters` | open cluster, closed ones | `on_trade`, `prune`; sweeps of `sweeps.rs` |
| `Liquidity` | tracked levels, waiting decreases, interval sums | `on_level_change`, `clear`, `reset_interval`, `prune` |
| `Absorption` | a window per price | `on_trade`, `on_liquidity_change`, `on_opposing_liquidity`, `flush` |
| `Heatmap` | cells by bucket and price | `on_trade`, `on_level_change`, markers, `prune`; frames and deltas |

**`AnalyticsEngine`**. `process_event` in the order of the code, an action per kind of event
(`OnTrade`, `OnUpdate`, `OnSnapshot`, `OnSynchronized`, `OnResyncStarted`, `OnConnectionLost`), the
heatmap tick of the main loop with a browser's cells (`SendFrame`), and the final snapshot
(`Finish`). The engine is one sequential object: what is hard is long sequences, not interleaving.
Confidences are percentages of integers and only their comparison with the threshold is kept.

**`Replay`**. One operator per kind of stored event, on the local variables of a replay. What a
session may hold is translated from `reader.rs`: depth events in order of arrival, without those
of a lost connection or a full queue, and without those that carry no level, since an event is
stored as one row per level; snapshots of any age, also repeated. `run_replay` and `run_events`
differ in what a gap does to them (`EngineGap`, `StreamGap`). Levels that did not parse when they
were recorded, and are missing from an event's rows, are left out.

**`ReplayServer`**. The controller's `RwLock` as its queue of waiters, served in order (tokio's lock
is fair); its readers are derived from where the tasks are:

| Actor | Actions | Code |
|---|---|---|
| a browser's handler | `ClientSends`, `ServeCommand`, `ServeLoad` | `server.rs` 277-350 |
| the task of a replay | `TaskQueues`, `TaskEnters`, `BeginLoad`, `LoadFails`, `LoadSucceeds`, `NextEvent`, `SeesRunning`, `SeesStopped`, `PlayEvent`, `Completes` | `server.rs` 318, `server_replay.rs` 91-330 |
| the subcommand `replay` | `EngineEvent`, `EngineEnds` | `replay/engine.rs` |

A task looks at `info` (`SeesRunning`) and plays (`PlayEvent`) in two steps, because it sleeps
between them. `program` says how the program was started; the replay of `--replay-session` has a
controller of its own that no command reaches. A replay reads the lock for its whole life, so the
controller is never replaced under it and one `info` is enough; two Loads before the first task
has started do put two replays on one controller.

Two ghosts say what a pause or a stop is worth. `halt` is true from such a command until a Play or a
Load takes it back; a command that meets a replay which is still starting (`Starting`) does not make
it true, because that replay will write `Loading` and `Playing` over it, for all replays of the
controller. `late` counts the events each replay has played while `halt` was true.

The definitions marked *Mutant* are deliberate errors. Each stands next to the definition it
distorts and is used by nothing: swapping it in must make the property named in `PROJECT.json`
fail, which shows that the property depends on the code it is about.

## 4. What the runs show

| Run | Faults | Bounds | Checks |
|---|---|---|---|
| `depth_engine` | rest, badSnapshot, close, liveLoss | 3 ids, 1 task slot, 2 attempts, 2 connections | `IInv`, `TypeOK`, `BookExact`, `SomeoneSynchronizes`, `ShadowExact`, `ImplementsFeed` |
| `depth_engine_live` | the same and badUpdate | 2 ids | `SyncSettles`, `ShadowCatchesUp` |
| `depth_engine_faults` | rest, close, loss, staleTask | 3 ids, 2 task slots, 1 attempt, 2 connections | `ShadowAgrees` |
| `depth_engine_loss` | loss | 1 connection | `BookExact` is **violated** |
| `depth_engine_stale` | staleTask | 2 ids, 2 task slots | `BookExact` is **violated** |
| `recorder` | failing inserts and updates, lost answers, crash | queue of 1, batch of 2, 1 snapshot task, 3 records, 1 insert attempt, 1 extra copy of a row | `IInv`, `Accounted`, `CompletedIsComplete`, `QueueLenSettles`, `ImplementsLog` |
| `recorder_live` | failing inserts and updates, crash | the same with 2 records, 2 insert attempts, no extra copy | `ShutdownReturns`, `AcceptedIsStored`, `DegradedIsTold` |
| `recorder_snapshots` | failing inserts | queue of 2, 2 records | `FailedBatchesAreKept` is **violated** |
| `recorder_retry` | lost answers | 3 records, 2 attempts | `RetryIsIdempotent` is **violated** |
| `trade_path` | repeated, older and malformed payloads, failing inserts | window of 1, 2 ids, 3 payloads, 2 connections, sink batches of 2 | `TypeOK`, `TapeIsRecords`, `PayloadsAccounted`, `RowsAccounted`, `ClosedIsComplete`, `ImplementsTape`, `TradesAreAnalysed`, `ShutdownEnds` |
| `analytics` | late events, resyncs, lost connections | 6 events per scenario, 3 prices, clock steps of 0, 1, 3, -1 | `TypeOK`, `FlowMatchesTape`, `IntervalsAddUp`, `LiquidityBalances`, `ReplenishmentEvidence`, `CellsMatchTape`, `RestingMatchesChanges`, `ClustersSplitTape`, `AbsorptionEvidence`, `ClientMatchesFrame`, `SweepsAreReal` |
| `replay_server` | gaps and missing events, a session that does not load | 4 ids, 7 events; 2 browsers with 2 commands, 2 replays of 2 events | `TypeOK`, `ReplayIsExact`, `PauseIsObeyed`, `CommandsServed` |

Bounds of the depth engine. Three ids give a bridge, the link after it and one live event, the shortest run in which
reconcile's chain, a gap and a live continuation all happen. Two connections give a
reconnection; two attempts give a retry and an exhausted task. One task slot is enough in
`depth_engine` because without `staleTask` two tasks never coexist (part of
`SomeoneSynchronizes`, checked with two slots in the faults run's model and proved for any
number). The faults run has one attempt per task and uses the symmetry of the task slots; it
checks an invariant only.

Bounds of the recorder. A queue of one is full as soon as the worker is slow; three records give
a queue that is full while a batch is pending, a batch that reaches its size (a depth event does
alone), and a snapshot that replaces another. With one attempt every failure is a final one; the
liveness run has two. `Word` = 4 makes `queue_len` wrap as the code's `usize` does when the worker
is faster than the sender. The snapshot run has a queue as long as the number of records, so that
the session can only be degraded by an insert that failed. `MaxCopies` bounds how often an insert
that fails may have written, the only thing that would otherwise grow without end.

Bounds of the trade path. A window of one and two ids make a trade leave the window and come
again; three payloads give an id, a later one and the first again; a batch of two rows fills and
another row waits. The stream delivers the next payload when none waits (`MaxWaiting`).

Bounds of the analytics. The windows are two to four time units long, so that six events with
steps of up to three open, close, expire and reopen them; negative steps make an event late. Four
scenarios (`MCAnalytics`) draw their events from different sets: trades against a standing book,
flow of both sides, changes of the book with resyncs, and frames between trades. In each of them
the thresholds are low enough for the detector to fire, several times where a property needs two
of a kind: sweeps, absorptions with a moved price, two replenishments, reopened buckets.

Bounds of the replays. Seven events give a snapshot with its bridge, a gap, a resynchronisation
and live events after it; the second of four ids writes nothing and is stored in no row. Replays
that browsers command play trades only (`ServedEvents`), because commands do not depend on what is
played; replays that nobody commands play everything. Two browsers and two commands each are the
fewest that hold a Load behind a pause with a Play behind it.

No run is cut by a state constraint: ids, connections, records, payloads, events and commands end.

Deadlock is checked in the depth engine's and the recorder's runs, where a behaviour may only stop
in `Terminated`, after `MainStop`. It is not in the last three: the trade path's program ends in
`done`, a scenario of the analytics ends with `Finish`, and the replay server has nothing to do when
no browser sends a command. Whether it stops too early is what `ShutdownEnds` and
`CommandsServed` say.

Fairness (`depth_engine_live`): weak fairness of the main loop's depth branch, of its
market-event branch (`select!` picks at random among ready branches), and of each snapshot task
until the engine stops (tokio polls ready tasks, its `RwLock` is fair). Nothing is assumed of
the venue or of the network.

Fairness (`recorder_live`): weak fairness of a call that has begun (it never waits), of the worker,
and of the end of `main()`; strong fairness of the worker's receive and shutdown branches, because
`select!` picks at random among ready branches, so one that is ready whenever the worker comes
back to `select!` is taken.
Nothing is assumed of the database in `ShutdownReturns`. The other two need a database that is
not down for good, and say so in the formula (`StoreFairness`): each kind's insert and the status
update succeed if they are tried for ever.

Fairness (`trade_path`): weak fairness of the main loop's trade and market-event branches, of the
shutdown and of the worker. Nothing is assumed of the venue or of the database: a failed insert
clears its batch. Fairness (`replay_server`): weak fairness of each replay's task (tokio polls it,
storage answers, a pacing sleep is below ten seconds) and of each waiting handler's turn. Nothing
makes a browser send a command. The `analytics` run has safety properties only.

`CommandsServed` is exact about the one way in which commands are not served: a Load that waits for
a paused replay (`HeldByPause`). The lock is fair, so the Play that would resume the replay waits
behind the Load, in every browser, and a handler that waits forwards no frames either. TLC
reaches that state with the run's bounds.

### Findings

* **`depth_engine_loss`.** `README.md:90`: "Each subsequent event must have: `event.pu ==
  previous_event.u`." In `reconcile` the first link after the bridging event is not tested
  (`synchronizer.rs:267`). One frame lost there - `websocket.rs:148-156` logs it and goes on -
  and the engine publishes as `Ready` a book that misses an update; every later live event
  continues the chain, so nothing reveals it.
* **`depth_engine_stale`.** `synchronizer.rs:50` says that in `Ready` the book "is fully
  synchronized and live". A snapshot task that outlives its connection reconciles what the
  buffer of the lost connection held and moves the synchronizer to `Ready` while the engine is
  disconnected, with `initialized` false.
* **`recorder_snapshots`.** `README.md:191`: "Failed batches are **retained and retried** with
  backoff - never discarded." A snapshot whose insert failed is put back into
  `pending_snapshot`, which holds one, and `enqueue` overwrites it with the next
  (`worker.rs:121`). Nothing counts the loss. Two snapshots between two flushes do the same
  without any failure.
* **`recorder_retry`.** `worker.rs:307`: "Because every row carries a deterministic identity and
  the tables are `ReplacingMergeTree`, retrying an identical batch is idempotent." The tables
  of raw payloads and of snapshots are `MergeTree` (`migrations/002`, `005`): an insert that
  wrote its rows and then failed is retried, and the rows stay there twice. The snapshots are read
  back by every replay (`replay/reader.rs:63`, with the level changes and trades, whose tables do
  collapse duplicates), which is then given one of them twice; the raw payloads only by the verify
  report, whose count includes the duplicates (`verify/mod.rs:122`).

Observed while modelling, not made into runs: `queue_len` wraps below zero when the worker takes
a record before its sender has counted it, and `queue_high_water` keeps the wrapped value
(`recorder.rs:299`); a snapshot that the queue refuses is counted nowhere (`recorder.rs:283`);
when the update to STOPPING fails, `main()` returns without the final flush (`main.rs:1035`);
`health.degraded` is never cleared, although `metrics.rs:27` speaks of "DEGRADED ↔ RECORDING". A live event that fails to parse half-way
leaves a partly written book that stays `Ready` (`main.rs:599`); a snapshot that does not parse
leaves the engine in `SnapshotLoading` until the connection is lost (`main.rs:483`); events
that arrive in `SnapshotLoading` are passed to `buffer_event`, which drops them
(`main.rs:743`), and the first live event then causes a resync; with `badSnapshot` and
`staleTask` together a stale task can empty a live book.

Of the trade path, the analytics and the replays: an older trade that was never seen is rejected
for good (`processor.rs:86`); trades still in `event_rx` at shutdown are recorded but in no digest
(`main.rs:980`); a failed insert of the sink loses its rows with a log line
(`storage/analytics.rs:254`). A two-sided cluster counts every change of price as a crossed level
(`clusters.rs:124`), so that it can be a "sweep" of fewer distinct levels than `sweeps.rs:8`
says. `book_crossed` is reset by every snapshot, so a book that stays crossed is a new anomaly in
every interval; a level that is removed is not a decrease that a replenishment could answer;
`liquidity.clear` drops the sums of the running interval; a resync leaves the heatmap's resting
liquidity, which starts at 0 in every bucket; `heatmap_price_aggregation` and
`max_heatmap_price_levels` are never applied, so that cells are bounded in time only; the
deltas of a frame's summary saturate at zero (`heatmap.rs:833`), so a browser's totals drift when
cells are pruned. `run_events` drops a gap in silence (`server_replay.rs:216`) and the next
snapshot finds an empty buffer: behind a stored reconnection the display is frozen, where
`run_replay` resynchronises, unless the event that showed the gap was also the bridge. A Stop or
Pause that comes while a session loads is lost, and so is one that stopped another replay on the
same controller: `load_and_run` writes `Loading` and `Playing` without a look
(`server_replay.rs:94`, `126`). A replay sends frames and no deltas, and a
socket stops sending frames eight ahead of the deltas (`server.rs:359`), so a browser sees nothing
but status after its eighth frame.

## 5. What is proved

Every safety invariant, action property and refinement that a passing run checks is a theorem, for
every value of the constants that meets the named assumptions. Eight modules hold the proofs:

| Module | Content |
|---|---|
| `FoldTheorems` | induction over sequences and finite sets, for any operation that is folded |
| `ComponentTheorems` | what the operators of `OrderBook`, `Synchronizer` and `TradeProcessor` preserve |
| `DepthEngine_proofs` | the depth engine and its shadow book |
| `Recorder_proofs` | the recorder |
| `TradePath_proofs` | the trade path, the sink and their closing |
| `AnalyticsEngine_proofs` | the analytics engine: types, snapshots, liquidity, heatmap, frames |
| `AnalyticsTrades_proofs` | what the analytics engine makes of the trades: absorptions, buckets, clusters, sweeps |
| `ReplayServer_proofs` | the replays and their controller |

### Induction

A recursive definition is reasoned about through `FoldTheorems`, which has the folded operation
as its parameter (`CONSTANT Op(_, _)`) and shows from the definition of `FoldLeft` alone that a
fold begins with its base (`FoldEmpty`), takes the last element last (`FoldAppend`) and the first
one first (`FoldHead`), and that whatever each step preserves the fold preserves (`FoldKeeps`,
`FoldRelates`). Whoever folds an operation takes an instance: `Updates == INSTANCE FoldTheorems
WITH Op <- ApplyDepthUpdate` in `ReplayServer_proofs`, and likewise for the writes of an update,
the marks on the heatmap, the windows of the absorption detector, the events on their way to the
shadow book and the rows in the sink's channel. Sums over finite sets (`SumFunction`) are folds
too; the first part of `AnalyticsEngine_proofs` has what they come to when an element is added,
taken out or changed, when a set grows, and when it is renamed (`SumTakesOut`, `SumChanges`,
`SumSkips`, `SumRenames`).

### The depth engine

| Theorem | Statement |
|---|---|
| `TypeCorrect` | `Spec => []TypeOK`, whatever the faults |
| `Safe` | `Benign` implies `Spec => []IInv` |
| `BookIsExact` | `Benign` implies `Spec => []BookExact` |
| `TasksExclude` | `Benign` implies that two snapshot tasks never run at once |
| `Synchronizes` | `Benign` implies `Spec => []SomeoneSynchronizes` |
| `Implements` | `Benign` implies `Spec => ImplementsFeed` |
| `ShadowFollows` | without `badSnapshot` and `badUpdate`, `Spec => []ShadowAgrees` |
| `ShadowIsExact` | `Benign` implies `Spec => []ShadowExact` |

They hold for every venue that meets `ExchangeAssumption`, any number of levels, ids, task
slots, attempts and connections. `Benign` says that `loss`, `badUpdate` and `staleTask` do not
occur: the runs above show that `BookExact` fails under `loss` and under `staleTask`.

`BookExact` is not inductive: it says nothing of a book that is being loaded, nor why the next
event will fit. `IInv` follows the data from the venue to the book:

* `ChannelInv`, `LastInv`, `HeadInv`: the channel holds whole connections, each an unbroken chain
  of events; where it ends the connection is, where it begins the synchronizer is.
* `BufferInv`: the buffer is a chain, and the channel goes on where it ends. This is what makes
  the untested link of `reconcile` harmless, and what `loss` breaks.
* `OneTask`, `PhaseInv`, `PcInv`: at most one task, whose phase determines the synchronizer's
  state; what `staleTask` breaks.
* `ReconcileInv`, `DrainInv`, `ReadyInv`, `InflightInv`: in each phase the book is the venue's
  book at a known id, which lies inside the next event to be applied. `ApplyTrue` (from
  `OverwriteTrue`, the one place where `ExchangeAssumption` is used) says that such an
  event takes the book to its own final id.

The preservation of `IInv` is proved actor by actor (`WebSocketInv`, `MainDepthInv`,
`MainOtherInv`, and for tasks `TaskFrame`, `TaskAlone` and one lemma per group of actions).
TLC checks `IInv` itself in `depth_engine`. The refinement needs one more lemma,
`VisibleStep`: a book that stays visible is unchanged or has advanced.

The shadow book needs no venue and no exact book: it follows whatever the live book is, under
`loss` and `staleTask` too. `ShadowInv` says what it will be once the event queue is processed (a
fold over the queue, `HeardInv`), that a task which holds the synchronizer keeps the main loop
out (`HoldInv`), that nothing is buffered while a live event is handled (`EmptyInv`), and that
what is applied has parsed (`ValidInv`). `badSnapshot` and `badUpdate` have to be excluded: either leaves a live
book partly written that the analytics are never told of.

### The recorder

| Theorem | Statement |
|---|---|
| `TypeCorrect` | `Spec => []TypeOK` |
| `RecorderSafe` | `Spec => []IInv` |
| `RecordsAccounted` | `Spec => []Accounted` |
| `CompletedSessions` | `Spec => []CompletedIsComplete` |
| `RecorderImplements` | `Spec => ImplementsLog` |
| `QueueLenIsRight` | `Spec => []QueueLenSettles` |

They assume only `RecorderAssumption` (positive capacity, batch size and number of attempts, a
word of more than one value), for any number of snapshot tasks. Neither `Accounted` nor
`CompletedIsComplete` is inductive. The first needs to know that a record in a caller's hand is
nowhere else (`HandInv`) and that batches hold their own kind (`KindInv`). The second needs the
argument of the shutdown: the main loop makes no call once it has stopped, so the channel
holds nothing but snapshots behind the drain (`ShutdownInv`); a flush that has passed a kind has
emptied its batch or degraded the session (`FlushInv`); a refusal has degraded it too
(`DropInv`, where a channel that is closed can refuse only snapshots); so a session that is not
degraded when the worker has stopped has stored everything. `QueueLenSettles` is an equation that
holds at every moment, between a send and its count and between a `recv` and its subtraction too: the
counter is the channel's length, plus the record the worker has just taken (`Subtracting`), less the
sends that are not counted (`Counting`). Its proof needs that the callers it counts are finitely many
(`QueueInv`), and the arithmetic of a word that wraps.

### The trade path

| Theorem | Statement |
|---|---|
| `TypeCorrect` | `Spec => []TypeOK` |
| `TapeIsExact` | `Spec => []TapeIsRecords` |
| `PathImplements` | `Spec => ImplementsTape` |
| `PayloadsNeverForgotten` | `Spec => []PayloadsAccounted` |
| `RowsNeverForgotten` | `Spec => []RowsAccounted` |
| `ClosingIsComplete` | `Spec => []ClosedIsComplete` |

They assume `ProcessorAssumption` (a window of at least one id, positive ids) and
`PathAssumption`. `TapeIsRecords` is not inductive: nothing in it says why a trade that has left
the window is not taken again. `WindowInv` does: the last id is the highest one seen and is always
in the window, so an id that is neither in the window nor below the last one is above all of
them. `CountsInv` ties the processor's counters to the two sequences. `PathSafe` is the theorem
that the whole of `IInv` holds. The rows and the payloads that wait in a channel are folds over
it. `ClosedIsComplete` follows from `ProfileInv`: the profile is submitted once, whole, when the
main loop closes, and the worker returns only with an empty channel and empty batches.

### The analytics engine

| Theorem | Statement | Inductive invariant, with `Typed` |
|---|---|---|
| `TypeCorrect` | `Spec => []TypeOK` | |
| `IntervalsAreExact` | `Spec => []IntervalsAddUp` | `AddUp` |
| `ClientFollows` | `Spec => []ClientMatchesFrame` | itself |
| `LiquidityFollowsBook` | `Spec => []LiquidityBalances` | `Follows` |
| `CellsAreExact` | `Spec => []CellsMatchTape` | `Timely`, `CellsExact` |
| `ReplenishmentsAreEvident` | `Spec => []ReplenishmentEvidence` | `Evident` |
| `RestingIsRight` | `Spec => []RestingMatchesChanges` | `Timely`, `CellsRest` |
| `AbsorptionsHaveEvidence` | `Spec => []AbsorptionEvidence` | `Taken` |
| `FlowIsExact` | `Spec => []FlowMatchesTape` | `Timely`, `FlowExact` |
| `ClustersAreExact` | `Spec => []ClustersSplitTape` | `Timely`, `SplitsTape` |
| `SweepsHappened` | `PositiveTrades` implies `Spec => SweepsAreReal` | the last two, `Positive`, `Swept` |

For every configuration that meets `AnalyticsAssumption`, any prices, and scenarios of any
length and any events of the types in `ScenarioAssumption`. Of the bound `Steps` on the feeds' clocks
the proofs use only that a time is a natural number: events may be as late as they like. TLC
found each of the inductive invariants to hold in the instance of the run `analytics` too.

* *Time.* What is pruned goes by the time of the event at hand, what a property says of retention
  by the latest time. `Timely` says that the first is never later, so that an older event prunes
  nothing that is still within retention.
* *The flow.* A late trade reopens a bucket that is already in the list of completed ones, so a
  slot's volume lies in one open bucket and several completed ones. `FlowExact` says that they hold the
  slot's trades together; `Orderly` why: one open bucket per interval and start, every start a
  multiple of the interval, every completed bucket at least its interval wide, so that pruning
  by the end drops no bucket of a slot within retention.
* *The heatmap.* `CellsExact` and `CellsRest` speak of every cell there could be, an absent one
  being empty: else a cell that is pruned and comes back would have to be argued about.
* *The evidence.* `Evident` counts the decreases that still wait in the tracker, `Taken` the trades and the volume
  in the open windows; both can only go from waiting to used.
* *The clusters.* `SplitsTape` says of the kept clusters and the open one where each begins and ends, counted
  from the end of the tape, because pruning takes clusters at the front.
* *The sweeps.* `Swept` says what the open cluster knows of a stretch of one side: its volume is
  on that side only and its side is that one, and as long as it is monotonic its last price is at
  its edge, so that a change of price is a price that was not there and `levels` counts distinct
  ones. It needs that trades have a quantity (`PositiveTrades`, what `is_marker_event` at
  `normalizer.rs:25` says of a real trade): a cluster that begins with a `Sell` of nothing would
  have `Buy` as its dominant side, and the next price would be held to the wrong direction.

### The replay server

| Theorem | Statement |
|---|---|
| `TypeCorrect` | `Spec => []TypeOK` |
| `ReplaysAreExact` | `Spec => []ReplayIsExact` |
| `PauseObeyed` | `Spec => []PauseIsObeyed` |

For any number of browsers, commands and replays on one controller, and any stored session,
whatever it misses or repeats.

`ReplayIsExact` says that the analytics have the replay's book, and that a replay which is `Ready`
has the venue's, with one exception: the replays use the live engine's `reconcile`, so the link
behind the bridge is not tested, and if the event there was missing the book is wrong (the finding
`depth_engine_loss`). The ghost `linked` of a replay is false from then until a later snapshot is
bridged, and the property claims the venue's book only while it is true. Its invariant is
`PlayersInv`: what waits in a buffer are events, each ahead of its link, and a replay that calls
itself synchronised has applied one; the events that a reconcile applies are a fold, each of which
takes the book to its own id.

`PauseIsObeyed` counts from the command: after a pause or a stop that meets no replay still
starting, and until a Play or a Load, each replay plays at most the event it had looked ahead of. Its
inductive invariant, `HInv`, adds that a halt in force stands in `info` and that no replay is left
which would write over it (`HaltStands`), that nothing is late while no halt is in force, and that a
replay which has looked at the state and is about to play has played nothing since the halt. Nothing
is claimed of a command that meets a starting replay: it is lost, as section 4 says.

### Only model-checked

The liveness properties (`SyncSettles`, `ShadowCatchesUp`, `ShutdownReturns`,
`AcceptedIsStored`, `DegradedIsTold`, `TradesAreAnalysed`, `ShutdownEnds`, `CommandsServed`): they
rest on fairness, and the provers have no rule for `ENABLED`. What a proof assumes and a run does
not show, or the reverse: the runs of the analytics engine use positive quantities only; the
theorems about it, except `SweepsHappened`, hold for quantities of 0 too.

## 6. What is not modelled

The fan-out of `server.rs` (which frames, deltas and status messages a socket gets, lagging receivers,
`RequestSnapshot`) and the browser's reconnecting transport are left for later (section 2); of the
browser only what it does to its cells is modelled. `verify` is a read-only report. Derived
values that nothing reads back (imbalance, microprice, intensities, confidences beyond their
threshold, digests), ClickHouse itself, HTTP, TLS and JSON parsing, configuration, diagnostics
and drawing are I/O or formatting without protocol state. The unbounded growth of channels is
visible in the code, not a property of it.
