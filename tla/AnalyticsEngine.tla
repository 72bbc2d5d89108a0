-------------------------- MODULE AnalyticsEngine ---------------------------
(***************************************************************************)
(* The analytics engine, analytics/engine.rs: one market event at a time   *)
(* updates the parts, may finalize a snapshot of the interval's counters,  *)
(* and prunes by the event's own time.  And the frames and deltas main.rs  *)
(* draws from it for the clients.                                          *)
(*                                                                         *)
(* The input is any sequence of events a scenario allows.  Trades and      *)
(* updates of the book carry the times of two feeds, each of them with a   *)
(* clock of its own: what comes later can be older.  The events the engine *)
(* returns are modelled by what is done with them: replenishments, sweeps  *)
(* and absorptions are put on the heatmap and counted.                     *)
(***************************************************************************)
EXTENDS TradeFlow, Clusters, Liquidity, Absorption, Heatmap

CONSTANT Scenarios   \* each: the events that may come, and how many

Steps == {0, 1, 3} \cup {-1}   \* bound: how a feed's clock moves from one event to the next

Writes == [key : Keys, qty : Nat]

ASSUME ScenarioAssumption ==
  \A s \in Scenarios :
    /\ s.length \in Nat
    /\ s.trades \subseteq [step : Steps, price : Prices, qty : Nat, aggressor : Aggressors]
    /\ \A u \in s.updates : u.step \in Steps /\ u.writes \in Seq(Writes)
    /\ s.snapshots \subseteq [Keys -> Nat]
    /\ s.signals \subseteq {"synchronized", "resync", "lost", "frame", "stop"}

VARIABLES book,          \* book
          flow,          \* flow
          liquidity,     \* liquidity
          clusters,      \* clusters
          absorption,    \* absorption
          heatmap,       \* heatmap
          detected,      \* large_trades.count and sweeps.count
          interval,      \* the interval counters
          lastEvent,     \* last_event_ts
          lastSnapshot,  \* last_snapshot_ts
          bookCrossed,   \* book_crossed
          previous,      \* ws_prev_frame
          client,        \* the cells a client has that took the first frame, then every delta
          scenario,      \* the inputs: the scenario, what is left of it,
          left,
          clocks,        \* and the two feeds' clocks
          tape,          \* history: every trade, in order
          changes,       \* history: every reported change of a level, and when
          reported,      \* history: the sums of the counters of every snapshot
          base,          \* history: the levels when the interval's liquidity counters were 0
          losses,        \* history: how often the connection was lost
          latest         \* history: the latest time of an event

parts == <<book, flow, liquidity, clusters, absorption, heatmap, detected>>
counters == <<interval, lastEvent, lastSnapshot, bookCrossed>>
frames == <<previous, client>>
history == <<tape, changes, reported, base, losses, latest>>
vars == <<parts, counters, frames, scenario, left, clocks, history>>

NoCounters ==
  [buy |-> 0, sell |-> 0, delta |-> 0, large |-> 0, sweeps |-> 0, absorptions |-> 0,
   replenishments |-> 0, anomalies |-> 0]

SumOfCounters(a, b) == [field \in DOMAIN NoCounters |-> a[field] + b[field]]

Init ==
  /\ book = NewBook /\ flow = NewFlow /\ liquidity = NewLiquidity /\ clusters = NewClusters
  /\ absorption = NewDetector /\ heatmap = NewHeatmap /\ detected = [large |-> 0, sweeps |-> 0]
  /\ interval = NoCounters /\ lastEvent = NoTime /\ lastSnapshot = NoTime /\ bookCrossed = FALSE
  /\ previous = None /\ client = None
  /\ scenario \in Scenarios /\ left = scenario.length
  /\ clocks = [trades |-> 1, depth |-> 1]
  /\ tape = <<>> /\ changes = <<>> /\ reported = NoCounters /\ base = NewBook.levels
  /\ losses = 0 /\ latest = 0

\* Takes one event of the scenario.
Arrives == left > 0 /\ left' = left - 1 /\ scenario' = scenario

\* ts_of_ev of an event without a time.
EventTime == IF lastEvent = NoTime THEN 0 ELSE lastEvent

Moved(clock, step) == SatSub(clock + step, 0)   \* no time is negative

Later(ts) == IF ts > latest THEN ts ELSE latest

(* maybe_finalize_snapshot, at the end of a trade or an update. *)
SnapshotDue(ts) ==
  lastSnapshot = NoTime \/ SatSub(ts, lastSnapshot) >= AtLeastOne(SnapshotMs)

\* build_snapshot, and what it resets: the counters, the crossed flag and the interval's
\* liquidity.  The arguments are what the event has made of them.
Emit(ts, count, levels, tracker) ==
  /\ lastSnapshot' = ts
  /\ reported' = SumOfCounters(reported, count)
  /\ interval' = NoCounters
  /\ bookCrossed' = FALSE
  /\ liquidity' = PruneLiquidity(ResetInterval(tracker), ts)
  /\ base' = levels

MaybeFinalize(ts, count, levels, tracker, crossed) ==
  IF SnapshotDue(ts) THEN Emit(ts, count, levels, tracker)
  ELSE /\ interval' = count /\ bookCrossed' = crossed
       /\ liquidity' = PruneLiquidity(tracker, ts)
       /\ UNCHANGED <<lastSnapshot, reported, base>>

\* prune, of the parts the event left alone.
PruneRest(now) ==
  /\ heatmap' = PruneHeatmap(heatmap, now)
  /\ clusters' = PruneClusters(clusters, now)
  /\ flow' = PruneFlow(flow, now)

(* Trades. *)
IsLarge(trade) == trade.qty >= LargeQuantity

Sweep(trade) ==
  LET closed == ClosedBy(clusters, trade)
  IN  IF closed # None /\ IsSweep(closed) THEN closed ELSE None

\* The best price of the aggressor's own side, and the liquidity it trades against.
BestFor(trade) == IF trade.aggressor = "Buy" THEN BestBid(book) ELSE BestAsk(book)
OpposingFor(trade) == DepthVolume(book, IF trade.aggressor = "Buy" THEN "Ask" ELSE "Bid")

\* The absorption detector sees a trade while the book is ready, not crossed and has that best.
Observed(trade) == book.ready /\ ~IsCrossed(book) /\ BestFor(trade) # NoPrice

Absorbed(trade) == IF Observed(trade) THEN Candidate(absorption, trade) ELSE None

\* The trade on the heatmap, with the sweep and the absorption it completes, each at its own time.
HeatmapWithTrade(trade) ==
  LET traded == CellTrade(heatmap, trade)
      large == IF IsLarge(trade) THEN CellLarge(traded, trade) ELSE traded
      swept == IF Sweep(trade) = None THEN large
               ELSE CellSweep(large, Sweep(trade).last, Sweep(trade).end)
  IN  IF Absorbed(trade) = None THEN swept
      ELSE CellAbsorption(swept, trade.price, Absorbed(trade).closed)

OneIf(condition) == IF condition THEN 1 ELSE 0

\* Mutant: sweeps are not counted in the interval.
CountedTradeNoSweep(trade) ==
  [interval EXCEPT !.buy = @ + Bought(trade), !.sell = @ + Sold(trade),
                   !.delta = @ + Bought(trade) - Sold(trade),
                   !.large = @ + OneIf(IsLarge(trade)),
                   !.absorptions = @ + OneIf(Absorbed(trade) # None)]

CountedTrade(trade) ==
  [interval EXCEPT !.buy = @ + Bought(trade), !.sell = @ + Sold(trade),
                   !.delta = @ + Bought(trade) - Sold(trade),
                   !.large = @ + OneIf(IsLarge(trade)),
                   !.sweeps = @ + OneIf(Sweep(trade) # None),
                   !.absorptions = @ + OneIf(Absorbed(trade) # None)]

FlowWithTrade(trade) ==
  LET counted == FlowTrade(flow, trade)
  IN  IF IsLarge(trade) THEN RecordLargeTrade(counted, trade.price) ELSE counted

ProcessTrade(trade) ==
  /\ lastEvent' = trade.ts
  /\ heatmap' = PruneHeatmap(HeatmapWithTrade(trade), trade.ts)
  /\ flow' = PruneFlow(FlowWithTrade(trade), trade.ts)
  /\ clusters' = PruneClusters(ClusterTrade(clusters, trade), trade.ts)
  /\ detected' = [large |-> detected.large + OneIf(IsLarge(trade)),
                  sweeps |-> detected.sweeps + OneIf(Sweep(trade) # None)]
  /\ absorption' = IF Observed(trade)
                   THEN AbsorptionTrade(absorption, trade, BestFor(trade), OpposingFor(trade))
                   ELSE absorption
  /\ MaybeFinalize(trade.ts, CountedTrade(trade), book.levels, liquidity, bookCrossed)
  /\ UNCHANGED book

OnTrade ==
  /\ Arrives
  /\ \E t \in scenario.trades :
       LET ts == Moved(clocks.trades, t.step)
           trade == [ts |-> ts, price |-> t.price, qty |-> t.qty, aggressor |-> t.aggressor]
       IN  /\ ProcessTrade(trade)
           /\ clocks' = [clocks EXCEPT !.trades = ts]
           /\ tape' = Append(tape, trade)
           /\ latest' = Later(ts)
  /\ UNCHANGED <<frames, changes, losses>>

(* Updates of the book. *)
\* The changes of an update, with its time.
Dated(list, ts) == [i \in DOMAIN list |-> [at |-> ts, change |-> list[i]]]

\* One reported change, and the heatmap cell of a replenishment.
MarkChange(acc, c) ==
  LET cells == CellChange(acc.cells, c.change, c.at)
  IN  [cells |-> IF Replenishes(acc.tracker, c.change, c.at)
                 THEN CellReplenishment(cells, c.change.price, c.at) ELSE cells,
       tracker |-> LiquidityChange(acc.tracker, c.change, c.at)]

HeatmapWithChanges(list) == FoldLeft(MarkChange, [cells |-> heatmap, tracker |-> liquidity], list)

Oppose(detector, c) == AbsorptionChange(detector, c.change, c.at)

AbsorptionWithChanges(list) == FoldLeft(Oppose, absorption, list)

\* An update that leaves the book crossed is an anomaly if the book was not known to be.
Crosses(crossed) == crossed /\ ~bookCrossed

ProcessUpdate(writes, ts) ==
  LET list == Dated(ReportedChanges(book, writes), ts)
      updated == ApplyUpdate(book, writes)
      folded == HeatmapWithChanges(list)
      crossed == IsCrossed(updated)
      count == [interval EXCEPT
                  !.replenishments = @ + folded.tracker.replenished - liquidity.replenished,
                  !.anomalies = @ + OneIf(Crosses(crossed))]
  IN  /\ lastEvent' = ts
      /\ book' = IF Crosses(crossed) THEN RecordCrossed(updated) ELSE updated
      /\ absorption' = AbsorptionWithChanges(list)
      /\ MaybeFinalize(ts, count, updated.levels, folded.tracker, crossed)
      /\ heatmap' = PruneHeatmap(folded.cells, ts)
      /\ clusters' = PruneClusters(clusters, ts)
      /\ flow' = PruneFlow(flow, ts)
      /\ UNCHANGED detected

OnUpdate ==
  /\ Arrives
  /\ \E u \in scenario.updates :
       LET ts == Moved(clocks.depth, u.step)
       IN  /\ ProcessUpdate(u.writes, ts)
           /\ clocks' = [clocks EXCEPT !.depth = ts]
           /\ changes' = changes \o Dated(ReportedChanges(book, u.writes), ts)
           /\ latest' = Later(ts)
  /\ UNCHANGED <<frames, tape, losses>>

(* Snapshots of the book, resyncs and connections. *)
OnSnapshot ==
  /\ Arrives
  /\ \E levels \in scenario.snapshots :
       LET loaded == ApplySnapshot(book, levels)
           crossed == IsCrossed(loaded)
       IN  /\ book' = IF crossed THEN RecordCrossed(loaded) ELSE loaded
           /\ bookCrossed' = crossed
           /\ interval' = [interval EXCEPT !.anomalies = @ + OneIf(crossed)]
           /\ base' = levels
  /\ liquidity' = PruneLiquidity(Clear(liquidity), EventTime)
  /\ PruneRest(EventTime)
  /\ UNCHANGED <<absorption, detected, lastEvent, lastSnapshot, frames, clocks, tape, changes,
                 reported, losses, latest>>

OnSynchronized ==
  /\ Arrives /\ "synchronized" \in scenario.signals
  /\ book' = SetReady(book, TRUE)
  /\ liquidity' = PruneLiquidity(liquidity, EventTime)
  /\ PruneRest(EventTime)
  /\ UNCHANGED <<absorption, detected, counters, frames, clocks, history>>

OnResyncStarted ==
  /\ Arrives /\ "resync" \in scenario.signals
  /\ book' = SetReady(book, FALSE)
  /\ liquidity' = PruneLiquidity(Clear(liquidity), EventTime)
  /\ base' = NewBook.levels
  /\ PruneRest(EventTime)
  /\ UNCHANGED <<absorption, detected, counters, frames, clocks, tape, changes, reported, losses,
                 latest>>

OnConnectionLost ==
  /\ Arrives /\ "lost" \in scenario.signals
  /\ interval' = [interval EXCEPT !.anomalies = @ + 1]
  /\ losses' = losses + 1
  /\ liquidity' = PruneLiquidity(liquidity, EventTime)
  /\ PruneRest(EventTime)
  /\ UNCHANGED <<book, absorption, detected, lastEvent, lastSnapshot, bookCrossed, frames, clocks,
                 tape, changes, reported, base, latest>>

(* main.rs. *)
\* The periodic frame: a delta to the frame before, if there was one, and the frame.
SendFrame ==
  /\ Arrives /\ "frame" \in scenario.signals
  /\ LET frame == FrameOf(heatmap, book)
     IN  /\ previous' = frame
         /\ client' = IF previous = None THEN NewestCells(frame)
                      ELSE ApplyDelta(client, DeltaOf(previous, frame))
  /\ UNCHANGED <<parts, counters, clocks, history>>

\* The end of the session: force_snapshot.
Finish ==
  /\ left > 0 /\ "stop" \in scenario.signals /\ lastEvent # NoTime
  /\ left' = 0
  /\ lastSnapshot' = lastEvent
  /\ reported' = SumOfCounters(reported, interval)
  /\ interval' = NoCounters /\ bookCrossed' = FALSE
  /\ liquidity' = ResetInterval(liquidity)
  /\ base' = book.levels
  /\ UNCHANGED <<book, flow, clusters, absorption, heatmap, detected, lastEvent, frames, scenario,
                 clocks, tape, changes, losses, latest>>

Next ==
  \/ OnTrade \/ OnUpdate \/ OnSnapshot \/ OnSynchronized \/ OnResyncStarted
  \/ OnConnectionLost \/ SendFrame \/ Finish

Spec == Init /\ [][Next]_vars
=============================================================================
