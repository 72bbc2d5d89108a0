---------------------------- MODULE AnalyticsInv ----------------------------
(***************************************************************************)
(* What the analytics engine promises about the events it was given.       *)
(***************************************************************************)
EXTENDS AnalyticsEngine

\* The type invariant: every part of the engine keeps its shape, and no counter is negative.
TypeOK ==
  /\ book \in Books
  /\ flow.totals \in Volumes /\ flow.profile \in [Prices -> Volumes]
  /\ flow.open \subseteq OpenBuckets
  /\ \A b \in ToSet(flow.completed) : b \in ClosedBuckets /\ b.start < b.end
  /\ liquidity.added \in Nat /\ liquidity.removed \in Nat /\ liquidity.replenished \in Nat
  /\ \A k \in Keys : liquidity.levels[k] \in Persistences \cup {None}
  /\ clusters.open \in TradeClusters \cup {None}
  /\ ToSet(clusters.closed) \subseteq TradeClusters
  /\ \A p \in Prices : absorption.windows[p] \in AbsorptionWindows \cup {None}
  /\ absorption.count \in Nat /\ detected \in [large : Nat, sweeps : Nat]
  /\ IsHeatmap(heatmap)
  /\ \A field \in DOMAIN NoCounters \ {"delta"} : interval[field] \in Nat
  /\ lastEvent \in Nat \cup {NoTime} /\ lastSnapshot \in Nat \cup {NoTime}
  /\ bookCrossed \in BOOLEAN

\* The volume of the trades at some positions of the tape.
VolumeAt(positions) ==
  LET buy == SumOver(positions, LAMBDA i : Bought(tape[i]))
      sell == SumOver(positions, LAMBDA i : Sold(tape[i]))
  IN  [buy |-> buy, sell |-> sell, delta |-> buy - sell, count |-> Cardinality(positions)]

\* The pieces of an interval's bucket: late trades open it again after it was completed.
BucketVolume(width, start) ==
  LET mine(b) == b.interval = width /\ b.start = start
      opened == {b \in flow.open : mine(b)}
      closed == {i \in DOMAIN flow.completed : mine(flow.completed[i])}
  IN  [field \in DOMAIN NoVolume |->
         SumOver(opened, LAMBDA b : b.volume[field])
           + SumOver(closed, LAMBDA i : flow.completed[i].volume[field])]

\* Trade flow is the tape: the session's totals, the profile of every price, and, of every
\* interval that is within retention, the volume of its buckets together, in whatever order
\* the trades' times came (flow.rs, on_trade, finalize_bucket and prune).
FlowMatchesTape ==
  /\ flow.totals = VolumeAt(DOMAIN tape)
  /\ \A p \in Prices :
       LET here == {i \in DOMAIN tape : tape[i].price = p}
       IN  /\ flow.profile[p] = VolumeAt(here)
           /\ flow.large[p] = Cardinality({i \in here : IsLarge(tape[i])})
  /\ \A width \in Intervals : \A n \in DOMAIN tape :
       LET start == SlotOf(tape[n].ts, width)
       IN  start + width >= Cutoff(latest) =>
             BucketVolume(width, start)
               = VolumeAt({i \in DOMAIN tape : SlotOf(tape[i].ts, width) = start})

\* Nothing is counted twice or lost between snapshots: what all of them report, with the
\* running interval, is what the session's own counters have (engine.rs, build_snapshot).
IntervalsAddUp ==
  LET all == SumOfCounters(reported, interval)
  IN  /\ all.buy = flow.totals.buy /\ all.sell = flow.totals.sell /\ all.delta = Cvd(flow)
      /\ all.large = detected.large /\ all.sweeps = detected.sweeps
      /\ all.absorptions = absorption.count
      /\ all.replenishments = liquidity.replenished
      /\ all.anomalies = book.crossed + losses

\* The liquidity tracker follows the shadow book through updates, snapshots and resyncs: what
\* it tracks is displayed, and added less removed is the change since the interval began
\* (liquidity.rs, on_level_change, clear and reset_interval).
LiquidityBalances ==
  /\ \A k \in Keys : liquidity.levels[k] # None =>
       liquidity.levels[k].current = book.levels[k]
  /\ liquidity.added - liquidity.removed
       = SumOver(Keys, LAMBDA k : book.levels[k]) - SumOver(Keys, LAMBDA k : base[k])

\* Every replenishment replenishes a decrease of its own: with those that still wait, they are
\* no more than the decreases there were (liquidity.rs, on_level_change).
ReplenishmentEvidence ==
  LET waiting == SumOver(Keys, LAMBDA k : Len(liquidity.decreases[k]))
  IN  liquidity.replenished + waiting
        <= Cardinality({i \in DOMAIN changes : IsDecrease(changes[i].change)})

\* A trade is in the cell of its price and its time's bucket, once: the executed volume of every
\* cell within retention is that of the tape (heatmap.rs, on_trade and prune).
CellsMatchTape ==
  \A k \in DOMAIN heatmap \cup {CellKey(t.ts, t.price) : t \in ToSet(tape)} :
    k[1] >= Cutoff(latest) =>
      LET cell == CellAt(heatmap, k)
          volume == VolumeAt({i \in DOMAIN tape : CellKey(tape[i].ts, tape[i].price) = k})
      IN  /\ cell.buy = volume.buy /\ cell.sell = volume.sell
          /\ cell.delta = volume.delta /\ cell.trades = volume.count

LastChange(k, side) ==
  LET of == {i \in DOMAIN changes : /\ CellKey(changes[i].at, changes[i].change.price) = k
                                    /\ changes[i].change.side = side}
  IN  IF of = {} THEN 0 ELSE changes[Max(of)].change.new

\* A cell's resting liquidity is the last its bucket saw, whatever came in the buckets before or
\* after, and added less removed is what rests (heatmap.rs, on_level_change).
RestingMatchesChanges ==
  \A k \in DOMAIN heatmap :
    LET cell == heatmap[k]
    IN  /\ cell.added - cell.removed = cell.bid + cell.ask
        /\ k[1] >= Cutoff(latest) =>
             cell.bid = LastChange(k, "Bid") /\ cell.ask = LastChange(k, "Ask")

\* The clusters that are kept, oldest first, and the open one.
ClusterList == clusters.closed \o (IF clusters.open = None THEN <<>> ELSE <<clusters.open>>)

\* What a cluster says of the trades from one position of the tape to another.
Describes(c, from, to) ==
  LET prices == {tape[i].price : i \in from..to}
      sizes == {tape[i].qty : i \in from..to}
  IN  /\ c.count = to - from + 1 /\ c.count > 0
      /\ c.first = tape[from].price /\ c.last = tape[to].price
      /\ c.start = tape[from].ts /\ c.end = tape[to].ts
      /\ {c.high, c.low} \subseteq prices /\ \A p \in prices : c.low <= p /\ p <= c.high
      /\ c.buy = VolumeAt(from..to).buy /\ c.sell = VolumeAt(from..to).sell
      /\ c.largest \in sizes /\ \A q \in sizes : q <= c.largest

\* How many trades are in the clusters behind the n-th.
Behind(n) == SumOver(n + 1 .. Len(ClusterList), LAMBDA i : ClusterList[i].count)

\* The clusters cut the latest part of the tape into stretches: every trade is in one, in order,
\* and each says of its stretch what is so (clusters.rs, on_trade and prune).
ClustersSplitTape ==
  /\ Behind(0) <= Len(tape)
  /\ \A n \in DOMAIN ClusterList :
       Describes(ClusterList[n], Len(tape) - Behind(n - 1) + 1, Len(tape) - Behind(n))

\* What it is for one aggressor to sweep the trades from one position of the tape to another.
Sweeps(from, to) ==
  /\ Cardinality({tape[i].price : i \in from..to}) >= SweepLevels
  /\ \A i \in from .. to - 1 : GoesWith(tape[i].aggressor, tape[i + 1].price, tape[i].price)
  /\ VolumeAt(from..to).buy + VolumeAt(from..to).sell >= SweepVolume
  /\ SatSub(tape[to].ts, tape[from].ts) <= SweepMs

\* A sweep that is reported of trades of one side went through that many distinct prices, in that
\* direction, in that time (sweeps.rs, on_cluster; of both sides, levels_crossed may count a
\* price more than once).
SweepsAreReal ==
  [][detected'.sweeps > detected.sweeps =>
       LET from == Len(tape) - clusters.open.count + 1
           to == Len(tape)
       IN  Cardinality({tape[i].aggressor : i \in from..to}) = 1 => Sweeps(from, to)]_vars

\* No trade is evidence of two absorptions, or of one and of a window that is open: the
\* candidates' least evidence and the open windows fit in the tape (absorption.rs, on_trade).
AbsorptionEvidence ==
  LET open == {p \in Prices : absorption.windows[p] # None}
  IN  /\ absorption.count * AbsorptionTrades
           + SumOver(open, LAMBDA p : absorption.windows[p].trades) <= Len(tape)
      /\ absorption.count * AbsorptionVolume
           + SumOver(open, LAMBDA p : absorption.windows[p].volume)
           <= flow.totals.buy + flow.totals.sell

\* A client that took the first frame and then only deltas shows the newest cell of every price
\* of the current frame (heatmap.rs, compute; store.ts, receiveDelta).
ClientMatchesFrame == previous # None => client = NewestCells(previous)
=============================================================================
