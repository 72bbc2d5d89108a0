----------------------------- MODULE Analytics ------------------------------
(***************************************************************************)
(* What the parts of the analytics engine share: its configuration         *)
(* (analytics/config.rs), prices, sides, trades and integer helpers.       *)
(* Times are the venue's, in milliseconds; quantities are ticks.           *)
(***************************************************************************)
EXTENDS Integers, Sequences, FiniteSets, FiniteSetsExt, SequencesExt, Functions

CONSTANTS Prices,              \* external: the price ticks that occur
          Intervals,           \* aggregation_intervals_ms
          CellMs,              \* heatmap_cell_ms
          RetentionMs,         \* retention_ms
          SnapshotMs,          \* snapshot_interval_ms
          ImbalanceDepth,      \* imbalance_depth
          LargeQuantity,       \* large_trade_min_quantity_ticks
          ClusterMs,           \* cluster_window_ms
          ClusterRange,        \* cluster_price_range_raw()
          SweepMs,             \* sweep_window_ms
          SweepLevels,         \* sweep_min_levels
          SweepVolume,         \* sweep_min_volume_ticks
          AbsorptionMs,        \* absorption_window_ms
          AbsorptionVolume,    \* absorption_min_volume_ticks
          AbsorptionTrades,    \* absorption_min_trades
          AbsorptionExcursion, \* absorption_max_excursion_ticks
          TickSize,            \* tick_size_ticks
          ReplenishmentMs,     \* replenishment_window_ms
          Threshold            \* confidence_threshold, in percent

ASSUME AnalyticsAssumption ==
  /\ Prices \subseteq Nat \ {0} /\ IsFiniteSet(Prices)
  /\ Intervals \subseteq Nat \ {0} /\ IsFiniteSet(Intervals)
  /\ \A n \in {CellMs, SweepLevels, SweepVolume, AbsorptionVolume} : n \in Nat \ {0}
  /\ \A n \in {RetentionMs, SnapshotMs, ImbalanceDepth, LargeQuantity, ClusterMs, ClusterRange,
               SweepMs, AbsorptionMs, AbsorptionTrades, AbsorptionExcursion, TickSize,
               ReplenishmentMs, Threshold} : n \in Nat

NoPrice == 0    \* no price, or no spread
NoTime == -1
None == [none |-> TRUE]   \* an Option that is empty

Sides == {"Bid", "Ask"}
Aggressors == {"Buy", "Sell"}

Trades == [ts : Nat, price : Prices, qty : Nat, aggressor : Aggressors]

Bought(trade) == IF trade.aggressor = "Buy" THEN trade.qty ELSE 0
Sold(trade) == IF trade.aggressor = "Sell" THEN trade.qty ELSE 0

\* Mutant: a subtraction that does not stop at 0.
PlainSub(a, b) == a - b

SatSub(a, b) == IF a > b THEN a - b ELSE 0   \* saturating_sub
AtLeastOne(n) == IF n > 1 THEN n ELSE 1      \* max(1)
AbsDiff(a, b) == IF a > b THEN a - b ELSE b - a

SlotOf(ts, width) == (ts \div width) * width
Cutoff(now) == SatSub(now, RetentionMs)

\* A map with what another one has in the place of its own.
Over(f, g) == [k \in DOMAIN f \cup DOMAIN g |-> IF k \in DOMAIN f THEN f[k] ELSE g[k]]

Put(f, key, value) == Over([k \in {key} |-> value], f)
Drop(f, keys) == [key \in DOMAIN f \ keys |-> f[key]]

\* The elements of a list from the first of some positions on.
FromFirst(list, positions) ==
  IF positions = {} THEN <<>> ELSE SubSeq(list, Min(positions), Len(list))

\* The elements of a list from the first one on that does not satisfy Old.
WithoutOldFront(list, Old(_)) == FromFirst(list, {i \in DOMAIN list : ~Old(list[i])})

\* The sum of what Of yields for the elements of a set.
SumOver(S, Of(_)) == SumFunction([x \in S |-> Of(x)])
=============================================================================
