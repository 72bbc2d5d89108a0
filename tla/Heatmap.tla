------------------------------ MODULE Heatmap -------------------------------
(***************************************************************************)
(* The heatmap, analytics/heatmap.rs: executed volume, resting liquidity   *)
(* and signals per price and time bucket, the frames drawn from it, and    *)
(* the deltas between frames.  The price grid is the tick grid: nothing    *)
(* sets a price aggregation other than 1.                                  *)
(***************************************************************************)
EXTENDS AnalyticsBook

CONSTANTS FrameRange,   \* how far from the mid price a frame reaches
          DefaultMid    \* the middle of a frame without a mid price

ASSUME FrameAssumption == FrameRange \in Nat /\ DefaultMid \in Nat

Cells ==
  [bid : Nat, ask : Nat, added : Nat, removed : Nat, buy : Nat, sell : Nat, delta : Int,
   trades : Nat, large : Nat, replenished : Nat, absorbed : Nat, swept : Nat]

EmptyCell ==
  [bid |-> 0, ask |-> 0, added |-> 0, removed |-> 0, buy |-> 0, sell |-> 0, delta |-> 0,
   trades |-> 0, large |-> 0, replenished |-> 0, absorbed |-> 0, swept |-> 0]

\* A heatmap is a map from (bucket start, price) to cells.  A bucket is there while it has one.
NewHeatmap == [k \in {} |-> EmptyCell]
IsHeatmap(cells) ==
  DOMAIN cells \subseteq Nat \X Prices /\ \A k \in DOMAIN cells : cells[k] \in Cells

CellKey(ts, price) == <<SlotOf(ts, CellMs), price>>
CellAt(cells, key) == IF key \in DOMAIN cells THEN cells[key] ELSE EmptyCell

CellTrade(cells, trade) ==
  LET key == CellKey(trade.ts, trade.price)
  IN  Put(cells, key, [CellAt(cells, key) EXCEPT
        !.trades = @ + 1, !.buy = @ + Bought(trade), !.sell = @ + Sold(trade),
        !.delta = @ + Bought(trade) - Sold(trade)])

CellLarge(cells, trade) ==
  LET key == CellKey(trade.ts, trade.price)
  IN  Put(cells, key, [CellAt(cells, key) EXCEPT !.large = @ + trade.qty])

CellSweep(cells, price, ts) ==
  LET key == CellKey(ts, price)
  IN  Put(cells, key, [CellAt(cells, key) EXCEPT !.swept = @ + 1])

CellAbsorption(cells, price, ts) ==
  LET key == CellKey(ts, price)
  IN  Put(cells, key, [CellAt(cells, key) EXCEPT !.absorbed = @ + 1])

CellReplenishment(cells, price, ts) ==
  LET key == CellKey(ts, price)
  IN  Put(cells, key, [CellAt(cells, key) EXCEPT !.replenished = @ + 1])

\* Mutant: added and removed are those of the level, not of the cell.
CellChangeOfLevel(cells, change, ts) ==
  LET key == CellKey(ts, change.price)
      counted == [CellAt(cells, key) EXCEPT
                    !.added = @ + SatSub(change.new, change.old),
                    !.removed = @ + SatSub(change.old, change.new)]
  IN  Put(cells, key, IF change.side = "Bid" THEN [counted EXCEPT !.bid = change.new]
                      ELSE [counted EXCEPT !.ask = change.new])

\* on_level_change compares with what the cell has, which is 0 in a new bucket.
CellChange(cells, change, ts) ==
  LET key == CellKey(ts, change.price)
      cell == CellAt(cells, key)
      had == IF change.side = "Bid" THEN cell.bid ELSE cell.ask
      counted == [cell EXCEPT !.added = @ + SatSub(change.new, had),
                              !.removed = @ + SatSub(had, change.new)]
  IN  Put(cells, key, IF change.side = "Bid" THEN [counted EXCEPT !.bid = change.new]
                      ELSE [counted EXCEPT !.ask = change.new])

\* Mutant: the bucket that starts at the cutoff leaves as well.
PruneHeatmapAtCutoff(cells, now) == Drop(cells, {k \in DOMAIN cells : k[1] <= Cutoff(now)})

\* Buckets that start before the cutoff leave, wherever they are.
PruneHeatmap(cells, now) == Drop(cells, {k \in DOMAIN cells : k[1] < Cutoff(now)})

(* What the heatmap adds up to: its digest, and a frame's summary. *)
SumOf(cells, field) == SumOver(DOMAIN cells, LAMBDA k : cells[k][field])
Digest(cells) == [field \in DOMAIN EmptyCell |-> SumOf(cells, field)]

SummaryFields == DOMAIN EmptyCell \ {"bid", "ask"}
Summary(cells) == [field \in SummaryFields |-> SumOf(cells, field)]

(* Frames, main.rs and from_heatmap: the cells near the mid price. *)
Middle(book) ==
  IF SpreadTicks(book) = NoPrice THEN DefaultMid ELSE (BestBid(book) + BestAsk(book)) \div 2

Visible(cells, book) ==
  {k \in DOMAIN cells : AbsDiff(k[2], Middle(book)) <= FrameRange}

FrameOf(cells, book) ==
  LET seen == [k \in Visible(cells, book) |-> cells[k]]
  IN  [cells |-> seen, summary |-> Summary(seen)]

\* The map that compute builds of a frame: a price has the cell that is last in it, its newest.
NewestCells(frame) ==
  [p \in {k[2] : k \in DOMAIN frame.cells} |->
     frame.cells[<<Max({k[1] : k \in {j \in DOMAIN frame.cells : j[2] = p}}), p>>]]

\* Mutant: a price that left the frame is not reported.
DeltaWithoutRemovals(previous, current) ==
  LET prev == NewestCells(previous)
      curr == NewestCells(current)
      fresh == DOMAIN curr \ DOMAIN prev
      changed == {p \in DOMAIN curr \cap DOMAIN prev : curr[p] # prev[p]}
  IN  [cells |-> [p \in fresh \cup changed |-> curr[p]], removed |-> {},
       summary |-> [field \in SummaryFields |->
          SatSub(current.summary[field], previous.summary[field])]]

\* HeatmapDelta::compute.  The differences of the summary, except that of delta, stop at 0.
DeltaOf(previous, current) ==
  LET prev == NewestCells(previous)
      curr == NewestCells(current)
      fresh == DOMAIN curr \ DOMAIN prev
      changed == {p \in DOMAIN curr \cap DOMAIN prev : curr[p] # prev[p]}
  IN  [cells |-> [p \in fresh \cup changed |-> curr[p]],
       removed |-> DOMAIN prev \ DOMAIN curr,
       summary |-> [field \in SummaryFields |->
          IF field = "delta" THEN current.summary.delta - previous.summary.delta
          ELSE SatSub(current.summary[field], previous.summary[field])]]

\* A client that has a map of cells and receives a delta.
ApplyDelta(shown, delta) == Over(delta.cells, Drop(shown, delta.removed))
=============================================================================
