------------------------------ MODULE Clusters ------------------------------
(***************************************************************************)
(* Runs of trades close in time and price, analytics/clusters.rs, and the  *)
(* tests that make a closed one a sweep candidate, analytics/sweeps.rs.    *)
(***************************************************************************)
EXTENDS Analytics

TradeClusters ==
  [start : Nat, end : Nat, high : Prices, low : Prices, buy : Nat, sell : Nat, count : Nat,
   largest : Nat, side : Aggressors, levels : Nat, monotonic : BOOLEAN, first : Prices,
   last : Prices]

ClusterTrackers == [open : TradeClusters \cup {None}, closed : Seq(TradeClusters)]
NewClusters == [open |-> None, closed |-> <<>>]

\* An empty cluster at the trade that begins it.
NewCluster(trade) ==
  [start |-> trade.ts, end |-> trade.ts, high |-> trade.price, low |-> trade.price,
   buy |-> 0, sell |-> 0, count |-> 0, largest |-> 0, side |-> trade.aggressor, levels |-> 1,
   monotonic |-> TRUE, first |-> trade.price, last |-> trade.price]

Fits(cluster, trade) ==
  /\ SatSub(trade.ts, cluster.end) <= ClusterMs
  /\ AbsDiff(trade.price, cluster.last) <= ClusterRange

\* A price goes the way of the side that dominated before the trade.
GoesWith(side, price, last) == IF side = "Buy" THEN price >= last ELSE price <= last

\* Mutant: a price that turns back does not end the progression.
WithTradeInAnyDirection(c, trade) ==
  LET buy == c.buy + Bought(trade)
      sell == c.sell + Sold(trade)
  IN  [c EXCEPT !.end = trade.ts, !.high = IF trade.price > @ THEN trade.price ELSE @,
                !.low = IF trade.price < @ THEN trade.price ELSE @,
                !.buy = buy, !.sell = sell, !.count = @ + 1,
                !.largest = IF trade.qty > @ THEN trade.qty ELSE @,
                !.levels = IF trade.price # c.last THEN @ + 1 ELSE @,
                !.last = trade.price, !.side = IF buy >= sell THEN "Buy" ELSE "Sell"]

ClusterWithTrade(c, trade) ==
  LET buy == c.buy + Bought(trade)
      sell == c.sell + Sold(trade)
  IN  [c EXCEPT !.end = trade.ts, !.high = IF trade.price > @ THEN trade.price ELSE @,
                !.low = IF trade.price < @ THEN trade.price ELSE @,
                !.buy = buy, !.sell = sell, !.count = @ + 1,
                !.largest = IF trade.qty > @ THEN trade.qty ELSE @,
                !.levels = IF trade.price # c.last THEN @ + 1 ELSE @,
                !.monotonic = @ /\ GoesWith(c.side, trade.price, c.last),
                !.last = trade.price, !.side = IF buy >= sell THEN "Buy" ELSE "Sell"]

\* The cluster that a trade closes, if it does.
ClosedBy(tracker, trade) ==
  IF tracker.open # None /\ ~Fits(tracker.open, trade) THEN tracker.open ELSE None

\* Mutant: the trade that closes a cluster is in none.
ClusterTradeSkips(tracker, trade) ==
  IF ClosedBy(tracker, trade) # None
  THEN [open |-> NewCluster(trade), closed |-> Append(tracker.closed, tracker.open)]
  ELSE [tracker EXCEPT !.open = ClusterWithTrade(IF @ = None THEN NewCluster(trade) ELSE @, trade)]

ClusterTrade(tracker, trade) ==
  IF ClosedBy(tracker, trade) # None
  THEN [open |-> ClusterWithTrade(NewCluster(trade), trade),
        closed |-> Append(tracker.closed, tracker.open)]
  ELSE [tracker EXCEPT !.open = ClusterWithTrade(IF @ = None THEN NewCluster(trade) ELSE @, trade)]

PruneClusters(tracker, now) ==
  [tracker EXCEPT !.closed = WithoutOldFront(@, LAMBDA c : c.end < Cutoff(now))]

Total(cluster) == cluster.buy + cluster.sell
Dominant(cluster) == IF cluster.side = "Buy" THEN cluster.buy ELSE cluster.sell

\* on_cluster.  Past its gates the level, volume and time scores are at their most, 35, 30 and
\* 15; the share of the dominant side adds 20 of what it is.
IsSweep(cluster) ==
  /\ SatSub(cluster.end, cluster.start) <= SweepMs
  /\ cluster.levels >= SweepLevels
  /\ cluster.monotonic
  /\ Total(cluster) >= SweepVolume
  /\ 2 * Dominant(cluster) >= Total(cluster)
  /\ 80 * Total(cluster) + 20 * Dominant(cluster) >= Threshold * Total(cluster)
=============================================================================
