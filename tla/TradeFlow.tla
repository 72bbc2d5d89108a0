----------------------------- MODULE TradeFlow ------------------------------
(***************************************************************************)
(* Trade flow, analytics/flow.rs: session totals, the profile of volume at *)
(* price, and time buckets.  Total volumes are the sums of buy and sell.   *)
(***************************************************************************)
EXTENDS Analytics

Volumes == [buy : Nat, sell : Nat, delta : Int, count : Nat]
NoVolume == [buy |-> 0, sell |-> 0, delta |-> 0, count |-> 0]

WithTrade(v, trade) ==
  [v EXCEPT !.buy = @ + Bought(trade), !.sell = @ + Sold(trade),
            !.delta = @ + Bought(trade) - Sold(trade), !.count = @ + 1]

\* A bucket: when its interval began and, once it is completed, where the next one begins.
OpenBuckets == [interval : Intervals, start : Nat, volume : Volumes]
ClosedBuckets == [interval : Intervals, start : Nat, end : Nat, volume : Volumes, cvdEnd : Int]

Flows ==
  [totals : Volumes, profile : [Prices -> Volumes], large : [Prices -> Nat],
   open : SUBSET OpenBuckets, completed : Seq(ClosedBuckets)]

NewFlow ==
  [totals |-> NoVolume, profile |-> [p \in Prices |-> NoVolume], large |-> [p \in Prices |-> 0],
   open |-> {}, completed |-> <<>>]

\* The session's cumulative volume delta is the totals' delta.
Cvd(flow) == flow.totals.delta

Finalized(bucket, end, cvd) ==
  [interval |-> bucket.interval, start |-> bucket.start, end |-> end, volume |-> bucket.volume,
   cvdEnd |-> cvd]

\* The open buckets that a trade is in.
Joined(flow, trade) == {b \in flow.open : b.start = SlotOf(trade.ts, b.interval)}

\* The buckets that a trade completes: of each interval in which it joins none, the newest one
\* that began before its own.
Passed(flow, trade) ==
  LET earlier == {b \in flow.open : b.start < SlotOf(trade.ts, b.interval)}
  IN  {b \in earlier : /\ \A c \in Joined(flow, trade) : c.interval # b.interval
                       /\ \A c \in earlier : c.interval = b.interval => c.start <= b.start}

\* Mutant: the bucket that a trade joins starts over.
VolumeBeforeLost(flow, trade, interval) == NoVolume

\* What a trade finds in its bucket of an interval.
VolumeBefore(flow, trade, interval) ==
  LET mine == {b \in Joined(flow, trade) : b.interval = interval}
  IN  IF mine = {} THEN NoVolume ELSE (CHOOSE b \in mine : TRUE).volume

\* The buckets of a trade, one of each interval.
Entered(flow, trade) ==
  {[interval |-> w, start |-> SlotOf(trade.ts, w),
    volume |-> WithTrade(VolumeBefore(flow, trade, w), trade)] : w \in Intervals}

\* The buckets that are completed at the trade, each where its successor begins.
Completed(flow, trade) ==
  {Finalized(b, SlotOf(trade.ts, b.interval), WithTrade(flow.totals, trade).delta) :
     b \in Passed(flow, trade)}

\* on_trade goes through the intervals one by one; they do not touch each other's buckets.
FlowTrade(flow, trade) ==
  [flow EXCEPT
     !.totals = WithTrade(@, trade), !.profile[trade.price] = WithTrade(@, trade),
     !.open = (@ \ (Joined(flow, trade) \cup Passed(flow, trade))) \cup Entered(flow, trade),
     !.completed = @ \o SetToSeq(Completed(flow, trade))]

RecordLargeTrade(flow, price) == [flow EXCEPT !.large[price] = @ + 1]

\* Completed buckets leave at the front while they ended before the cutoff.
PruneFlow(flow, now) ==
  [flow EXCEPT !.completed = WithoutOldFront(@, LAMBDA b : b.end < Cutoff(now))]
=============================================================================
