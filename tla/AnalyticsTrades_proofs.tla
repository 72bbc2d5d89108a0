----------------------- MODULE AnalyticsTrades_proofs -----------------------
(***************************************************************************)
(* What the analytics engine makes of the trades, for every value of the   *)
(* constants: that no trade is evidence of two absorptions, that the       *)
(* buckets of the flow have the volume of their intervals, that the        *)
(* clusters cut the tape, and that a reported sweep swept the book.        *)
(***************************************************************************)
EXTENDS AnalyticsEngine_proofs

-----------------------------------------------------------------------------
(* The evidence of absorptions. *)

\* What the windows of a detector have taken of the tape.
TradesOf(d) == [p \in Prices |-> TradesIn(d.windows[p])]
VolumesOf(d) == [p \in Prices |-> VolumeIn(d.windows[p])]
TradesTaken(d) == d.count * AbsorptionTrades + SumFunction(TradesOf(d))
VolumeTaken(d) == d.count * AbsorptionVolume + SumFunction(VolumesOf(d))

\* No more was taken than there is.
Taken ==
  /\ TradesTaken(absorption) <= Len(tape)
  /\ VolumeTaken(absorption) <= flow.totals.buy + flow.totals.sell

\* There are finitely many prices.
LEMMA PricesFinite == IsFiniteSet(Prices)
BY Constants

\* One window takes something in, is let go, or is let go as a candidate with enough in it.
LEMMA OneMoves ==
  ASSUME NEW f \in [Prices -> Nat], NEW g \in [Prices -> Nat], NEW p \in Prices,
         \A q \in Prices \ {p} : g[q] = f[q],
         NEW a \in Nat, NEW m \in Nat, NEW n \in Nat, NEW x \in Nat,
         \/ m = n /\ g[p] = f[p] + x
         \/ m = n /\ g[p] = 0
         \/ m = n + 1 /\ g[p] = 0 /\ f[p] >= a
  PROVE  m * a + SumFunction(g) <= n * a + SumFunction(f) + x
<1>1. f \in [Prices -> Int]
  OBVIOUS
<1>2. g \in [Prices -> Int]
  OBVIOUS
<1>3. SumFunction(g) = SumFunction(f) + g[p] - f[p] /\ SumFunction(f) \in Int
  BY <1>1, <1>2, PricesFinite, SumChanges
<1> DEFINE fp == f[p]
           gp == g[p]
           sf == SumFunction(f)
           sg == SumFunction(g)
           na == n * a
           ma == m * a
<1>4. /\ fp \in Nat /\ gp \in Nat /\ sf \in Int /\ sg = sf + gp - fp /\ na \in Nat
      /\ (n + 1) * a = na + a
  BY <1>3
<1>5. \/ m = n /\ gp = fp + x
      \/ m = n /\ gp = 0
      \/ m = n + 1 /\ gp = 0 /\ fp >= a
  OBVIOUS
<1>6. m = n => ma = na
  OBVIOUS
<1>7. m = n + 1 => ma = na + a
  BY <1>4
<1> HIDE DEF fp, gp, sf, sg, na, ma
<1>8. ma + sg <= na + sf + x
  <2>1. CASE m = n /\ gp = fp + x
    BY <1>4, <1>6, <2>1
  <2>2. CASE m = n /\ gp = 0
    BY <1>4, <1>6, <2>2
  <2>3. CASE m = n + 1 /\ gp = 0 /\ fp >= a
    BY <1>4, <1>7, <2>3
  <2> QED BY <1>5, <2>1, <2>2, <2>3
<1> QED BY <1>8 DEF sf, sg, na, ma

\* What windows have taken are natural numbers.
LEMMA TakenTypes ==
  ASSUME NEW d \in Detectors
  PROVE  /\ TradesOf(d) \in [Prices -> Nat] /\ VolumesOf(d) \in [Prices -> Nat]
         /\ TradesTaken(d) \in Nat /\ VolumeTaken(d) \in Nat /\ d.count \in Nat
<1>1. d.count \in Nat /\ \A p \in Prices : d.windows[p] \in AbsorptionWindows \cup {None}
  BY DEF Detectors
<1>2. \A p \in Prices : TradesIn(d.windows[p]) \in Nat /\ VolumeIn(d.windows[p]) \in Nat
  BY <1>1 DEF TradesIn, VolumeIn, AbsorptionWindows
<1>3. TradesOf(d) \in [Prices -> Nat] /\ VolumesOf(d) \in [Prices -> Nat]
  BY <1>2 DEF TradesOf, VolumesOf
<1>4. SumFunction(TradesOf(d)) \in Nat /\ SumFunction(VolumesOf(d)) \in Nat
  BY <1>3, Constants, SumNat
<1>5. d.count * AbsorptionTrades \in Nat /\ d.count * AbsorptionVolume \in Nat
  BY <1>1, Constants
<1>6. TradesTaken(d) \in Nat /\ VolumeTaken(d) \in Nat
  BY <1>4, <1>5 DEF TradesTaken, VolumeTaken
<1> QED BY <1>1, <1>3, <1>6

\* A trade is taken by one window at most, and a candidate lets go of what it needed.
LEMMA TradeTaken ==
  ASSUME NEW d \in Detectors, NEW trade \in Trades, NEW best \in Prices, NEW opposing \in Nat
  PROVE  LET u == AbsorptionTrade(d, trade, best, opposing)
         IN  /\ TradesTaken(u) <= TradesTaken(d) + 1
             /\ VolumeTaken(u) <= VolumeTaken(d) + trade.qty
<1> DEFINE u == AbsorptionTrade(d, trade, best, opposing)
           p == trade.price
           w == d.windows[p]
           v == u.windows[p]
<1>1. /\ u \in Detectors /\ p \in Prices
      /\ \A q \in Prices \ {p} : u.windows[q] = d.windows[q]
      /\ \/ /\ u.count = d.count
            /\ TradesIn(v) = TradesIn(w) + 1 /\ VolumeIn(v) = VolumeIn(w) + trade.qty
         \/ /\ u.count = d.count /\ TradesIn(v) = 0 /\ VolumeIn(v) = 0
         \/ /\ u.count = d.count + 1 /\ TradesIn(v) = 0 /\ VolumeIn(v) = 0
            /\ TradesIn(w) >= AbsorptionTrades /\ VolumeIn(w) >= AbsorptionVolume
  BY AbsorptionTradeIs
<1> HIDE DEF u
<1>2. trade.qty \in Nat /\ AbsorptionTrades \in Nat /\ AbsorptionVolume \in Nat
  BY Constants DEF Trades
<1> DEFINE f == TradesOf(d)
           g == TradesOf(u)
           fv == VolumesOf(d)
           gv == VolumesOf(u)
           m == u.count
           n == d.count
           qty == trade.qty
<1>3. /\ f \in [Prices -> Nat] /\ g \in [Prices -> Nat] /\ m \in Nat /\ n \in Nat
      /\ fv \in [Prices -> Nat] /\ gv \in [Prices -> Nat]
  BY <1>1, TakenTypes
<1>4. /\ g[p] = TradesIn(v) /\ f[p] = TradesIn(w)
      /\ gv[p] = VolumeIn(v) /\ fv[p] = VolumeIn(w)
  BY <1>1 DEF TradesOf, VolumesOf
<1>5. \A q \in Prices \ {p} : g[q] = f[q]
  BY <1>1 DEF TradesOf
<1>6. \A q \in Prices \ {p} : gv[q] = fv[q]
  BY <1>1 DEF VolumesOf
<1> HIDE DEF f, g, fv, gv, m, n, p, qty
<1>7. \/ m = n /\ g[p] = f[p] + 1
      \/ m = n /\ g[p] = 0
      \/ m = n + 1 /\ g[p] = 0 /\ f[p] >= AbsorptionTrades
  BY <1>1, <1>4 DEF m, n
<1>8. \/ m = n /\ gv[p] = fv[p] + qty
      \/ m = n /\ gv[p] = 0
      \/ m = n + 1 /\ gv[p] = 0 /\ fv[p] >= AbsorptionVolume
  BY <1>1, <1>4 DEF m, n, qty
<1>9. p \in Prices /\ qty \in Nat
  BY <1>1, <1>2 DEF qty
<1>10. m * AbsorptionTrades + SumFunction(g) <= n * AbsorptionTrades + SumFunction(f) + 1
  BY <1>2, <1>3, <1>5, <1>7, <1>9, OneMoves
<1>11. m * AbsorptionVolume + SumFunction(gv) <= n * AbsorptionVolume + SumFunction(fv) + qty
  BY <1>2, <1>3, <1>6, <1>8, <1>9, OneMoves
<1> QED BY <1>10, <1>11 DEF TradesTaken, VolumeTaken, f, g, fv, gv, m, n, qty, u

\* The changes of levels move no trade.
LEMMA ChangesTakeNothing ==
  ASSUME NEW d \in Detectors, NEW u \in Detectors, u.count = d.count,
         \A p \in Prices : /\ TradesIn(u.windows[p]) = TradesIn(d.windows[p])
                           /\ VolumeIn(u.windows[p]) = VolumeIn(d.windows[p])
  PROVE  TradesTaken(u) = TradesTaken(d) /\ VolumeTaken(u) = VolumeTaken(d)
<1>1. TradesOf(u) = TradesOf(d) /\ VolumesOf(u) = VolumesOf(d)
  BY DEF TradesOf, VolumesOf
<1> QED BY <1>1 DEF TradesTaken, VolumeTaken

\* Every step takes no more than it brings.
LEMMA NextTaken ==
  ASSUME Typed, Timely, Taken, [Next]_vars
  PROVE  Taken'
<1>1. /\ absorption \in Detectors /\ flow \in Flows /\ tape \in Seq(Trades) /\ Len(tape) \in Nat
      /\ flow.totals \in Volumes /\ EventTime \in Nat
  BY TimeTypes, LenProperties DEF Typed, Flows
<1>2. TradesTaken(absorption) \in Nat /\ VolumeTaken(absorption) \in Nat
  BY <1>1, TakenTypes
<1>3. CASE \E trade \in Trades : /\ ProcessTrade(trade) /\ Grown(tape', tape, trade)
                                 /\ latest' = Later(trade.ts) /\ changes' = changes
  <2>1. PICK trade \in Trades : ProcessTrade(trade) /\ Grown(tape', tape, trade)
    BY <1>3
  <2>2. trade.ts \in Nat /\ trade.qty \in Nat
    BY DEF Trades
  <2>3. Len(tape') = Len(tape) + 1
    BY <1>1, <2>1, TapeGrows
  <2>4. flow'.totals = WithTrade(flow.totals, trade)
    <3>1. flow' = PruneFlow(FlowWithTrade(trade), trade.ts)
      BY <2>1 DEF ProcessTrade
    <3>2. FlowWithTrade(trade) \in Flows /\ FlowWithTrade(trade).totals = WithTrade(flow.totals, trade)
      BY FlowWithTradeIs
    <3> QED BY <2>2, <3>1, <3>2, PruneFlowIs
  <2>5. flow'.totals.buy + flow'.totals.sell = flow.totals.buy + flow.totals.sell + trade.qty
    <3> DEFINE b == Bought(trade)
               s == Sold(trade)
               tb == flow.totals.buy
               tl == flow.totals.sell
    <3>1. b \in Nat /\ s \in Nat /\ b + s = trade.qty
      BY <1>1, WithTradeType
    <3>2. flow'.totals.buy = tb + b /\ flow'.totals.sell = tl + s /\ tb \in Nat /\ tl \in Nat
      BY <1>1, <2>4 DEF WithTrade, Volumes
    <3> HIDE DEF b, s, tb, tl
    <3>3. flow'.totals.buy + flow'.totals.sell = tb + tl + (b + s)
      BY <3>1, <3>2
    <3> QED BY <3>1, <3>3 DEF tb, tl
  <2>6. /\ absorption' \in Detectors
        /\ TradesTaken(absorption') <= TradesTaken(absorption) + 1
        /\ VolumeTaken(absorption') <= VolumeTaken(absorption) + trade.qty
    <3>1. CASE Observed(trade)
      <4>1. BestFor(trade) \in Prices /\ OpposingFor(trade) \in Nat
        BY <3>1, TradeParts
      <4>2. absorption' = AbsorptionTrade(absorption, trade, BestFor(trade), OpposingFor(trade))
        BY <2>1, <3>1 DEF ProcessTrade
      <4> DEFINE best == BestFor(trade)
                 opposing == OpposingFor(trade)
                 u == AbsorptionTrade(absorption, trade, best, opposing)
      <4>3. best \in Prices /\ opposing \in Nat /\ absorption' = u
        BY <4>1, <4>2
      <4> HIDE DEF best, opposing
      <4>4. /\ u \in Detectors /\ TradesTaken(u) <= TradesTaken(absorption) + 1
            /\ VolumeTaken(u) <= VolumeTaken(absorption) + trade.qty
        BY <1>1, <4>3, AbsorptionTradeIs, TradeTaken
      <4> HIDE DEF u
      <4> QED BY <4>3, <4>4
    <3>2. CASE ~Observed(trade)
      <4>1. absorption' = absorption
        BY <2>1, <3>2 DEF ProcessTrade
      <4> QED BY <1>1, <1>2, <2>2, <4>1
    <3> QED BY <3>1, <3>2
  <2>7. TradesTaken(absorption') \in Nat /\ VolumeTaken(absorption') \in Nat
    BY <2>6, TakenTypes
  <2> DEFINE a == TradesTaken(absorption)
             v == VolumeTaken(absorption)
             na == TradesTaken(absorption')
             nv == VolumeTaken(absorption')
             n == Len(tape)
             t == flow.totals.buy + flow.totals.sell
             q == trade.qty
  <2>8. t \in Nat
    BY <1>1 DEF Volumes
  <2>9. /\ a \in Nat /\ v \in Nat /\ na \in Nat /\ nv \in Nat /\ n \in Nat /\ q \in Nat
        /\ a <= n /\ v <= t /\ na <= a + 1 /\ nv <= v + q
    BY <1>1, <1>2, <2>2, <2>6, <2>7 DEF Taken
  <2> HIDE DEF a, v, na, nv, n, t, q
  <2>10. na <= n + 1 /\ nv <= t + q
    BY <2>8, <2>9
  <2> QED BY <2>3, <2>5, <2>10 DEF Taken, na, nv, n, t, q
<1>4. CASE \E writes \in Seq(Writes), ts \in Nat :
             /\ ProcessUpdate(writes, ts) /\ changes' = changes \o UpdateList(writes, ts)
             /\ latest' = Later(ts) /\ tape' = tape
  <2>1. PICK writes \in Seq(Writes), ts \in Nat : ProcessUpdate(writes, ts) /\ tape' = tape
    BY <1>4
  <2>2. /\ absorption' = AbsorptionWithChanges(UpdateList(writes, ts))
        /\ flow' = PruneFlow(flow, ts)
    BY <2>1, ProcessUpdateIs
  <2>3. UpdateList(writes, ts) \in Seq(DatedChanges)
    BY UpdateParts
  <2>4. /\ absorption' \in Detectors /\ absorption'.count = absorption.count
        /\ \A p \in Prices : /\ TradesIn(absorption'.windows[p]) = TradesIn(absorption.windows[p])
                             /\ VolumeIn(absorption'.windows[p]) = VolumeIn(absorption.windows[p])
    BY <1>1, <2>2, <2>3, OpposedIs
  <2>5. TradesTaken(absorption') = TradesTaken(absorption)
        /\ VolumeTaken(absorption') = VolumeTaken(absorption)
    BY <1>1, <2>4, ChangesTakeNothing
  <2>6. flow'.totals = flow.totals
    BY <1>1, <2>2, PruneFlowIs
  <2> QED BY <2>1, <2>5, <2>6 DEF Taken
<1>5. CASE Quiet
  <2>1. tape' = tape /\ absorption' = absorption /\ flow' \in {flow, PruneFlow(flow, EventTime)}
    BY <1>5, QuietIs
  <2>2. PruneFlow(flow, EventTime).totals = flow.totals
    BY <1>1, PruneFlowIs
  <2>3. flow'.totals = flow.totals
    BY <2>1, <2>2
  <2> QED BY <2>1, <2>3 DEF Taken
<1> QED BY <1>3, <1>4, <1>5, NextIs

\* No trade is evidence of two absorptions, or of one and of a window that is open
\* (absorption.rs, on_trade).
THEOREM AbsorptionsHaveEvidence == Spec => []AbsorptionEvidence
<1>1. Init => Typed /\ Timely /\ Taken
  <2> SUFFICES ASSUME Init PROVE Typed /\ Timely /\ Taken
    OBVIOUS
  <2>1. absorption = NewDetector /\ tape = <<>> /\ flow = NewFlow
    BY DEF Init
  <2>2. \A p \in Prices : TradesIn(absorption.windows[p]) = 0 /\ VolumeIn(absorption.windows[p]) = 0
    BY <2>1 DEF NewDetector, TradesIn, VolumeIn
  <2> DEFINE f == TradesOf(absorption)
             g == VolumesOf(absorption)
  <2>3. f \in [Prices -> Int] /\ \A p \in Prices : f[p] = 0
    BY <2>2 DEF TradesOf
  <2>4. g \in [Prices -> Int] /\ \A p \in Prices : g[p] = 0
    BY <2>2 DEF VolumesOf
  <2> HIDE DEF f, g
  <2>5. SumFunction(f) = 0
    BY <2>3, Constants, SumZeros
  <2>6. SumFunction(g) = 0
    BY <2>4, Constants, SumZeros
  <2>7. absorption.count = 0 /\ flow.totals.buy = 0 /\ flow.totals.sell = 0 /\ Len(tape) = 0
    BY <2>1, EmptySeq DEF NewDetector, NewFlow, NoVolume
  <2>8. 0 * AbsorptionTrades = 0 /\ 0 * AbsorptionVolume = 0
    BY Constants
  <2>9. Taken
    BY <2>5, <2>6, <2>7, <2>8 DEF Taken, TradesTaken, VolumeTaken, f, g
  <2> QED BY <2>9, InitTyped, NextTimely
<1>2. Typed /\ Timely /\ Taken /\ [Next]_vars => Typed' /\ Timely' /\ Taken'
  BY NextTyped, NextTimely, NextTaken
<1>3. Typed /\ Taken => AbsorptionEvidence
  <2> SUFFICES ASSUME Typed, Taken PROVE AbsorptionEvidence
    OBVIOUS
  <2> DEFINE open == {p \in Prices : absorption.windows[p] # None}
             f == [p \in open |-> absorption.windows[p].trades]
             g == [p \in open |-> absorption.windows[p].volume]
             ft == TradesOf(absorption)
             fv == VolumesOf(absorption)
  <2>1. absorption \in Detectors
    BY DEF Typed
  <2>2. ft \in [Prices -> Int]
    BY <2>1, TakenTypes
  <2>3. fv \in [Prices -> Int]
    BY <2>1, TakenTypes
  <2>4. open \in SUBSET Prices
    OBVIOUS
  <2>5. \A p \in open : absorption.windows[p] \in AbsorptionWindows
    BY <2>1 DEF Detectors
  <2>6. f \in [open -> Int]
    BY <2>5 DEF AbsorptionWindows
  <2>7. g \in [open -> Int]
    BY <2>5 DEF AbsorptionWindows
  <2>8. \A p \in open : ft[p] = f[p]
    BY DEF TradesOf, TradesIn
  <2>9. \A p \in open : fv[p] = g[p]
    BY DEF VolumesOf, VolumeIn
  <2>10. \A p \in Prices \ open : ft[p] = 0
    BY DEF TradesOf, TradesIn
  <2>11. \A p \in Prices \ open : fv[p] = 0
    BY DEF VolumesOf, VolumeIn
  <2>12. /\ SumOver(open, LAMBDA p : absorption.windows[p].trades) = SumFunction(f)
         /\ SumOver(open, LAMBDA p : absorption.windows[p].volume) = SumFunction(g)
    BY DEF SumOver
  <2> HIDE DEF open, f, g, ft, fv
  <2>13. SumFunction(ft) = SumFunction(f)
    BY <2>2, <2>4, <2>6, <2>8, <2>10, PricesFinite, SumSkips
  <2>14. SumFunction(fv) = SumFunction(g)
    BY <2>3, <2>4, <2>7, <2>9, <2>11, PricesFinite, SumSkips
  <2> QED BY <2>12, <2>13, <2>14 DEF Taken, TradesTaken, VolumeTaken, AbsorptionEvidence, open, ft, fv
<1> QED BY <1>1, <1>2, <1>3, PTL DEF Spec

-----------------------------------------------------------------------------
(* The buckets of the trade flow. *)

\* Times that are the starts of some interval's buckets.
Multiple(s, w) == \E q \in Nat : s = q * w

\* A later multiple is at least one width later.
LEMMA MultiplesApart ==
  ASSUME NEW w \in Nat \ {0}, NEW a, Multiple(a, w), NEW b, Multiple(b, w), a < b
  PROVE  a + w <= b
<1>1. PICK q \in Nat : a = q * w
  BY DEF Multiple
<1>2. PICK r \in Nat : b = r * w
  BY DEF Multiple
<1>3. q < r
  <2>1. CASE r <= q
    <3> DEFINE d == q - r
    <3>1. d \in Nat /\ q = r + d
      BY <2>1
    <3> HIDE DEF d
    <3>2. q * w = r * w + d * w /\ d * w \in Nat /\ r * w \in Nat
      BY <3>1
    <3> QED BY <1>1, <1>2, <3>2
  <2> QED BY <2>1
<1> DEFINE e == r - q - 1
<1>4. e \in Nat /\ r = q + (e + 1)
  BY <1>3
<1> HIDE DEF e
<1>5. r * w = q * w + (e * w + w) /\ e * w \in Nat /\ q * w \in Nat
  BY <1>4
<1> QED BY <1>1, <1>2, <1>5

\* The slot of a time is a multiple of its width.
LEMMA SlotMultiple ==
  ASSUME NEW ts \in Nat, NEW w \in Nat \ {0}
  PROVE  Multiple(SlotOf(ts, w), w) /\ SlotOf(ts, w) \in Nat
<1>1. ts \div w \in Nat
  OBVIOUS
<1> QED BY <1>1, SlotIs DEF Multiple, SlotOf

\* The parts of a volume, and what a trade adds to each.
Fields == {"buy", "sell", "delta", "count"}
Gain(trade) ==
  [buy |-> Bought(trade), sell |-> Sold(trade), delta |-> Bought(trade) - Sold(trade), count |-> 1]

\* A trade adds to every part of a volume.
LEMMA VolumeFields ==
  ASSUME NEW v \in Volumes, NEW trade \in Trades
  PROVE  /\ v = [field \in Fields |-> v[field]] /\ \A field \in Fields : v[field] \in Int
         /\ \A field \in Fields : Gain(trade)[field] \in Int
         /\ WithTrade(v, trade) = [field \in Fields |-> v[field] + Gain(trade)[field]]
         /\ NoVolume = [field \in Fields |-> 0]
<1> DEFINE b == Bought(trade)
           s == Sold(trade)
           buy == v.buy + b
           sell == v.sell + s
           delta == v.delta + b - s
           count == v.count + 1
<1>1. b \in Nat /\ s \in Nat
  BY WithTradeType
<1>2. WithTrade(v, trade)
        = [v EXCEPT !.buy = buy, !.sell = sell, !.delta = delta, !.count = count]
  BY DEF WithTrade
<1>3. Gain(trade) = [buy |-> b, sell |-> s, delta |-> b - s, count |-> 1]
  BY DEF Gain
<1> HIDE DEF b, s
<1>4. v = [field \in Fields |-> v[field]] /\ \A field \in Fields : v[field] \in Int
  BY DEF Volumes, Fields
<1>5. \A field \in Fields : Gain(trade)[field] \in Int
  BY <1>1, <1>3 DEF Fields
<1>6. delta = v.delta + (b - s)
  BY <1>1 DEF Volumes
<1>7. /\ v["buy"] + Gain(trade)["buy"] = buy /\ v["sell"] + Gain(trade)["sell"] = sell
      /\ v["delta"] + Gain(trade)["delta"] = delta /\ v["count"] + Gain(trade)["count"] = count
  BY <1>3, <1>6
<1> HIDE DEF buy, sell, delta, count
<1>8. WithTrade(v, trade) = [field \in Fields |-> v[field] + Gain(trade)[field]]
  <2>1. WithTrade(v, trade) = [buy |-> buy, sell |-> sell, delta |-> delta, count |-> count]
    BY <1>2 DEF Volumes
  <2>2. WithTrade(v, trade) = [field \in Fields |->
          CASE field = "buy" -> buy [] field = "sell" -> sell [] field = "delta" -> delta
            [] OTHER -> count]
    BY <2>1 DEF Fields
  <2>3. \A field \in Fields :
          v[field] + Gain(trade)[field]
            = CASE field = "buy" -> buy [] field = "sell" -> sell [] field = "delta" -> delta
                [] OTHER -> count
    BY <1>7 DEF Fields
  <2> QED BY <2>2, <2>3
<1>9. NoVolume = [field \in Fields |-> 0]
  BY DEF NoVolume, Fields
<1> QED BY <1>4, <1>5, <1>8, <1>9

\* The open buckets and the completed ones of an interval's start, and what they hold.
Opened(open, w, s) == {b \in open : b.interval = w /\ b.start = s}
OpenSum(open, w, s, field) == SumFunction([b \in Opened(open, w, s) |-> b.volume[field]])
ClosedAt(list, w, s) == {i \in DOMAIN list : list[i].interval = w /\ list[i].start = s}
ClosedSum(list, w, s, field) == SumFunction([i \in ClosedAt(list, w, s) |-> list[i].volume[field]])

\* The sum of one number.
LEMMA SumOne ==
  ASSUME NEW D, NEW x, D = {x}, NEW f \in [D -> Int]
  PROVE  SumFunction(f) = f[x]
<1> DEFINE none == {}
           d == Part(f, none)
<1>1. DOMAIN d = {} /\ d \in [none -> Int]
  BY DEF Part
<1>2. none \in SUBSET D /\ IsFiniteSet(none)
  BY FS_EmptySet
<1>3. x \in D /\ x \notin none /\ D \ {x} \subseteq none
  OBVIOUS
<1> HIDE DEF none
<1>4. \A y \in none : f[y] = d[y]
  BY DEF Part
<1> HIDE DEF d
<1>5. d \in [none -> Int]
  BY <1>1
<1>6. SumFunction(f) = SumFunction(d) + f[x]
  BY <1>2, <1>3, <1>4, <1>5, SumGrows
<1>7. SumFunction(d) = 0
  BY <1>1, SumEmpty
<1>8. f[x] \in Int
  BY <1>3
<1> QED BY <1>6, <1>7, <1>8

\* A set with one member.
Only(S, e) == S = {e}

\* What one open bucket, or none, holds.
LEMMA OpenSumIs ==
  ASSUME NEW open \in SUBSET OpenBuckets, NEW w, NEW s, NEW field \in Fields
  PROVE  /\ Opened(open, w, s) = {} => OpenSum(open, w, s, field) = 0
         /\ \A b : Only(Opened(open, w, s), b) =>
              OpenSum(open, w, s, field) = b.volume[field] /\ b.volume \in Volumes
<1> DEFINE D == Opened(open, w, s)
           f == [b \in D |-> b.volume[field]]
<1>1. \A b \in D : b.volume \in Volumes
  BY DEF Opened, OpenBuckets
<1>2. f \in [D -> Int] /\ DOMAIN f = D /\ \A b \in D : f[b] = b.volume[field]
  <2>1. \A v \in Volumes : v[field] \in Int
    BY DEF Volumes, Fields
  <2> QED BY <1>1, <2>1
<1>3. OpenSum(open, w, s, field) = SumFunction(f)
  BY DEF OpenSum
<1> HIDE DEF D, f
<1>4. D = {} => SumFunction(f) = 0
  BY <1>2, SumEmpty
<1>5. ASSUME NEW b, D = {b} PROVE SumFunction(f) = b.volume[field] /\ b.volume \in Volumes
  <2>1. SumFunction(f) = f[b]
    BY <1>2, <1>5, SumOne
  <2> QED BY <1>1, <1>2, <1>5, <2>1
<1> QED BY <1>3, <1>4, <1>5 DEF D, Only

\* The numbers that completed buckets have, in a finite set.
LEMMA ClosedTypes ==
  ASSUME NEW list \in Seq(ClosedBuckets), NEW w, NEW s, NEW field \in Fields
  PROVE  /\ IsFiniteSet(ClosedAt(list, w, s)) /\ ClosedAt(list, w, s) \subseteq 1..Len(list)
         /\ [i \in ClosedAt(list, w, s) |-> list[i].volume[field]] \in [ClosedAt(list, w, s) -> Int]
         /\ ClosedSum(list, w, s, field) \in Int /\ Len(list) \in Nat
         /\ DOMAIN list = 1..Len(list)
         /\ \A i \in 1..Len(list) : list[i].volume[field] \in Int
<1>1. /\ Len(list) \in Nat /\ DOMAIN list = 1..Len(list)
      /\ \A i \in 1..Len(list) : list[i] \in ClosedBuckets
  BY LenProperties, ElementOfSeq
<1>2. ClosedAt(list, w, s) \subseteq 1..Len(list) /\ IsFiniteSet(1..Len(list))
  BY <1>1, FS_Interval DEF ClosedAt
<1>3. IsFiniteSet(ClosedAt(list, w, s))
  BY <1>2, FS_Subset
<1>4. \A i \in 1..Len(list) : list[i].volume[field] \in Int
  <2>1. \A v \in Volumes : v[field] \in Int
    BY DEF Volumes, Fields
  <2> QED BY <1>1, <2>1 DEF ClosedBuckets
<1> DEFINE D == ClosedAt(list, w, s)
           f == [i \in D |-> list[i].volume[field]]
<1>5. f \in [D -> Int] /\ IsFiniteSet(D)
  BY <1>2, <1>3, <1>4
<1>6. ClosedSum(list, w, s, field) = SumFunction(f)
  BY DEF ClosedSum
<1> HIDE DEF f, D
<1>7. SumFunction(f) \in Int
  BY <1>5, SumTakesOne
<1> QED BY <1>1, <1>2, <1>3, <1>4, <1>5, <1>6, <1>7 DEF f, D

\* Completed buckets that follow others.
LEMMA ClosedMore ==
  ASSUME NEW list \in Seq(ClosedBuckets), NEW more \in Seq(ClosedBuckets),
         NEW w, NEW s, NEW field \in Fields
  PROVE  /\ ClosedAt(more, w, s) = {}
              => ClosedSum(list \o more, w, s, field) = ClosedSum(list, w, s, field)
         /\ \A j : Only(ClosedAt(more, w, s), j)
              => ClosedSum(list \o more, w, s, field)
                   = ClosedSum(list, w, s, field) + more[j].volume[field]
<1> DEFINE all == list \o more
           n == Len(list)
           D == ClosedAt(list, w, s)
           F == ClosedAt(more, w, s)
           E == ClosedAt(all, w, s)
           f == [i \in D |-> list[i].volume[field]]
           g == [i \in E |-> all[i].volume[field]]
<1>1. /\ all \in Seq(ClosedBuckets) /\ Len(all) = n + Len(more)
      /\ \A i \in 1..Len(all) : all[i] = IF i <= n THEN list[i] ELSE more[i - n]
  BY ConcatProperties
<1>2. /\ IsFiniteSet(D) /\ D \subseteq 1..n /\ f \in [D -> Int] /\ n \in Nat
      /\ DOMAIN list = 1..n
  BY ClosedTypes
<1>3. F \subseteq 1..Len(more) /\ Len(more) \in Nat /\ DOMAIN more = 1..Len(more)
      /\ \A i \in 1..Len(more) : more[i].volume[field] \in Int
  BY ClosedTypes
<1>4. g \in [E -> Int] /\ DOMAIN all = 1..Len(all)
  <2> HIDE DEF all
  <2> QED BY <1>1, ClosedTypes
<1>5. /\ ClosedSum(list, w, s, field) = SumFunction(f)
      /\ ClosedSum(all, w, s, field) = SumFunction(g)
  BY DEF ClosedSum
<1> HIDE DEF all, n
<1>6. /\ \A i \in 1..n : i \in DOMAIN all /\ all[i] = list[i]
      /\ \A j \in 1..Len(more) : n + j \in DOMAIN all /\ all[n + j] = more[j]
      /\ \A i \in DOMAIN all : i \in 1..n \/ i - n \in 1..Len(more)
  <2>1. \A i \in 1..n : i \in DOMAIN all /\ all[i] = list[i]
    BY <1>1, <1>2, <1>3, <1>4
  <2>2. ASSUME NEW j \in 1..Len(more) PROVE n + j \in DOMAIN all /\ all[n + j] = more[j]
    <3>1. n + j \in 1..Len(all) /\ ~(n + j <= n) /\ (n + j) - n = j
      BY <1>1, <1>2, <1>3
    <3> DEFINE k == n + j
    <3>2. k \in 1..Len(all) /\ ~(k <= n) /\ k - n = j
      BY <3>1
    <3> HIDE DEF k
    <3>3. all[k] = more[j]
      BY <1>1, <3>2
    <3> QED BY <1>4, <3>2, <3>3 DEF k
  <2>3. \A i \in DOMAIN all : i \in 1..n \/ i - n \in 1..Len(more)
    BY <1>1, <1>2, <1>3, <1>4
  <2> QED BY <2>1, <2>2, <2>3
<1>7. \A i \in 1..n : i \in E <=> i \in D
  BY <1>2, <1>6 DEF ClosedAt
<1>8. \A j \in 1..Len(more) : n + j \in E <=> j \in F
  BY <1>3, <1>6 DEF ClosedAt
<1>9. \A i \in E : i \in 1..n \/ i - n \in F
  <2> SUFFICES ASSUME NEW i \in E PROVE i \in 1..n \/ i - n \in F
    OBVIOUS
  <2>1. i \in DOMAIN all /\ i \in Nat
    BY <1>1, <1>4 DEF ClosedAt
  <2>2. CASE i \in 1..n
    BY <2>2
  <2>3. CASE i - n \in 1..Len(more)
    <3> DEFINE j == i - n
    <3>1. j \in 1..Len(more) /\ i = n + j
      BY <1>2, <2>1, <2>3
    <3> HIDE DEF j
    <3>2. j \in F
      BY <1>8, <3>1
    <3> QED BY <3>2 DEF j
  <2> QED BY <1>6, <2>1, <2>2, <2>3
<1>10. \A i \in D : i \in E /\ g[i] = f[i]
  BY <1>2, <1>6, <1>7
<1>11. \A i \in F : n + i \in E /\ g[n + i] = more[i].volume[field]
  BY <1>3, <1>6, <1>8
<1> HIDE DEF D, E, F, f, g
<1>12. CASE F = {}
  <2>1. E = D
    BY <1>7, <1>9, <1>10, <1>12
  <2>2. g = f
    BY <1>2, <1>4, <1>10, <2>1
  <2> QED BY <1>5, <1>12, <2>2 DEF F, all, Only
<1>13. ASSUME NEW j, F = {j}
       PROVE  ClosedSum(all, w, s, field) = ClosedSum(list, w, s, field) + more[j].volume[field]
  <2> DEFINE k == n + j
  <2>1. j \in Nat /\ k \in E /\ k \notin D /\ g[k] = more[j].volume[field]
    BY <1>2, <1>3, <1>11, <1>13
  <2>2. \A i \in E : i \in D \/ i = k
    <3> SUFFICES ASSUME NEW i \in E, i \notin D PROVE i = k
      OBVIOUS
    <3>1. i - n = j
      BY <1>7, <1>9, <1>13
    <3>2. i \in Nat
      BY <1>1, <1>4 DEF E, ClosedAt
    <3> QED BY <1>2, <2>1, <3>1, <3>2
  <2> HIDE DEF k
  <2>3. E \ {k} \subseteq D /\ D \in SUBSET E
    BY <1>10, <2>2
  <2>4. \A i \in D : g[i] = f[i]
    BY <1>10
  <2>5. IsFiniteSet(D) /\ f \in [D -> Int] /\ k \in E /\ k \notin D /\ g \in [E -> Int]
    BY <1>2, <1>4, <2>1
  <2>6. SumFunction(g) = SumFunction(f) + g[k]
    BY <2>3, <2>4, <2>5, SumGrows, SMTT(30)
  <2> QED BY <1>5, <2>1, <2>6
<1> QED BY <1>12, <1>13 DEF F, all, Only

\* A sequence without the first n elements, none of which is at some positions.
Dropped(rest, list, n) ==
  Len(rest) = Len(list) - n /\ \A i \in 1 .. Len(list) - n : rest[i] = list[i + n]
Beyond(positions, n) == \A i \in 1..n : i \notin positions

\* Completed buckets of which some at the front are gone, none of them of this interval.
LEMMA ClosedPruned ==
  ASSUME NEW list \in Seq(ClosedBuckets), NEW rest \in Seq(ClosedBuckets), NEW n \in 0..Len(list),
         Dropped(rest, list, n), NEW w, NEW s, Beyond(ClosedAt(list, w, s), n),
         NEW field \in Fields
  PROVE  ClosedSum(rest, w, s, field) = ClosedSum(list, w, s, field)
<1> DEFINE D == ClosedAt(rest, w, s)
           E == ClosedAt(list, w, s)
           f == [i \in E |-> list[i].volume[field]]
           g == [i \in D |-> rest[i].volume[field]]
           b == [i \in D |-> i + n]
<1>1. /\ IsFiniteSet(D) /\ D \subseteq 1..Len(rest) /\ g \in [D -> Int] /\ Len(rest) \in Nat
      /\ DOMAIN rest = 1..Len(rest)
  BY ClosedTypes
<1>2. /\ E \subseteq 1..Len(list) /\ f \in [E -> Int] /\ Len(list) \in Nat
      /\ DOMAIN list = 1..Len(list)
  BY ClosedTypes
<1>3. n \in Nat /\ n <= Len(list)
  BY <1>2
<1>4. \A i \in 1..Len(rest) : i \in Nat /\ i + n \in 1..Len(list) /\ rest[i] = list[i + n]
  BY <1>1, <1>2, <1>3 DEF Dropped
<1>5. \A i \in D : i + n \in E /\ g[i] = f[i + n]
  BY <1>1, <1>2, <1>4 DEF ClosedAt
<1>6. ASSUME NEW k \in E PROVE \E i \in D : k = i + n
  <2> DEFINE i == k - n
  <2>1. k \in 1..Len(list) /\ k \notin 1..n
    BY <1>2 DEF Beyond
  <2>2. i \in 1..Len(rest) /\ k = i + n
    BY <1>2, <1>3, <2>1 DEF Dropped
  <2> HIDE DEF i
  <2>3. rest[i] = list[k]
    BY <1>4, <2>2
  <2>4. i \in D
    BY <1>1, <2>2, <2>3 DEF ClosedAt
  <2> QED BY <2>2, <2>4
<1>7. b \in Bijection(D, E)
  <2>1. b \in [D -> E] /\ \A i \in D : b[i] = i + n
    BY <1>5
  <2>2. \A i, j \in D : b[i] = b[j] => i = j
    BY <1>1, <1>3
  <2>3. \A k \in E : \E i \in D : b[i] = k
    BY <1>6
  <2> HIDE DEF b, D, E
  <2> QED BY <2>1, <2>2, <2>3 DEF Bijection, Injection, Surjection, IsInjective
<1>8. Renaming(b, f, g)
  BY <1>5 DEF Renaming
<1>9. ClosedSum(rest, w, s, field) = SumFunction(g) /\ ClosedSum(list, w, s, field) = SumFunction(f)
  BY DEF ClosedSum
<1> HIDE DEF D, E, f, g, b
<1>10. IsFiniteSet(D)
  BY <1>1
<1>11. g \in [D -> Int]
  BY <1>1
<1>12. f \in [E -> Int]
  BY <1>2
<1>13. SumFunction(g) = SumFunction(f)
  BY <1>7, <1>8, <1>10, <1>11, <1>12, SumRenames
<1> QED BY <1>9, <1>13

\* Flows whose buckets are as on_trade makes them: one open one per start, all starts multiples of
\* their widths, and the completed ones at least that wide.
Orderly(f) ==
  /\ \A b, c \in f.open : b.interval = c.interval /\ b.start = c.start => b = c
  /\ \A b \in f.open : Multiple(b.start, b.interval)
  /\ \A i \in DOMAIN f.completed :
       f.completed[i].start + f.completed[i].interval <= f.completed[i].end

\* What the buckets of one start hold together.
Held(f, w, s) ==
  [field \in Fields |-> OpenSum(f.open, w, s, field) + ClosedSum(f.completed, w, s, field)]

\* The open buckets with a trade.
OpenWith(f, trade) ==
  (f.open \ (Joined(f, trade) \cup Passed(f, trade))) \cup Entered(f, trade)

\* The new bucket of a trade has what was there and the trade.
LEMMA EnteredIs ==
  ASSUME NEW f \in Flows, Orderly(f), NEW trade \in Trades, NEW w \in Intervals,
         NEW s, s = SlotOf(trade.ts, w), NEW v, v = VolumeBefore(f, trade, w),
         NEW open, open = OpenWith(f, trade)
  PROVE  /\ \E e : Only(Opened(open, w, s), e) /\ e.volume = WithTrade(v, trade)
         /\ \/ Opened(f.open, w, s) = {} /\ v = NoVolume
            \/ \E b : Only(Opened(f.open, w, s), b) /\ v = b.volume
<1> DEFINE e == [interval |-> w, start |-> s, volume |-> WithTrade(v, trade)]
           mine == {b \in Joined(f, trade) : b.interval = w}
<1>1. mine = Opened(f.open, w, s)
  BY DEF Joined, Opened
<1>2. v = IF mine = {} THEN NoVolume ELSE (CHOOSE b \in mine : TRUE).volume
  BY DEF VolumeBefore
<1>3. mine = {} \/ \E b : mine = {b} /\ (CHOOSE c \in mine : TRUE) = b
  <2>1. \A b, c \in mine : b = c
    BY DEF Joined, Orderly
  <2> HIDE DEF mine
  <2> QED BY <2>1
<1>4. Only(Opened(open, w, s), e) /\ e.volume = WithTrade(v, trade)
  <2>1. \A b \in Entered(f, trade) : b.interval = w => b = e
    BY DEF Entered
  <2>2. e \in Entered(f, trade)
    BY DEF Entered
  <2>3. e.interval = w /\ e.start = s /\ e.volume = WithTrade(v, trade)
    OBVIOUS
  <2>4. \A b \in f.open : b.interval = w /\ b.start = s => b \in Joined(f, trade)
    BY DEF Joined
  <2> HIDE DEF e
  <2> QED BY <2>1, <2>2, <2>3, <2>4 DEF Opened, OpenWith, Only
<1> HIDE DEF mine, e
<1> QED BY <1>1, <1>2, <1>3, <1>4 DEF Only

\* The buckets of one start that a trade completes.
Leaving(f, trade, w, s) == {b \in Passed(f, trade) : b.interval = w /\ b.start = s}

\* A trade leaves the buckets of other starts alone or completes the one there is.
LEMMA OthersAre ==
  ASSUME NEW f \in Flows, Orderly(f), NEW trade \in Trades, NEW w \in Intervals, NEW s,
         s # SlotOf(trade.ts, w), NEW open, open = OpenWith(f, trade)
  PROVE  \/ Opened(open, w, s) = Opened(f.open, w, s) /\ Leaving(f, trade, w, s) = {}
         \/ \E b : /\ Only(Leaving(f, trade, w, s), b)
                  /\ Only(Opened(f.open, w, s), b) /\ Opened(open, w, s) = {}
<1>1. \A b \in Entered(f, trade) : ~(b.interval = w /\ b.start = s)
  BY DEF Entered
<1>2. \A b \in Joined(f, trade) : ~(b.interval = w /\ b.start = s)
  BY DEF Joined
<1>3. Passed(f, trade) \subseteq f.open
  BY DEF Passed
<1>4. CASE Leaving(f, trade, w, s) = {}
  <2>1. Opened(open, w, s) = Opened(f.open, w, s)
    BY <1>1, <1>2, <1>4 DEF Opened, OpenWith, Leaving
  <2> QED BY <1>4, <2>1
<1>5. CASE Leaving(f, trade, w, s) # {}
  <2>1. PICK b \in Passed(f, trade) : b.interval = w /\ b.start = s
    BY <1>5 DEF Leaving
  <2>2. Only(Opened(f.open, w, s), b)
    BY <1>3, <2>1 DEF Opened, Orderly, Only
  <2>3. Opened(open, w, s) = {}
    BY <1>1, <2>1, <2>2 DEF Opened, OpenWith, Only
  <2>4. Only(Leaving(f, trade, w, s), b)
    BY <1>3, <2>1 DEF Leaving, Orderly, Only
  <2> QED BY <2>2, <2>3, <2>4
<1> QED BY <1>4, <1>5

\* The list of the buckets that a trade completes.
LEMMA CompletedIs ==
  ASSUME NEW f \in Flows, IsFiniteSet(f.open), NEW trade \in Trades,
         NEW more, more = SetToSeq(Completed(f, trade))
  PROVE  /\ more \in Seq(ClosedBuckets)
         /\ more \in Bijection(1..Len(more), Completed(f, trade)) /\ DOMAIN more = 1..Len(more)
         /\ \A i \in DOMAIN more : \E b \in Passed(f, trade) :
              more[i] = Finalized(b, SlotOf(trade.ts, b.interval), WithTrade(f.totals, trade).delta)
<1> DEFINE C == Completed(f, trade)
           n == Cardinality(C)
<1>1. IsFiniteSet(C) /\ C \subseteq ClosedBuckets
  BY FlowSets
<1>2. \A c \in C : \E b \in Passed(f, trade) :
        c = Finalized(b, SlotOf(trade.ts, b.interval), WithTrade(f.totals, trade).delta)
  BY DEF Completed
<1> HIDE DEF C
<1>3. more \in Seq(C) /\ Len(more) = n /\ more \in Bijection(1..n, C) /\ n \in Nat
  BY <1>1, ListOfSet DEF C
<1> HIDE DEF n
<1>4. DOMAIN more = 1..n /\ \A i \in 1..n : more[i] \in C
  BY <1>3, LenProperties, ElementOfSeq
<1>5. more \in Seq(ClosedBuckets)
  BY <1>1, <1>3, SeqMonotonic
<1> QED BY <1>2, <1>3, <1>4, <1>5 DEF C

\* Of the buckets that a trade completes, which have a given start.
LEMMA CompletedAt ==
  ASSUME NEW f \in Flows, IsFiniteSet(f.open), NEW trade \in Trades, NEW w \in Intervals, NEW s,
         NEW more, more = SetToSeq(Completed(f, trade))
  PROVE  /\ Leaving(f, trade, w, s) = {} => ClosedAt(more, w, s) = {}
         /\ \A b : Only(Leaving(f, trade, w, s), b)
                     => \E j : Only(ClosedAt(more, w, s), j) /\ more[j].volume = b.volume
<1> DEFINE C == Completed(f, trade)
           P == Passed(f, trade)
           Made(b) == Finalized(b, SlotOf(trade.ts, b.interval), WithTrade(f.totals, trade).delta)
           n == Len(more)
<1>1. C = {Made(b) : b \in P}
  BY DEF Completed
<1>2. more \in Bijection(1..n, C) /\ DOMAIN more = 1..n /\ \A i \in DOMAIN more : \E b \in P : more[i] = Made(b)
  BY CompletedIs
<1>3. \A b : Made(b).interval = b.interval /\ Made(b).start = b.start /\ Made(b).volume = b.volume
  BY DEF Finalized
<1>4. Leaving(f, trade, w, s) = {b \in P : b.interval = w /\ b.start = s}
  BY DEF Leaving
<1> HIDE DEF C, Made, P, n
<1>8. Leaving(f, trade, w, s) = {} => ClosedAt(more, w, s) = {}
  BY <1>2, <1>3, <1>4 DEF ClosedAt
<1>9. ASSUME NEW b, Only(Leaving(f, trade, w, s), b)
      PROVE  \E j : Only(ClosedAt(more, w, s), j) /\ more[j].volume = b.volume
  <2>0. b \in P /\ b.interval = w /\ b.start = s /\ \A c \in P : c.interval = w /\ c.start = s => c = b
    BY <1>4, <1>9 DEF Only
  <2>1. Made(b) \in C
    BY <1>1, <2>0
  <2>2. PICK j \in 1..n : more[j] = Made(b)
    BY <1>2, <2>1 DEF Bijection, Surjection
  <2>3. j \in ClosedAt(more, w, s) /\ more[j].volume = b.volume
    BY <1>2, <1>3, <2>0, <2>2 DEF ClosedAt
  <2>4. ASSUME NEW i \in ClosedAt(more, w, s) PROVE i = j
    <3>1. i \in 1..n /\ more[i].interval = w /\ more[i].start = s
      BY <1>2 DEF ClosedAt
    <3>2. PICK c \in P : more[i] = Made(c)
      BY <1>2, <3>1
    <3>3. c = b
      BY <1>3, <2>0, <3>1, <3>2
    <3>4. more[i] = more[j]
      BY <2>2, <3>2, <3>3
    <3> QED BY <1>2, <3>1, <3>4 DEF Bijection, Injection, IsInjective
  <2> QED BY <2>3, <2>4 DEF Only
<1>10. \A b : Only(Leaving(f, trade, w, s), b)
               => \E j : Only(ClosedAt(more, w, s), j) /\ more[j].volume = b.volume
  BY <1>9
<1> QED BY <1>8, <1>10

\* A trade adds to what the buckets of its start hold, and nothing to the others.
LEMMA HeldWith ==
  ASSUME NEW f \in Flows, IsFiniteSet(f.open), Orderly(f), NEW trade \in Trades,
         NEW g, g.open = OpenWith(f, trade),
         g.completed = f.completed \o SetToSeq(Completed(f, trade)), g.open \subseteq OpenBuckets,
         NEW w \in Intervals, NEW s \in Nat, NEW field \in Fields
  PROVE  /\ Held(f, w, s)[field] \in Int
         /\ s = SlotOf(trade.ts, w)
              => Held(g, w, s)[field] = Held(f, w, s)[field] + Gain(trade)[field]
         /\ s # SlotOf(trade.ts, w) => Held(g, w, s)[field] = Held(f, w, s)[field]
<1> DEFINE slot == SlotOf(trade.ts, w)
           more == SetToSeq(Completed(f, trade))
           list == f.completed
           old == OpenSum(f.open, w, s, field)
           new == OpenSum(g.open, w, s, field)
           was == ClosedSum(list, w, s, field)
           is == ClosedSum(list \o more, w, s, field)
<1>1. Held(f, w, s)[field] = old + was /\ Held(g, w, s)[field] = new + is
  BY DEF Held
<1>2. list \in Seq(ClosedBuckets) /\ f.open \in SUBSET OpenBuckets /\ g.open \in SUBSET OpenBuckets
  BY DEF Flows
<1>3. /\ more \in Seq(ClosedBuckets)
      /\ Leaving(f, trade, w, s) = {} => ClosedAt(more, w, s) = {}
      /\ \A b : Only(Leaving(f, trade, w, s), b)
                  => \E j : Only(ClosedAt(more, w, s), j) /\ more[j].volume = b.volume
  <2>1. more = SetToSeq(Completed(f, trade))
    OBVIOUS
  <2> HIDE DEF more
  <2>2. more \in Seq(ClosedBuckets)
    BY <2>1, CompletedIs
  <2> QED BY <2>1, <2>2, CompletedAt, SMTT(30)
<1> HIDE DEF list, more
<1>4. was \in Int
  BY <1>2, ClosedTypes
<1>5. /\ ClosedAt(more, w, s) = {} => is = was
      /\ \A j : Only(ClosedAt(more, w, s), j) => is = was + more[j].volume[field]
  BY <1>2, <1>3, ClosedMore
<1>6. /\ Opened(f.open, w, s) = {} => old = 0
      /\ \A b : Only(Opened(f.open, w, s), b) => old = b.volume[field] /\ b.volume \in Volumes
  <2> DEFINE open == f.open
  <2>1. open \in SUBSET OpenBuckets
    BY <1>2
  <2> HIDE DEF open
  <2>2. /\ Opened(open, w, s) = {} => OpenSum(open, w, s, field) = 0
        /\ \A b : Only(Opened(open, w, s), b) =>
             OpenSum(open, w, s, field) = b.volume[field] /\ b.volume \in Volumes
    BY <2>1, OpenSumIs
  <2> QED BY <2>2 DEF open
<1>7. /\ Opened(g.open, w, s) = {} => new = 0
      /\ \A b : Only(Opened(g.open, w, s), b) => new = b.volume[field] /\ b.volume \in Volumes
  BY <1>2, OpenSumIs
<1>8. \A v \in Volumes : v[field] \in Int
  BY DEF Volumes, Fields
<1> DEFINE gain == Gain(trade)[field]
<1>9. gain \in Int
  <2>1. NoVolume \in Volumes
    BY DEF NoVolume, Volumes
  <2> QED BY <2>1, VolumeFields
<1>10. CASE s = slot
  <2> DEFINE v == VolumeBefore(f, trade, w)
  <2>1. v = VolumeBefore(f, trade, w) /\ v \in Volumes
    BY VolumeBeforeType
  <2> HIDE DEF v
  <2>10. /\ \E e : Only(Opened(g.open, w, s), e) /\ e.volume = WithTrade(v, trade)
         /\ \/ Opened(f.open, w, s) = {} /\ v = NoVolume
            \/ \E b : Only(Opened(f.open, w, s), b) /\ v = b.volume
    <3> DEFINE open == g.open
    <3>1. open = OpenWith(f, trade)
      OBVIOUS
    <3>2. s = SlotOf(trade.ts, w)
      BY <1>10
    <3>3. v = VolumeBefore(f, trade, w)
      BY <2>1
    <3> HIDE DEF open, slot, old, new, was, is, gain
    <3>4. /\ \E e : Only(Opened(open, w, s), e) /\ e.volume = WithTrade(v, trade)
          /\ \/ Opened(f.open, w, s) = {} /\ v = NoVolume
             \/ \E b : Only(Opened(f.open, w, s), b) /\ v = b.volume
      BY <3>1, <3>2, <3>3, EnteredIs, SMTT(30)
    <3> QED BY <3>4 DEF open
  <2>2. PICK e : Only(Opened(g.open, w, s), e) /\ e.volume = WithTrade(v, trade)
    BY <2>10
  <2>3. \/ Opened(f.open, w, s) = {} /\ v = NoVolume
        \/ \E b : Only(Opened(f.open, w, s), b) /\ v = b.volume
    BY <2>10
  <2>4. WithTrade(v, trade)[field] = v[field] + gain /\ NoVolume[field] = 0
    BY <2>1, VolumeFields
  <2>5. new = v[field] + gain
    BY <1>7, <2>2, <2>4
  <2>6. old = v[field] /\ old \in Int
    <3>1. CASE Opened(f.open, w, s) = {} /\ v = NoVolume
      BY <1>6, <2>4, <3>1
    <3>2. CASE \E b : Only(Opened(f.open, w, s), b) /\ v = b.volume
      BY <1>6, <1>8, <2>1, <3>2
    <3> QED BY <2>3, <3>1, <3>2
  <2>7. is = was
    <3>1. \A b \in Passed(f, trade) : ~(b.interval = w /\ b.start = s)
      <4> SUFFICES ASSUME NEW b \in Passed(f, trade), b.interval = w, b.start = s PROVE FALSE
        OBVIOUS
      <4>1. b.start < SlotOf(trade.ts, b.interval)
        BY DEF Passed
      <4>2. slot \in Int
        BY SlotMultiple, Constants DEF Trades
      <4> HIDE DEF slot
      <4> QED BY <1>10, <4>1, <4>2 DEF slot
    <3>2. Leaving(f, trade, w, s) = {}
      BY <3>1 DEF Leaving
    <3> QED BY <1>3, <1>5, <3>2
  <2> HIDE DEF old, new, was, is, gain, slot
  <2>8. old + was \in Int /\ new + is = (old + was) + gain
    <3> DEFINE x == v[field]
    <3>1. new = x + gain /\ old = x /\ x \in Int
      BY <2>5, <2>6
    <3> HIDE DEF x
    <3> QED BY <1>4, <1>9, <2>7, <3>1
  <2> QED BY <1>1, <1>10, <2>8 DEF gain, slot
<1>11. CASE s # slot
  <2>1. CASE Opened(g.open, w, s) = Opened(f.open, w, s) /\ Leaving(f, trade, w, s) = {}
    <3>1. is = was
      BY <1>3, <1>5, <2>1
    <3>2. new = old
      BY <2>1 DEF OpenSum
    <3>3. old \in Int
      <4> DEFINE D == Opened(f.open, w, s)
      <4>1. \A b, c \in D : b = c
        BY DEF Opened, Orderly
      <4>2. CASE D = {}
        BY <1>6, <4>2
      <4>3. CASE D # {}
        <5>1. PICK b \in D : TRUE
          BY <4>3
        <5>2. Only(D, b)
          BY <4>1, <5>1 DEF Only
        <5>3. old = b.volume[field] /\ b.volume \in Volumes
          BY <1>6, <5>2
        <5> QED BY <1>8, <5>3
      <4> QED BY <4>2, <4>3
    <3> HIDE DEF old, new, was, is
    <3> QED BY <1>1, <1>4, <1>11, <3>1, <3>2, <3>3
  <2>2. CASE \E b : /\ Only(Leaving(f, trade, w, s), b)
                    /\ Only(Opened(f.open, w, s), b) /\ Opened(g.open, w, s) = {}
    <3>1. PICK b : /\ Only(Leaving(f, trade, w, s), b)
                   /\ Only(Opened(f.open, w, s), b) /\ Opened(g.open, w, s) = {}
      BY <2>2
    <3>3. PICK j : Only(ClosedAt(more, w, s), j) /\ more[j].volume = b.volume
      BY <1>3, <3>1
    <3>4. is = was + b.volume[field]
      BY <1>5, <3>3
    <3>5. new = 0 /\ old = b.volume[field] /\ b.volume \in Volumes
      BY <1>6, <1>7, <3>1
    <3>6. b.volume[field] \in Int
      BY <1>8, <3>5
    <3> HIDE DEF old, new, was, is
    <3>7. new + is = old + was /\ old + was \in Int
      BY <1>4, <3>4, <3>5, <3>6
    <3> QED BY <1>1, <1>11, <3>7
  <2>3. \/ Opened(g.open, w, s) = Opened(f.open, w, s) /\ Leaving(f, trade, w, s) = {}
        \/ \E b : /\ Only(Leaving(f, trade, w, s), b)
                 /\ Only(Opened(f.open, w, s), b) /\ Opened(g.open, w, s) = {}
    BY <1>11, OthersAre
  <2> HIDE DEF old, new, was, is, gain, slot
  <2> QED BY <1>11, <2>1, <2>2, <2>3 DEF slot
<1> QED BY <1>10, <1>11

\* A trade leaves the buckets in order.
LEMMA OrderlyWith ==
  ASSUME NEW f \in Flows, IsFiniteSet(f.open), Orderly(f), NEW trade \in Trades,
         NEW g, g.open = OpenWith(f, trade), g.completed = f.completed \o SetToSeq(Completed(f, trade))
  PROVE  Orderly(g)
<1>1. trade.ts \in Nat /\ f.open \subseteq OpenBuckets /\ f.completed \in Seq(ClosedBuckets)
  BY DEF Trades, Flows
<1>2. \A w \in Intervals : w \in Nat \ {0} /\ Multiple(SlotOf(trade.ts, w), w)
  BY <1>1, Constants, SlotMultiple
<1>3. \A b \in Entered(f, trade) :
        b.interval \in Intervals /\ b.start = SlotOf(trade.ts, b.interval)
  BY DEF Entered
<1>4. \A b, c \in Entered(f, trade) : b.interval = c.interval => b = c
  BY DEF Entered
<1>5. \A b, c \in g.open : b.interval = c.interval /\ b.start = c.start => b = c
  <2>1. \A b \in g.open : b \notin Entered(f, trade)
                            => b \in f.open /\ b.start # SlotOf(trade.ts, b.interval)
    BY DEF OpenWith, Joined
  <2> QED BY <1>3, <1>4, <2>1 DEF Orderly
<1>6. \A b \in g.open : Multiple(b.start, b.interval)
  BY <1>2, <1>3 DEF OpenWith, Orderly
<1>7. \A b \in Passed(f, trade) : b.start + b.interval <= SlotOf(trade.ts, b.interval)
  <2> SUFFICES ASSUME NEW b \in Passed(f, trade)
               PROVE  b.start + b.interval <= SlotOf(trade.ts, b.interval)
    OBVIOUS
  <2>1. b \in f.open /\ b.start < SlotOf(trade.ts, b.interval)
    BY DEF Passed
  <2>2. b.interval \in Intervals
    BY <1>1, <2>1 DEF OpenBuckets
  <2> DEFINE w == b.interval
             from == b.start
             to == SlotOf(trade.ts, w)
  <2>3. w \in Nat \ {0} /\ Multiple(to, w) /\ Multiple(from, w) /\ from < to
    BY <1>2, <2>1, <2>2 DEF Orderly
  <2> HIDE DEF w, from, to
  <2>4. from + w <= to
    BY <2>3, MultiplesApart
  <2> QED BY <2>4 DEF from, to, w
<1> DEFINE more == SetToSeq(Completed(f, trade))
           list == f.completed
           all == list \o more
<1>8. more \in Seq(ClosedBuckets)
      /\ \A i \in DOMAIN more : \E b \in Passed(f, trade) :
           more[i] = Finalized(b, SlotOf(trade.ts, b.interval), WithTrade(f.totals, trade).delta)
  <2>1. more = SetToSeq(Completed(f, trade))
    OBVIOUS
  <2> HIDE DEF more
  <2> QED BY <2>1, CompletedIs
<1>9. \A i \in DOMAIN more : more[i].start + more[i].interval <= more[i].end
  BY <1>7, <1>8 DEF Finalized
<1> HIDE DEF more
<1>10. /\ all \in Seq(ClosedBuckets) /\ Len(all) = Len(list) + Len(more)
       /\ \A i \in 1..Len(all) : all[i] = IF i <= Len(list) THEN list[i] ELSE more[i - Len(list)]
  BY <1>1, <1>8, ConcatProperties
<1>11. /\ Len(list) \in Nat /\ DOMAIN list = 1..Len(list) /\ Len(more) \in Nat
       /\ DOMAIN more = 1..Len(more) /\ DOMAIN all = 1..Len(all)
  BY <1>1, <1>8, <1>10, LenProperties
<1>12. ASSUME NEW i \in DOMAIN all PROVE all[i].start + all[i].interval <= all[i].end
  <2> HIDE DEF all
  <2>1. CASE i <= Len(list)
    <3>1. i \in DOMAIN list /\ all[i] = list[i]
      BY <1>10, <1>11, <2>1
    <3> QED BY <3>1 DEF Orderly, list
  <2>2. CASE ~(i <= Len(list))
    <3> DEFINE n == Len(list)
               m == Len(more)
    <3>1. i \in 1 .. n + m /\ n \in Nat /\ m \in Nat /\ ~(i <= n)
      BY <1>10, <1>11, <2>2
    <3>2. all[i] = more[i - n]
      BY <1>10, <1>11, <2>2
    <3> HIDE DEF n, m
    <3>3. i - n \in 1..m
      BY <3>1
    <3>4. i - n \in DOMAIN more
      BY <1>11, <3>3 DEF m
    <3> QED BY <1>9, <3>2, <3>4
  <2> QED BY <2>1, <2>2
<1> QED BY <1>5, <1>6, <1>12 DEF Orderly, more

\* A trade adds to what the buckets of its start hold, and nothing to the others, in all fields.
LEMMA HeldGrows ==
  ASSUME NEW f \in Flows, IsFiniteSet(f.open), Orderly(f), NEW trade \in Trades,
         NEW g, g.open = OpenWith(f, trade),
         g.completed = f.completed \o SetToSeq(Completed(f, trade)), g.open \subseteq OpenBuckets,
         NEW w \in Intervals, NEW s \in Nat, Held(f, w, s) \in Volumes
  PROVE  /\ s = SlotOf(trade.ts, w) => Held(g, w, s) = WithTrade(Held(f, w, s), trade)
         /\ s # SlotOf(trade.ts, w) => Held(g, w, s) = Held(f, w, s)
<1> DEFINE old == Held(f, w, s)
           new == Held(g, w, s)
           slot == SlotOf(trade.ts, w)
           gain == Gain(trade)
<1>1. old = [field \in Fields |-> old[field]] /\ new = [field \in Fields |-> new[field]]
  BY DEF Held
<1>2. WithTrade(old, trade) = [field \in Fields |-> old[field] + gain[field]]
  BY VolumeFields
<1>3. \A field \in Fields : s = slot => new[field] = old[field] + gain[field]
  BY HeldWith
<1>4. \A field \in Fields : s # slot => new[field] = old[field]
  BY HeldWith
<1> HIDE DEF old, new, gain, slot
<1>5. s = slot => new = WithTrade(old, trade)
  BY <1>1, <1>2, <1>3, Zenon
<1>6. s # slot => new = old
  BY <1>1, <1>4, Zenon
<1> QED BY <1>5, <1>6 DEF old, new, slot

\* Pruning leaves the buckets in order, and those that end within retention.
LEMMA PruneHeld ==
  ASSUME NEW f \in Flows, Orderly(f), NEW now \in Nat, NEW g, g = PruneFlow(f, now)
  PROVE  /\ Orderly(g) /\ g.totals = f.totals /\ g.profile = f.profile /\ g.large = f.large
         /\ \A w \in Intervals, s \in Nat : s + w >= Cutoff(now) => Held(g, w, s) = Held(f, w, s)
<1> DEFINE list == f.completed
           rest == g.completed
<1>1. /\ g \in Flows
      /\ g.totals = f.totals /\ g.profile = f.profile /\ g.large = f.large /\ g.open = f.open
  BY PruneFlowIs
<1>2. PICK n \in 0..Len(list) :
        /\ Len(rest) = Len(list) - n
        /\ \A i \in 1 .. Len(list) - n : rest[i] = list[i + n]
        /\ \A i \in 1..n : list[i].end < Cutoff(now)
  BY PruneFlowIs
<1>3. /\ list \in Seq(ClosedBuckets) /\ rest \in Seq(ClosedBuckets)
      /\ \A i \in DOMAIN list : list[i].start + list[i].interval <= list[i].end
  BY <1>1 DEF Flows, Orderly
<1> HIDE DEF list, rest
<1>4. /\ Len(list) \in Nat /\ DOMAIN list = 1..Len(list)
      /\ Len(rest) \in Nat /\ DOMAIN rest = 1..Len(rest)
      /\ \A i \in 1..Len(list) : list[i] \in ClosedBuckets
  BY <1>3, LenProperties, ElementOfSeq
<1>5. \A i \in DOMAIN rest : rest[i].start + rest[i].interval <= rest[i].end
  <2> SUFFICES ASSUME NEW i \in DOMAIN rest PROVE rest[i].start + rest[i].interval <= rest[i].end
    OBVIOUS
  <2>1. i + n \in DOMAIN list /\ rest[i] = list[i + n]
    BY <1>2, <1>4
  <2> QED BY <1>3, <2>1
<1>6. Orderly(g)
  BY <1>1, <1>5 DEF Orderly, rest
<1>7. ASSUME NEW w \in Intervals, NEW s \in Nat, s + w >= Cutoff(now)
      PROVE  Held(g, w, s) = Held(f, w, s)
  <2>1. \A i \in 1..n : i \notin ClosedAt(list, w, s)
    <3> SUFFICES ASSUME NEW i \in 1..n, i \in ClosedAt(list, w, s) PROVE FALSE
      OBVIOUS
    <3>1. i \in 1..Len(list) /\ list[i].interval = w /\ list[i].start = s
      BY <1>4 DEF ClosedAt
    <3> DEFINE e == list[i].end
               c == Cutoff(now)
    <3>2. s + w <= e /\ e < c /\ e \in Nat
      BY <1>2, <1>3, <1>4, <3>1 DEF ClosedBuckets
    <3>3. c \in Nat /\ w \in Nat
      BY CutoffMoves, Constants
    <3>4. s + w >= c
      BY <1>7
    <3> HIDE DEF e, c
    <3> QED BY <3>2, <3>3, <3>4
  <2>2. \A field \in Fields : ClosedSum(rest, w, s, field) = ClosedSum(list, w, s, field)
    <3> SUFFICES ASSUME NEW field \in Fields
                 PROVE  ClosedSum(rest, w, s, field) = ClosedSum(list, w, s, field)
      OBVIOUS
    <3>1. Dropped(rest, list, n)
      BY <1>2 DEF Dropped
    <3>2. Beyond(ClosedAt(list, w, s), n)
      BY <2>1 DEF Beyond
    <3>3. list \in Seq(ClosedBuckets)
      BY <1>3
    <3>4. rest \in Seq(ClosedBuckets)
      BY <1>3
    <3> QED BY <3>1, <3>2, <3>3, <3>4, ClosedPruned
  <2> QED BY <1>1, <2>2 DEF Held, list, rest
<1> QED BY <1>1, <1>6, <1>7

\* The trades of a slot, and the large ones of a price.
InSlot(w, s) == {t \in Trades : SlotOf(t.ts, w) = s}
AtPrice(p) == {t \in Trades : t.price = p}
LargeAt(p) == {t \in Trades : t.price = p /\ IsLarge(t)}

\* The buckets of every slot within retention hold the trades of the slot.
SlotsExact ==
  \A w \in Intervals, s \in Nat :
    s + w >= Cutoff(latest) => Held(flow, w, s) = Traded(tape, InSlot(w, s))

\* The totals and the prices have their trades.
SumsExact ==
  /\ flow.totals = Traded(tape, Trades)
  /\ \A p \in Prices : flow.profile[p] = Traded(tape, AtPrice(p))
  /\ \A p \in Prices : flow.large[p] = Traded(tape, LargeAt(p)).count

FlowExact == Orderly(flow) /\ SumsExact /\ SlotsExact

\* A trade, and the pruning after it, keep the buckets exact.
LEMMA TradeFlows ==
  ASSUME Typed, Timely, FlowExact, NEW trade \in Trades, ProcessTrade(trade),
         Grown(tape', tape, trade), latest' = Later(trade.ts)
  PROVE  FlowExact'
<1> DEFINE f == FlowWithTrade(trade)
           ts == trade.ts
<1>1. /\ flow \in Flows /\ IsFiniteSet(flow.open) /\ tape \in Seq(Trades) /\ ts \in Nat
      /\ trade.price \in Prices
  BY DEF Typed, Trades
<1>2. /\ f \in Flows /\ f.totals = WithTrade(flow.totals, trade)
      /\ f.profile = [flow.profile EXCEPT ![trade.price] = WithTrade(@, trade)]
      /\ f.large = [flow.large EXCEPT ![trade.price] = @ + OneIf(IsLarge(trade))]
      /\ f.open = FlowTrade(flow, trade).open
      /\ f.completed = FlowTrade(flow, trade).completed
  BY FlowWithTradeIs
<1>3. f.open = OpenWith(flow, trade) /\ f.completed = flow.completed \o SetToSeq(Completed(flow, trade))
  BY <1>1, <1>2 DEF FlowTrade, OpenWith, Flows
<1>4. f.open \subseteq OpenBuckets
  BY <1>2 DEF Flows
<1>5. lastEvent' = ts /\ flow' = PruneFlow(f, ts)
  BY DEF ProcessTrade
<1>6. /\ latest \in Nat /\ latest' \in Nat
      /\ Cutoff(latest) \in Nat /\ Cutoff(ts) \in Nat /\ Cutoff(latest') \in Nat
      /\ Cutoff(latest) <= Cutoff(latest') /\ Cutoff(ts) <= Cutoff(latest')
  BY <1>1, <1>5, EventTimes
<1>7. \A C : /\ Traded(tape, C) \in Volumes
             /\ trade \in C => Traded(tape', C) = WithTrade(Traded(tape, C), trade)
             /\ trade \notin C => Traded(tape', C) = Traded(tape, C)
  BY <1>1, TradedGrows
<1> HIDE DEF f, ts
<1>8. Orderly(f)
  BY <1>1, <1>3, OrderlyWith DEF FlowExact
<1>9. /\ Orderly(flow') /\ flow'.totals = f.totals /\ flow'.profile = f.profile
      /\ flow'.large = f.large
      /\ \A w \in Intervals, s \in Nat : s + w >= Cutoff(ts) => Held(flow', w, s) = Held(f, w, s)
  BY <1>1, <1>2, <1>5, <1>8, PruneHeld
<1>10. flow'.totals = Traded(tape', Trades)
  BY <1>2, <1>7, <1>9 DEF FlowExact, SumsExact
<1>11. ASSUME NEW p \in Prices PROVE flow'.profile[p] = Traded(tape', AtPrice(p))
  <2>1. flow.profile[p] = Traded(tape, AtPrice(p)) /\ flow.profile \in [Prices -> Volumes]
    BY <1>1 DEF FlowExact, SumsExact, Flows
  <2>2. trade \in AtPrice(p) <=> p = trade.price
    BY DEF AtPrice
  <2> QED BY <1>1, <1>2, <1>7, <1>9, <2>1, <2>2
<1>12. ASSUME NEW p \in Prices PROVE flow'.large[p] = Traded(tape', LargeAt(p)).count
  <2> DEFINE v == Traded(tape, LargeAt(p))
             n == flow.large[p]
  <2>1. n = v.count /\ flow.large \in [Prices -> Nat]
    BY <1>1 DEF FlowExact, SumsExact, Flows
  <2>2. trade \in LargeAt(p) <=> p = trade.price /\ IsLarge(trade)
    BY DEF LargeAt
  <2>3. v \in Volumes
    BY <1>7
  <2>4. WithTrade(v, trade).count = v.count + 1
    BY <2>3 DEF WithTrade, Volumes
  <2>5. flow'.large[p] = IF p = trade.price THEN n + OneIf(IsLarge(trade)) ELSE n
    BY <1>1, <1>2, <1>9, <2>1
  <2>6. n \in Nat
    BY <2>1
  <2> HIDE DEF n, v
  <2>7. CASE trade \in LargeAt(p)
    <3>1. flow'.large[p] = n + 1
      BY <2>2, <2>5, <2>7 DEF OneIf
    <3>2. Traded(tape', LargeAt(p)) = WithTrade(v, trade)
      BY <1>7, <2>7 DEF v
    <3> QED BY <2>1, <2>4, <3>1, <3>2
  <2>8. CASE trade \notin LargeAt(p)
    <3>1. flow'.large[p] = n
      BY <2>2, <2>5, <2>6, <2>8 DEF OneIf
    <3>2. Traded(tape', LargeAt(p)) = v
      BY <1>7, <2>8 DEF v
    <3> QED BY <2>1, <3>1, <3>2
  <2> QED BY <2>7, <2>8
<1>13. ASSUME NEW w \in Intervals, NEW s \in Nat, s + w >= Cutoff(latest')
       PROVE  Held(flow', w, s) = Traded(tape', InSlot(w, s))
  <2>0. s + w >= Cutoff(latest) /\ s + w >= Cutoff(ts)
    <3> DEFINE c == Cutoff(latest)
               d == Cutoff(ts)
               e == Cutoff(latest')
               a == s + w
    <3>1. c \in Nat /\ d \in Nat /\ e \in Nat /\ c <= e /\ d <= e /\ a >= e
      BY <1>6, <1>13
    <3>2. a \in Nat
      BY Constants
    <3> HIDE DEF a, c, d, e
    <3>3. a >= c /\ a >= d
      BY <3>1, <3>2
    <3> QED BY <3>3 DEF a, c, d
  <2>1. Held(flow, w, s) = Traded(tape, InSlot(w, s))
    BY <2>0 DEF FlowExact, SlotsExact
  <2>2. Held(flow, w, s) \in Volumes
    BY <1>7, <2>1
  <2>3. /\ s = SlotOf(trade.ts, w) => Held(f, w, s) = WithTrade(Held(flow, w, s), trade)
        /\ s # SlotOf(trade.ts, w) => Held(f, w, s) = Held(flow, w, s)
    <3>1. Orderly(flow)
      BY DEF FlowExact
    <3> QED BY <1>1, <1>3, <1>4, <2>2, <3>1, HeldGrows
  <2>4. trade \in InSlot(w, s) <=> s = SlotOf(trade.ts, w)
    BY DEF InSlot
  <2>5. Held(flow', w, s) = Held(f, w, s)
    BY <1>9, <2>0
  <2>6. CASE trade \in InSlot(w, s)
    BY <1>7, <2>1, <2>3, <2>4, <2>5, <2>6
  <2>7. CASE trade \notin InSlot(w, s)
    BY <1>7, <2>1, <2>3, <2>4, <2>5, <2>7
  <2> QED BY <2>6, <2>7
<1> QED BY <1>9, <1>10, <1>11, <1>12, <1>13 DEF FlowExact, SumsExact, SlotsExact

\* Pruning alone keeps the buckets exact.
LEMMA PruningFlows ==
  ASSUME FlowExact, flow \in Flows, NEW now \in Nat, flow' \in {flow, PruneFlow(flow, now)},
         tape' = tape, Cutoff(latest) \in Nat, Cutoff(now) \in Nat, Cutoff(latest') \in Nat,
         Cutoff(latest) <= Cutoff(latest'), Cutoff(now) <= Cutoff(latest')
  PROVE  FlowExact'
<1>1. /\ Orderly(flow') /\ flow'.totals = flow.totals /\ flow'.profile = flow.profile
      /\ flow'.large = flow.large
      /\ \A w \in Intervals, s \in Nat :
           s + w >= Cutoff(now) => Held(flow', w, s) = Held(flow, w, s)
  <2>1. Orderly(flow)
    BY DEF FlowExact
  <2>2. CASE flow' = flow
    BY <2>1, <2>2
  <2>3. CASE flow' = PruneFlow(flow, now)
    BY <2>1, <2>3, PruneHeld
  <2> QED BY <2>2, <2>3
<1>2. SumsExact'
  BY <1>1 DEF FlowExact, SumsExact
<1>3. ASSUME NEW w \in Intervals, NEW s \in Nat, s + w >= Cutoff(latest')
      PROVE  Held(flow', w, s) = Traded(tape', InSlot(w, s))
  <2>0. s + w >= Cutoff(latest) /\ s + w >= Cutoff(now)
    <3> DEFINE c == Cutoff(latest)
               d == Cutoff(now)
               e == Cutoff(latest')
               a == s + w
    <3>1. c \in Nat /\ d \in Nat /\ e \in Nat /\ c <= e /\ d <= e /\ a >= e
      BY <1>3
    <3>2. a \in Nat
      BY Constants
    <3> HIDE DEF a, c, d, e
    <3>3. a >= c /\ a >= d
      BY <3>1, <3>2
    <3> QED BY <3>3 DEF a, c, d
  <2>1. Held(flow, w, s) = Traded(tape, InSlot(w, s))
    BY <2>0 DEF FlowExact, SlotsExact
  <2> QED BY <1>1, <2>0, <2>1
<1> QED BY <1>1, <1>2, <1>3 DEF FlowExact, SlotsExact

\* Every step keeps the buckets exact.
LEMMA NextFlows ==
  ASSUME Typed, Timely, FlowExact, [Next]_vars
  PROVE  FlowExact'
<1>1. flow \in Flows /\ latest \in Nat /\ EventTime \in Nat
  BY TimeTypes DEF Typed
<1>2. CASE \E trade \in Trades : /\ ProcessTrade(trade) /\ Grown(tape', tape, trade)
                                 /\ latest' = Later(trade.ts) /\ changes' = changes
  BY <1>2, TradeFlows
<1>3. CASE \E writes \in Seq(Writes), ts \in Nat :
             /\ ProcessUpdate(writes, ts) /\ changes' = changes \o UpdateList(writes, ts)
             /\ latest' = Later(ts) /\ tape' = tape
  <2>1. PICK writes \in Seq(Writes), ts \in Nat :
          ProcessUpdate(writes, ts) /\ latest' = Later(ts) /\ tape' = tape
    BY <1>3
  <2>2. lastEvent' = ts /\ flow' = PruneFlow(flow, ts)
    BY <2>1, ProcessUpdateIs
  <2>3. /\ Cutoff(latest) \in Nat /\ Cutoff(ts) \in Nat /\ Cutoff(latest') \in Nat
        /\ Cutoff(latest) <= Cutoff(latest') /\ Cutoff(ts) <= Cutoff(latest')
    BY <2>1, <2>2, EventTimes
  <2>4. flow' \in {flow, PruneFlow(flow, ts)}
    BY <2>2
  <2> QED BY <1>1, <2>1, <2>3, <2>4, PruningFlows
<1>4. CASE Quiet
  <2>1. tape' = tape /\ latest' = latest /\ flow' \in {flow, PruneFlow(flow, EventTime)}
    BY <1>4, QuietIs
  <2>2. /\ Cutoff(EventTime) <= Cutoff(latest) /\ Cutoff(EventTime) \in Nat
        /\ Cutoff(latest) \in Nat
    BY <1>1, CutoffMoves DEF Timely
  <2> DEFINE now == EventTime
  <2>3. /\ now \in Nat /\ flow' \in {flow, PruneFlow(flow, now)}
        /\ Cutoff(now) <= Cutoff(latest') /\ Cutoff(now) \in Nat /\ Cutoff(latest) \in Nat
        /\ Cutoff(latest') \in Nat /\ Cutoff(latest) <= Cutoff(latest')
    BY <1>1, <2>1, <2>2
  <2> HIDE DEF now
  <2> QED BY <1>1, <2>1, <2>3, PruningFlows
<1> QED BY <1>2, <1>3, <1>4, NextIs

\* Before the first event there are no trades and no buckets.
LEMMA FirstFlow ==
  ASSUME Init
  PROVE  FlowExact
<1>1. flow = NewFlow /\ tape = <<>>
  BY DEF Init
<1>2. Orderly(flow)
  BY <1>1 DEF Orderly, NewFlow
<1>3. \A C : Traded(tape, C) = NoVolume
  BY <1>1, TradedNothing
<1>4. SumsExact
  BY <1>1, <1>3 DEF SumsExact, NewFlow, NoVolume
<1>5. ASSUME NEW w \in Intervals, NEW s \in Nat PROVE Held(flow, w, s) = NoVolume
  <2>1. Opened(flow.open, w, s) = {} /\ ClosedAt(flow.completed, w, s) = {}
    BY <1>1 DEF NewFlow, Opened, ClosedAt
  <2>2. ASSUME NEW field \in Fields
        PROVE  OpenSum(flow.open, w, s, field) = 0 /\ ClosedSum(flow.completed, w, s, field) = 0
    <3> DEFINE f == [b \in Opened(flow.open, w, s) |-> b.volume[field]]
               g == [i \in ClosedAt(flow.completed, w, s) |-> flow.completed[i].volume[field]]
    <3>1. DOMAIN f = {} /\ DOMAIN g = {}
      BY <2>1
    <3>2. OpenSum(flow.open, w, s, field) = SumFunction(f)
          /\ ClosedSum(flow.completed, w, s, field) = SumFunction(g)
      BY DEF OpenSum, ClosedSum
    <3> HIDE DEF f, g
    <3> QED BY <3>1, <3>2, SumEmpty
  <2>3. NoVolume = [field \in Fields |-> 0]
    BY DEF NoVolume, Fields
  <2> QED BY <2>2, <2>3 DEF Held
<1> QED BY <1>2, <1>3, <1>4, <1>5 DEF FlowExact, SlotsExact

\* Trade flow is the tape, within retention, in whatever order the trades' times came (flow.rs,
\* on_trade, finalize_bucket and prune).
THEOREM FlowIsExact == Spec => []FlowMatchesTape
<1>1. Init => Typed /\ Timely /\ FlowExact
  BY InitTyped, NextTimely, FirstFlow
<1>2. Typed /\ Timely /\ FlowExact /\ [Next]_vars => Typed' /\ Timely' /\ FlowExact'
  BY NextTyped, NextTimely, NextFlows
<1>3. Typed /\ FlowExact => FlowMatchesTape
  <2> SUFFICES ASSUME Typed, FlowExact PROVE FlowMatchesTape
    OBVIOUS
  <2>1. DOMAIN tape = 1..Len(tape) /\ \A i \in DOMAIN tape : tape[i] \in Trades
    BY LenProperties, ElementOfSeq DEF Typed
  <2>2. \A C, S : S = Within(tape, C) => VolumeAt(S) = Traded(tape, C)
    BY VolumeAtIs
  <2>3. flow.totals = VolumeAt(DOMAIN tape)
    <3> DEFINE S == DOMAIN tape
    <3>1. S = Within(tape, Trades)
      BY <2>1 DEF Within
    <3> HIDE DEF S
    <3> QED BY <2>2, <3>1 DEF FlowExact, SumsExact, S
  <2>4. ASSUME NEW p \in Prices
        PROVE  LET here == {i \in DOMAIN tape : tape[i].price = p}
               IN  /\ flow.profile[p] = VolumeAt(here)
                   /\ flow.large[p] = Cardinality({i \in here : IsLarge(tape[i])})
    <3> DEFINE S == {i \in DOMAIN tape : tape[i].price = p}
               L == {i \in S : IsLarge(tape[i])}
    <3>1. S = Within(tape, AtPrice(p)) /\ L = Within(tape, LargeAt(p))
      BY <2>1 DEF Within, AtPrice, LargeAt
    <3> HIDE DEF S, L
    <3>2. flow.profile[p] = VolumeAt(S)
      BY <2>2, <3>1 DEF FlowExact, SumsExact
    <3>3. flow.large[p] = Cardinality(L)
      BY <3>1 DEF FlowExact, SumsExact, Traded
    <3> QED BY <3>2, <3>3 DEF S, L
  <2>5. ASSUME NEW w \in Intervals, NEW n \in DOMAIN tape,
               SlotOf(tape[n].ts, w) + w >= Cutoff(latest)
        PROVE  BucketVolume(w, SlotOf(tape[n].ts, w))
                 = VolumeAt({i \in DOMAIN tape : SlotOf(tape[i].ts, w) = SlotOf(tape[n].ts, w)})
    <3> DEFINE s == SlotOf(tape[n].ts, w)
               S == {i \in DOMAIN tape : SlotOf(tape[i].ts, w) = s}
    <3>1. s \in Nat
      BY <2>1, SlotMultiple, Constants DEF Trades
    <3>2. S = Within(tape, InSlot(w, s))
      BY <2>1 DEF Within, InSlot
    <3>3. s + w >= Cutoff(latest)
      BY <2>5
    <3> HIDE DEF s, S
    <3>4. Held(flow, w, s) = Traded(tape, InSlot(w, s))
      BY <3>1, <3>3 DEF FlowExact, SlotsExact
    <3>5. BucketVolume(w, s) = Held(flow, w, s)
      <4>1. DOMAIN NoVolume = Fields
        BY DEF NoVolume, Fields
      <4> QED BY <4>1 DEF BucketVolume, SumOver, Held, OpenSum, ClosedSum, Opened, ClosedAt
    <3> QED BY <2>2, <3>2, <3>4, <3>5 DEF s, S
  <2> QED BY <2>3, <2>4, <2>5 DEF FlowMatchesTape
<1> QED BY <1>1, <1>2, <1>3, PTL DEF Spec

-----------------------------------------------------------------------------
(* The clusters. *)

\* What a cluster says of the prices and the sizes of a stretch of a tape, and of its volume.
Bounds(c, h, from, to) ==
  /\ \E i \in from..to : c.high = h[i].price
  /\ \E i \in from..to : c.low = h[i].price
  /\ \A i \in from..to : c.low <= h[i].price /\ h[i].price <= c.high
  /\ \E i \in from..to : c.largest = h[i].qty
  /\ \A i \in from..to : h[i].qty <= c.largest
Tells(c, h, from, to) ==
  /\ c.count = to - from + 1 /\ c.count > 0
  /\ c.first = h[from].price /\ c.last = h[to].price
  /\ c.start = h[from].ts /\ c.end = h[to].ts
  /\ Bounds(c, h, from, to)
  /\ c.buy = BoughtAt(h, from..to) /\ c.sell = SoldAt(h, from..to)

\* A cluster with a trade, part by part.
LEMMA ClusterParts ==
  ASSUME NEW c \in TradeClusters, NEW trade \in Trades, NEW d, d = ClusterWithTrade(c, trade)
  PROVE  /\ d.start = c.start /\ d.end = trade.ts /\ d.first = c.first /\ d.last = trade.price
         /\ d.count = c.count + 1
         /\ d.buy = c.buy + Bought(trade) /\ d.sell = c.sell + Sold(trade)
         /\ d.high = IF trade.price > c.high THEN trade.price ELSE c.high
         /\ d.low = IF trade.price < c.low THEN trade.price ELSE c.low
         /\ d.largest = IF trade.qty > c.largest THEN trade.qty ELSE c.largest
         /\ d.levels = IF trade.price # c.last THEN c.levels + 1 ELSE c.levels
         /\ d.monotonic = (c.monotonic /\ GoesWith(c.side, trade.price, c.last))
         /\ d.side = IF d.buy >= d.sell THEN "Buy" ELSE "Sell"
<1> DEFINE buy == c.buy + Bought(trade)
           sell == c.sell + Sold(trade)
           high == IF trade.price > c.high THEN trade.price ELSE c.high
           low == IF trade.price < c.low THEN trade.price ELSE c.low
           count == c.count + 1
           largest == IF trade.qty > c.largest THEN trade.qty ELSE c.largest
           levels == IF trade.price # c.last THEN c.levels + 1 ELSE c.levels
           monotonic == c.monotonic /\ GoesWith(c.side, trade.price, c.last)
           side == IF buy >= sell THEN "Buy" ELSE "Sell"
<1>1. d = [c EXCEPT !.end = trade.ts, !.high = high, !.low = low, !.buy = buy, !.sell = sell,
                    !.count = count, !.largest = largest, !.levels = levels,
                    !.monotonic = monotonic, !.last = trade.price, !.side = side]
  BY DEF ClusterWithTrade
<1> HIDE DEF buy, sell, high, low, count, largest, levels, monotonic, side
<1>2. /\ d.start = c.start /\ d.end = trade.ts /\ d.first = c.first /\ d.last = trade.price
      /\ d.count = count /\ d.buy = buy /\ d.sell = sell /\ d.high = high /\ d.low = low
      /\ d.largest = largest /\ d.levels = levels /\ d.monotonic = monotonic /\ d.side = side
  BY <1>1 DEF TradeClusters
<1> QED BY <1>2 DEF buy, sell, high, low, count, largest, levels, monotonic, side

\* What a stretch of the tape has stays when the tape grows behind it.
LEMMA TellsStill ==
  ASSUME NEW h \in Seq(Trades), NEW trade \in Trades, NEW g, Grown(g, h, trade),
         NEW c, NEW from \in 1..Len(h), NEW to \in 1..Len(h), Tells(c, h, from, to)
  PROVE  Tells(c, g, from, to)
<1> DEFINE S == from..to
<1>1. /\ DOMAIN h = 1..Len(h) /\ Len(h) \in Nat /\ \A i \in DOMAIN h : g[i] = h[i]
      /\ Len(g) \notin DOMAIN h
  <2>1. /\ g \in Seq(Trades) /\ Len(g) = Len(h) + 1 /\ Len(h) \in Nat
        /\ DOMAIN h = 1..Len(h) /\ DOMAIN g = DOMAIN h \cup {Len(g)}
        /\ Len(g) \notin DOMAIN h /\ g[Len(g)] = trade
        /\ \A i \in DOMAIN h : g[i] = h[i]
        /\ \A i \in DOMAIN h : h[i] \in Trades
    BY TapeGrows
  <2> QED BY <2>1
<1>2. from \in DOMAIN h /\ to \in DOMAIN h /\ S \in SUBSET DOMAIN h
  BY <1>1
<1>3. \A i \in S : g[i] = h[i]
  BY <1>1, <1>2
<1>4. g[from] = h[from] /\ g[to] = h[to]
  BY <1>1, <1>2
<1>5. BoughtAt(g, S) = BoughtAt(h, S) /\ SoldAt(g, S) = SoldAt(h, S)
  BY <1>3 DEF BoughtAt, SoldAt
<1>6. Bounds(c, g, from, to)
  BY <1>3 DEF Tells, Bounds
<1> QED BY <1>4, <1>5, <1>6 DEF Tells

\* A trade at the end of a stretch.
LEMMA BoundsGrow ==
  ASSUME NEW h \in Seq(Trades), NEW trade \in Trades, NEW g, Grown(g, h, trade),
         NEW c \in TradeClusters, NEW from \in 1..Len(h), Bounds(c, h, from, Len(h)),
         NEW d, d = ClusterWithTrade(c, trade)
  PROVE  Bounds(d, g, from, Len(g))
<1> DEFINE n == Len(g)
<1>1. /\ DOMAIN h = 1..Len(h) /\ Len(h) \in Nat /\ \A i \in DOMAIN h : g[i] = h[i]
      /\ n = Len(h) + 1 /\ g[n] = trade /\ \A i \in DOMAIN h : h[i] \in Trades
  <2>1. /\ g \in Seq(Trades) /\ Len(g) = Len(h) + 1 /\ Len(h) \in Nat
        /\ DOMAIN h = 1..Len(h) /\ DOMAIN g = DOMAIN h \cup {Len(g)}
        /\ Len(g) \notin DOMAIN h /\ g[Len(g)] = trade
        /\ \A i \in DOMAIN h : g[i] = h[i]
        /\ \A i \in DOMAIN h : h[i] \in Trades
    BY TapeGrows
  <2> QED BY <2>1
<1> HIDE DEF n
<1>2. /\ n \in from..n /\ \A i \in from..n : i \in from..Len(h) \/ i = n
      /\ \A i \in from..Len(h) : i \in from..n /\ g[i] = h[i] /\ h[i].price \in Nat /\ h[i].qty \in Nat
  <2>1. \A t \in Trades : t.price \in Nat /\ t.qty \in Nat
    BY Constants DEF Trades
  <2>2. \A i \in from..Len(h) : i \in DOMAIN h
    BY <1>1
  <2>3. /\ n \in from..n /\ \A i \in from..n : i \in from..Len(h) \/ i = n
        /\ \A i \in from..Len(h) : i \in from..n
    BY <1>1
  <2> QED BY <1>1, <2>1, <2>2, <2>3
<1>3. /\ d.high = IF trade.price > c.high THEN trade.price ELSE c.high
      /\ d.low = IF trade.price < c.low THEN trade.price ELSE c.low
      /\ d.largest = IF trade.qty > c.largest THEN trade.qty ELSE c.largest
  BY ClusterParts
<1> DEFINE high == c.high
           low == c.low
           largest == c.largest
           p == trade.price
           q == trade.qty
<1>4. high \in Nat /\ low \in Nat /\ largest \in Nat /\ p \in Nat /\ q \in Nat
  BY Constants DEF TradeClusters, Trades
<1>5. g[n].price = p /\ g[n].qty = q
  BY <1>1
<1>6. /\ \E i \in from..Len(h) : high = h[i].price
      /\ \E i \in from..Len(h) : low = h[i].price
      /\ \A i \in from..Len(h) : low <= h[i].price /\ h[i].price <= high
      /\ \E i \in from..Len(h) : largest = h[i].qty
      /\ \A i \in from..Len(h) : h[i].qty <= largest
  BY DEF Bounds
<1>7. /\ d.high = IF p > high THEN p ELSE high
      /\ d.low = IF p < low THEN p ELSE low
      /\ d.largest = IF q > largest THEN q ELSE largest
  BY <1>3
<1> HIDE DEF high, low, largest, p, q
<1>8. \E i \in from..n : d.high = g[i].price
  BY <1>2, <1>5, <1>6, <1>7
<1>9. \E i \in from..n : d.low = g[i].price
  BY <1>2, <1>5, <1>6, <1>7
<1>10. \E i \in from..n : d.largest = g[i].qty
  BY <1>2, <1>5, <1>6, <1>7
<1>11. ASSUME NEW i \in from..n
       PROVE  d.low <= g[i].price /\ g[i].price <= d.high /\ g[i].qty <= d.largest
  <2>1. CASE i = n
    <3>1. low <= high
      BY <1>2, <1>4, <1>6
    <3> QED BY <1>4, <1>5, <1>7, <2>1, <3>1
  <2>2. CASE i \in from..Len(h)
    <3> DEFINE x == h[i].price
               y == h[i].qty
    <3>1. /\ g[i].price = x /\ g[i].qty = y /\ x \in Nat /\ y \in Nat
          /\ low <= x /\ x <= high /\ y <= largest
      BY <1>2, <1>6, <2>2
    <3> HIDE DEF x, y
    <3> QED BY <1>4, <1>7, <3>1
  <2> QED BY <1>2, <2>1, <2>2
<1> QED BY <1>8, <1>9, <1>10, <1>11 DEF Bounds, n

\* An open cluster tells of its stretch with the trade that joins it.
LEMMA TellsMore ==
  ASSUME NEW h \in Seq(Trades), NEW trade \in Trades, NEW g, Grown(g, h, trade),
         NEW c \in TradeClusters, NEW from \in 1..Len(h), Tells(c, h, from, Len(h)),
         NEW d, d = ClusterWithTrade(c, trade)
  PROVE  Tells(d, g, from, Len(g))
<1> DEFINE S == from..Len(h)
           E == from..Len(g)
<1>1. /\ DOMAIN h = 1..Len(h) /\ Len(h) \in Nat /\ \A i \in DOMAIN h : g[i] = h[i]
      /\ Len(g) = Len(h) + 1 /\ g[Len(g)] = trade
  <2>1. /\ g \in Seq(Trades) /\ Len(g) = Len(h) + 1 /\ Len(h) \in Nat
        /\ DOMAIN h = 1..Len(h) /\ DOMAIN g = DOMAIN h \cup {Len(g)}
        /\ Len(g) \notin DOMAIN h /\ g[Len(g)] = trade
        /\ \A i \in DOMAIN h : g[i] = h[i]
        /\ \A i \in DOMAIN h : h[i] \in Trades
    BY TapeGrows
  <2> QED BY <2>1
<1>2. S \in SUBSET DOMAIN h /\ S \subseteq E /\ Len(g) \in E /\ E \ {Len(g)} \subseteq S
  BY <1>1
<1>3. g[from] = h[from]
  BY <1>1
<1>4. Bounds(d, g, from, Len(g))
  BY BoundsGrow DEF Tells
<1>5. /\ d.start = c.start /\ d.end = trade.ts /\ d.first = c.first /\ d.last = trade.price
      /\ d.count = c.count + 1
      /\ d.buy = c.buy + Bought(trade) /\ d.sell = c.sell + Sold(trade)
  BY ClusterParts
<1>6. /\ c.count = Len(h) - from + 1 /\ c.count > 0 /\ c.first = h[from].price
      /\ c.start = h[from].ts /\ c.buy = BoughtAt(h, S) /\ c.sell = SoldAt(h, S)
  BY DEF Tells
<1> HIDE DEF S, E
<1>7. BoughtAt(g, E) = BoughtAt(h, S) + Bought(trade) /\ SoldAt(g, E) = SoldAt(h, S) + Sold(trade)
  BY <1>2, VolumeAtGrows
<1>8. d.count = Len(g) - from + 1 /\ d.count > 0
  <2> DEFINE k == c.count
             l == Len(h)
  <2>1. k = l - from + 1 /\ k > 0 /\ d.count = k + 1 /\ Len(g) = l + 1 /\ l \in Nat /\ from \in Nat
    BY <1>1, <1>5, <1>6
  <2> HIDE DEF k, l
  <2> QED BY <2>1
<1> QED BY <1>1, <1>3, <1>4, <1>5, <1>6, <1>7, <1>8 DEF Tells, E

\* A new cluster tells of its first trade.
LEMMA TellsFirst ==
  ASSUME NEW h \in Seq(Trades), NEW trade \in Trades, NEW g, Grown(g, h, trade),
         NEW d, d = ClusterWithTrade(NewCluster(trade), trade)
  PROVE  Tells(d, g, Len(g), Len(g))
<1> DEFINE n == Len(g)
           c == NewCluster(trade)
           none == {}
           E == n..n
<1>1. n \in Nat /\ g[n] = trade
  <2>1. /\ g \in Seq(Trades) /\ Len(g) = Len(h) + 1 /\ Len(h) \in Nat
        /\ DOMAIN h = 1..Len(h) /\ DOMAIN g = DOMAIN h \cup {Len(g)}
        /\ Len(g) \notin DOMAIN h /\ g[Len(g)] = trade
        /\ \A i \in DOMAIN h : g[i] = h[i]
        /\ \A i \in DOMAIN h : h[i] \in Trades
    BY TapeGrows
  <2> QED BY <2>1
<1>2. c \in TradeClusters
  BY DEF NewCluster, TradeClusters, Trades
<1>3. /\ c.start = trade.ts /\ c.first = trade.price /\ c.high = trade.price /\ c.low = trade.price
      /\ c.count = 0 /\ c.buy = 0 /\ c.sell = 0 /\ c.largest = 0
  BY DEF NewCluster
<1> HIDE DEF n, c
<1>4. /\ d.start = trade.ts /\ d.end = trade.ts /\ d.first = trade.price /\ d.last = trade.price
      /\ d.count = 1 /\ d.buy = 0 + Bought(trade) /\ d.sell = 0 + Sold(trade)
      /\ d.high = trade.price /\ d.low = trade.price /\ d.largest = trade.qty
  <2>1. trade.price \in Nat /\ trade.qty \in Nat
    BY Constants DEF Trades
  <2>2. d = ClusterWithTrade(c, trade)
    BY DEF c
  <2> QED BY <1>2, <1>3, <2>1, <2>2, ClusterParts
<1>5. E = {n}
  BY <1>1
<1>6. BoughtAt(g, E) = 0 + Bought(trade) /\ SoldAt(g, E) = 0 + Sold(trade)
  <2>1. none \in SUBSET DOMAIN h /\ none \subseteq E /\ n \in E /\ E \ {n} \subseteq none
    BY <1>5
  <2>2. BoughtAt(h, none) = 0 /\ SoldAt(h, none) = 0
    <3> DEFINE f == [i \in none |-> Bought(h[i])]
               k == [i \in none |-> Sold(h[i])]
    <3>1. DOMAIN f = {} /\ DOMAIN k = {}
      OBVIOUS
    <3>2. BoughtAt(h, none) = SumFunction(f) /\ SoldAt(h, none) = SumFunction(k)
      BY DEF BoughtAt, SoldAt
    <3> HIDE DEF f, k, none
    <3> QED BY <3>1, <3>2, SumEmpty
  <2> HIDE DEF none, E
  <2>3. BoughtAt(g, E) = BoughtAt(h, none) + Bought(trade) /\ SoldAt(g, E) = SoldAt(h, none) + Sold(trade)
    BY <2>1, VolumeAtGrows DEF n
  <2> QED BY <2>2, <2>3
<1>7. Bounds(d, g, n, n)
  <2>1. /\ g[n].price = trade.price /\ g[n].qty = trade.qty
        /\ trade.price \in Nat /\ trade.qty \in Nat
    BY <1>1, Constants DEF Trades
  <2> QED BY <1>4, <1>5, <2>1 DEF Bounds
<1>8. d.count = n - n + 1 /\ d.count > 0
  BY <1>1, <1>4
<1> QED BY <1>1, <1>4, <1>6, <1>7, <1>8 DEF Tells, n

\* How many trades are in the clusters of a list behind the n-th.
CountsIn(list, S) == SumFunction([i \in S |-> list[i].count])
Rear(list, n) == CountsIn(list, n + 1 .. Len(list))

\* The elements of lists of clusters.
LEMMA ClustersIn ==
  ASSUME NEW list \in Seq(TradeClusters)
  PROVE  /\ Len(list) \in Nat /\ DOMAIN list = 1..Len(list)
         /\ \A i \in 1..Len(list) : list[i] \in TradeClusters /\ list[i].count \in Nat
<1>1. /\ Len(list) \in Nat /\ DOMAIN list = 1..Len(list)
      /\ \A i \in 1..Len(list) : list[i] \in TradeClusters
  BY LenProperties, ElementOfSeq
<1>2. \A c \in TradeClusters : c.count \in Nat
  BY DEF TradeClusters
<1> QED BY <1>1, <1>2

\* What is behind a cluster, and behind the last.
LEMMA RearTypes ==
  ASSUME NEW list \in Seq(TradeClusters), NEW n \in 0..Len(list)
  PROVE  Rear(list, n) \in Nat /\ (n = Len(list) => Rear(list, n) = 0)
<1> DEFINE S == n + 1 .. Len(list)
           f == [i \in S |-> list[i].count]
<1>1. /\ Len(list) \in Nat
      /\ \A i \in 1..Len(list) : list[i].count \in Nat
  BY ClustersIn
<1>2. f \in [S -> Nat] /\ DOMAIN f = S
  BY <1>1
<1>3. IsFiniteSet(S)
  BY <1>1, FS_Interval
<1>4. n = Len(list) => S = {}
  BY <1>1
<1>5. Rear(list, n) = SumFunction(f)
  BY DEF Rear, CountsIn
<1> HIDE DEF S, f
<1>6. SumFunction(f) \in Nat
  BY <1>2, <1>3, SumNat
<1>7. S = {} => SumFunction(f) = 0
  BY <1>2, SumEmpty
<1> QED BY <1>4, <1>5, <1>6, <1>7

\* A list with one more cluster.
Longer(all, list, c) == all = Append(list, c)

\* The list's new last cluster is behind all the others.
LEMMA RearGrows ==
  ASSUME NEW list \in Seq(TradeClusters), NEW c \in TradeClusters, NEW all, Longer(all, list, c),
         NEW n \in 0..Len(list)
  PROVE  Rear(all, n) = Rear(list, n) + c.count
<1> DEFINE S == n + 1 .. Len(list)
           E == n + 1 .. Len(all)
           last == Len(all)
           f == [i \in S |-> list[i].count]
           g == [i \in E |-> all[i].count]
<1>1. /\ all \in Seq(TradeClusters) /\ Len(all) = Len(list) + 1 /\ all[Len(list) + 1] = c
      /\ \A i \in 1..Len(list) : all[i] = list[i]
  BY AppendProperties DEF Longer
<1>2. /\ Len(list) \in Nat
      /\ \A i \in 1..Len(list) : list[i].count \in Nat
  BY ClustersIn
<1>3. \A i \in 1..Len(all) : all[i].count \in Nat
  BY <1>1, ClustersIn
<1>4. /\ \A i \in S : i \in 1..Len(list) /\ i \in E
      /\ \A i \in E : i \in 1..Len(all)
      /\ last \in E /\ last \notin S /\ E \ {last} \subseteq S
  BY <1>1, <1>2
<1>5. f \in [S -> Int]
  BY <1>2, <1>4
<1>6. g \in [E -> Int]
  BY <1>3, <1>4
<1>7. \A i \in S : g[i] = f[i]
  BY <1>1, <1>4
<1>8. g[last] = c.count
  BY <1>1, <1>4
<1>9. IsFiniteSet(S)
  BY <1>2, FS_Interval
<1>10. Rear(list, n) = SumFunction(f) /\ Rear(all, n) = SumFunction(g)
  BY DEF Rear, CountsIn
<1>11. S \in SUBSET E /\ last \in E /\ last \notin S /\ E \ {last} \subseteq S
  BY <1>4
<1> HIDE DEF S, E, last, f, g
<1>12. SumFunction(g) = SumFunction(f) + g[last]
  BY <1>5, <1>6, <1>7, <1>9, <1>11, SumGrows
<1> QED BY <1>8, <1>10, <1>12

\* Without clusters at the front, what is behind the others is the same.
LEMMA RearDrops ==
  ASSUME NEW list \in Seq(TradeClusters), NEW rest \in Seq(TradeClusters), NEW k \in 0..Len(list),
         Dropped(rest, list, k), NEW n \in 0..Len(rest)
  PROVE  Rear(rest, n) = Rear(list, n + k) /\ n + k \in 0..Len(list)
<1> DEFINE D == n + 1 .. Len(rest)
           E == n + k + 1 .. Len(list)
           f == [i \in E |-> list[i].count]
           g == [i \in D |-> rest[i].count]
           b == [i \in D |-> i + k]
<1>1. /\ Len(list) \in Nat /\ Len(rest) = Len(list) - k /\ k \in Nat /\ n \in Nat /\ Len(rest) \in Nat
      /\ \A i \in 1..Len(rest) : rest[i] = list[i + k]
      /\ \A i \in 1..Len(list) : list[i].count \in Nat
      /\ \A i \in 1..Len(rest) : rest[i].count \in Nat
  BY ClustersIn DEF Dropped
<1>2. n + k \in 0..Len(list)
  BY <1>1
<1>3. /\ \A i \in D : i \in 1..Len(rest) /\ i + k \in E /\ i \in Int
      /\ \A i \in E : i \in 1..Len(list) /\ i - k \in D /\ i = (i - k) + k
  BY <1>1
<1>4. f \in [E -> Int]
  BY <1>1, <1>3
<1>5. g \in [D -> Int]
  BY <1>1, <1>3
<1>6. IsFiniteSet(D)
  BY <1>1, FS_Interval
<1>7. b \in Bijection(D, E)
  <2>1. b \in [D -> E] /\ \A i \in D : b[i] = i + k
    BY <1>3
  <2>2. \A i, j \in D : b[i] = b[j] => i = j
    BY <1>1, <1>3
  <2>3. \A e \in E : \E i \in D : b[i] = e
    BY <1>3, <2>1
  <2> HIDE DEF b, D, E
  <2> QED BY <2>1, <2>2, <2>3 DEF Bijection, Injection, Surjection, IsInjective
<1>8. Renaming(b, f, g)
  <2>1. \A i \in D : g[i] = f[b[i]]
    BY <1>1, <1>3
  <2> QED BY <2>1 DEF Renaming
<1>9. Rear(rest, n) = SumFunction(g)
  BY DEF Rear, CountsIn
<1>10. Rear(list, n + k) = SumFunction(f)
  BY DEF Rear, CountsIn
<1> HIDE DEF D, E, f, g, b
<1>11. SumFunction(g) = SumFunction(f)
  BY <1>4, <1>5, <1>6, <1>7, <1>8, SumRenames
<1> QED BY <1>2, <1>9, <1>10, <1>11

\* Where the n-th cluster of a list ends on a tape that goes on with m more trades.
EndOf(list, m, h, n) == Len(h) - m - Rear(list, n)

\* A list of clusters, and m more trades after them, cut the latest part of a tape.
Cut(list, m, h) ==
  /\ \A n \in 0..Len(list) : EndOf(list, m, h, n) \in 0..Len(h)
  /\ \A n \in 1..Len(list) : Tells(list[n], h, EndOf(list, m, h, n - 1) + 1, EndOf(list, m, h, n))

\* How many trades the open cluster has.
Size(open) == IF open = None THEN 0 ELSE open.count

SplitsTape(t, h) ==
  /\ Cut(t.closed, Size(t.open), h)
  /\ t.open # None => Tells(t.open, h, Len(h) - t.open.count + 1, Len(h))

\* One more trade after the clusters.
LEMMA CutGrows ==
  ASSUME NEW h \in Seq(Trades), NEW trade \in Trades, NEW g, Grown(g, h, trade),
         NEW list \in Seq(TradeClusters), NEW m \in Nat, Cut(list, m, h)
  PROVE  Cut(list, m + 1, g)
<1>1. Len(g) = Len(h) + 1 /\ Len(h) \in Nat
  <2>1. /\ g \in Seq(Trades) /\ Len(g) = Len(h) + 1 /\ Len(h) \in Nat
        /\ DOMAIN h = 1..Len(h) /\ DOMAIN g = DOMAIN h \cup {Len(g)}
        /\ Len(g) \notin DOMAIN h /\ g[Len(g)] = trade
        /\ \A i \in DOMAIN h : g[i] = h[i]
        /\ \A i \in DOMAIN h : h[i] \in Trades
    BY TapeGrows
  <2> QED BY <2>1
<1>2. Len(list) \in Nat
  BY ClustersIn
<1>3. ASSUME NEW n \in 0..Len(list)
      PROVE  EndOf(list, m + 1, g, n) = EndOf(list, m, h, n) /\ EndOf(list, m, h, n) \in 0..Len(h)
  <2> DEFINE r == Rear(list, n)
  <2>1. r \in Nat
    BY RearTypes
  <2>2. EndOf(list, m + 1, g, n) = Len(g) - (m + 1) - r /\ EndOf(list, m, h, n) = Len(h) - m - r
    BY DEF EndOf
  <2>3. EndOf(list, m, h, n) \in 0..Len(h)
    BY DEF Cut
  <2> HIDE DEF r
  <2>4. Len(g) - (m + 1) - r = Len(h) - m - r
    BY <1>1, <2>1
  <2> QED BY <2>2, <2>3, <2>4
<1>4. ASSUME NEW n \in 1..Len(list)
      PROVE  Tells(list[n], g, EndOf(list, m + 1, g, n - 1) + 1, EndOf(list, m + 1, g, n))
  <2> DEFINE from == EndOf(list, m, h, n - 1) + 1
             to == EndOf(list, m, h, n)
             c == list[n]
  <2>1. n - 1 \in 0..Len(list) /\ n \in 0..Len(list)
    BY <1>2
  <2>2. from \in 1 .. Len(h) + 1 /\ to \in 0..Len(h)
    <3> DEFINE x == EndOf(list, m, h, n - 1)
    <3>1. x \in 0..Len(h) /\ EndOf(list, m, h, n) \in 0..Len(h)
      BY <1>3, <2>1
    <3> HIDE DEF x
    <3>2. x + 1 \in 1 .. Len(h) + 1
      BY <1>1, <3>1
    <3> QED BY <3>1, <3>2 DEF x
  <2>3. Tells(c, h, from, to)
    BY DEF Cut
  <2>4. EndOf(list, m + 1, g, n - 1) + 1 = from /\ EndOf(list, m + 1, g, n) = to
    BY <1>3, <2>1
  <2>5. c.count = to - from + 1 /\ c.count > 0
    BY <2>3 DEF Tells
  <2> HIDE DEF from, to, c
  <2>6. from \in 1..Len(h) /\ to \in 1..Len(h)
    BY <1>1, <2>2, <2>5
  <2>7. Tells(c, g, from, to)
    BY <2>3, <2>6, TellsStill
  <2> QED BY <2>4, <2>7 DEF c
<1>5. \A n \in 0..Len(list) : EndOf(list, m + 1, g, n) \in 0..Len(g)
  BY <1>1, <1>3
<1> QED BY <1>4, <1>5 DEF Cut

\* The trades after the clusters become a cluster.
LEMMA CutAdds ==
  ASSUME NEW h \in Seq(Trades), NEW list \in Seq(TradeClusters), NEW c \in TradeClusters,
         Cut(list, c.count, h), Tells(c, h, Len(h) - c.count + 1, Len(h)),
         NEW all, Longer(all, list, c)
  PROVE  Cut(all, 0, h)
<1> DEFINE m == c.count
           l == Len(list)
           k == Len(h)
<1>1. /\ all \in Seq(TradeClusters) /\ Len(all) = l + 1 /\ all[l + 1] = c
      /\ \A i \in 1..l : all[i] = list[i]
  BY AppendProperties DEF Longer
<1>2. l \in Nat /\ k \in Nat /\ m \in Nat
  BY ClustersIn, LenProperties DEF TradeClusters
<1>3. ASSUME NEW n \in 0..l
      PROVE  EndOf(all, 0, h, n) = EndOf(list, m, h, n) /\ EndOf(list, m, h, n) \in 0..k
  <2> DEFINE r == Rear(list, n)
             s == Rear(all, n)
  <2>1. s = r + m
    BY RearGrows
  <2>2. r \in Nat
    BY RearTypes
  <2>3. EndOf(all, 0, h, n) = k - 0 - s /\ EndOf(list, m, h, n) = k - m - r
    BY DEF EndOf
  <2>4. EndOf(list, m, h, n) \in 0..k
    BY DEF Cut
  <2> HIDE DEF r, s, m, k
  <2>5. k - 0 - s = k - m - r
    BY <1>2, <2>1, <2>2
  <2> QED BY <2>3, <2>4, <2>5
<1>4. EndOf(all, 0, h, l + 1) = k
  <2>1. l + 1 = Len(all) /\ l + 1 \in 0..Len(all)
    BY <1>1, <1>2
  <2>2. Rear(all, l + 1) = 0
    BY <1>1, <2>1, RearTypes
  <2>3. EndOf(all, 0, h, l + 1) = k - 0 - 0
    BY <2>2 DEF EndOf
  <2> QED BY <1>2, <2>3
<1>5. EndOf(list, m, h, l) = k - m
  <2>1. l \in 0..Len(list)
    BY <1>2
  <2>2. Rear(list, l) = 0
    BY <2>1, RearTypes
  <2> QED BY <1>2, <2>2 DEF EndOf
<1>6. \A n \in 0..Len(all) : EndOf(all, 0, h, n) \in 0..Len(h)
  <2>1. \A n \in 0..Len(all) : n \in 0..l \/ n = l + 1
    BY <1>1, <1>2
  <2> HIDE DEF l
  <2> QED BY <1>2, <1>3, <1>4, <2>1
<1>7. ASSUME NEW n \in 1..Len(all)
      PROVE  Tells(all[n], h, EndOf(all, 0, h, n - 1) + 1, EndOf(all, 0, h, n))
  <2>1. CASE n \in 1..l
    <3>1. n - 1 \in 0..l /\ n \in 0..l
      BY <1>2, <2>1
    <3>2. /\ EndOf(all, 0, h, n - 1) = EndOf(list, m, h, n - 1)
          /\ EndOf(all, 0, h, n) = EndOf(list, m, h, n)
      BY <1>3, <3>1
    <3>3. Tells(list[n], h, EndOf(list, m, h, n - 1) + 1, EndOf(list, m, h, n))
      BY <2>1 DEF Cut
    <3>4. all[n] = list[n]
      BY <1>1, <2>1
    <3> QED BY <3>2, <3>3, <3>4
  <2>2. CASE n = l + 1
    <3>1. n - 1 = l /\ l \in 0..l
      BY <1>2, <2>2
    <3>2. EndOf(all, 0, h, n - 1) = k - m
      BY <1>3, <1>5, <3>1
    <3>3. Tells(all[n], h, (k - m) + 1, k)
      BY <1>1, <2>2
    <3> QED BY <1>4, <2>2, <3>2, <3>3
  <2>3. n \in 1..l \/ n = l + 1
    BY <1>1, <1>2
  <2> QED BY <2>1, <2>2, <2>3
<1> QED BY <1>6, <1>7 DEF Cut

\* Clusters at the front leave.
LEMMA CutDrops ==
  ASSUME NEW h \in Seq(Trades), NEW list \in Seq(TradeClusters), NEW rest \in Seq(TradeClusters),
         NEW k \in 0..Len(list), Dropped(rest, list, k), NEW m \in Nat, Cut(list, m, h)
  PROVE  Cut(rest, m, h)
<1>1. /\ Len(list) \in Nat /\ Len(rest) = Len(list) - k /\ k \in Nat /\ Len(rest) \in Nat
      /\ \A i \in 1..Len(rest) : rest[i] = list[i + k]
  BY ClustersIn DEF Dropped
<1>2. ASSUME NEW n \in 0..Len(rest)
      PROVE  EndOf(rest, m, h, n) = EndOf(list, m, h, n + k) /\ n + k \in 0..Len(list)
  BY RearDrops DEF EndOf
<1>3. \A n \in 0..Len(rest) : EndOf(rest, m, h, n) \in 0..Len(h)
  BY <1>2 DEF Cut
<1>4. ASSUME NEW n \in 1..Len(rest)
      PROVE  Tells(rest[n], h, EndOf(rest, m, h, n - 1) + 1, EndOf(rest, m, h, n))
  <2> DEFINE i == n + k
  <2>1. /\ n - 1 \in 0..Len(rest) /\ n \in 0..Len(rest) /\ i \in 1..Len(list)
        /\ (n - 1) + k = i - 1 /\ rest[n] = list[i]
    BY <1>1
  <2> HIDE DEF i
  <2>2. EndOf(rest, m, h, n - 1) = EndOf(list, m, h, i - 1)
    BY <1>2, <2>1
  <2>3. EndOf(rest, m, h, n) = EndOf(list, m, h, i)
    BY <1>2, <2>1 DEF i
  <2>4. Tells(list[i], h, EndOf(list, m, h, i - 1) + 1, EndOf(list, m, h, i))
    BY <2>1 DEF Cut
  <2> QED BY <2>1, <2>2, <2>3, <2>4
<1> QED BY <1>3, <1>4 DEF Cut

\* A cluster is not nothing.
LEMMA ClusterThere ==
  ASSUME NEW c \in TradeClusters
  PROVE  c # None /\ Size(c) = c.count /\ c.count \in Nat
<1>1. c # None
  <2>1. "none" \in DOMAIN None /\ "none" \notin DOMAIN c
    BY DEF None, TradeClusters
  <2> QED BY <2>1
<1> QED BY <1>1 DEF Size, TradeClusters

\* A trade that begins a cluster, alone or behind one that it closes.
LEMMA SplitBegins ==
  ASSUME NEW h \in Seq(Trades), NEW trade \in Trades, NEW g, Grown(g, h, trade),
         NEW list \in Seq(TradeClusters), Cut(list, 0, h), NEW t,
         t.open = ClusterWithTrade(NewCluster(trade), trade), t.closed = list
  PROVE  SplitsTape(t, g)
<1> DEFINE d == ClusterWithTrade(NewCluster(trade), trade)
<1>1. NewCluster(trade) \in TradeClusters /\ NewCluster(trade).count = 0
  BY DEF NewCluster, TradeClusters, Trades
<1>2. d \in TradeClusters
  BY <1>1, ClusterWithTradeType
<1>3. d = ClusterWithTrade(NewCluster(trade), trade)
  OBVIOUS
<1> HIDE DEF d
<1>4. d.count = 1 /\ Size(d) = 1
  <2>1. d.count = NewCluster(trade).count + 1
    BY <1>1, <1>3, ClusterParts
  <2> QED BY <1>1, <1>2, <2>1, ClusterThere
<1>5. Cut(list, 0 + 1, g)
  <2>1. 0 \in Nat
    OBVIOUS
  <2> QED BY <2>1, CutGrows
<1>6. Tells(d, g, Len(g), Len(g))
  BY <1>3, TellsFirst
<1>7. Len(g) - 1 + 1 = Len(g) /\ 0 + 1 = 1
  <2>1. Len(g) = Len(h) + 1 /\ Len(h) \in Nat
    BY TapeGrows
  <2> QED BY <2>1
<1> QED BY <1>3, <1>4, <1>5, <1>6, <1>7 DEF SplitsTape

\* Where the trades of an open cluster begin on the tape.
LEMMA OpenStretch ==
  ASSUME NEW h \in Seq(Trades), NEW s, s.closed \in Seq(TradeClusters), s.open \in TradeClusters,
         SplitsTape(s, h)
  PROVE  /\ s.open # None /\ s.open.count \in Nat
         /\ Len(h) - s.open.count + 1 \in 1..Len(h) /\ Cut(s.closed, s.open.count, h)
         /\ Tells(s.open, h, Len(h) - s.open.count + 1, Len(h))
<1> DEFINE c == s.open
           m == c.count
           list == s.closed
           from == Len(h) - m + 1
<1>1. c # None /\ Size(c) = m /\ m \in Nat
  BY ClusterThere
<1>2. Tells(c, h, from, Len(h)) /\ Cut(list, m, h)
  BY <1>1 DEF SplitsTape
<1>3. m > 0
  BY <1>2 DEF Tells
<1>4. Len(list) \in 0..Len(list) /\ Len(h) \in Nat
  BY ClustersIn, LenProperties
<1>5. Len(h) - m - 0 \in 0..Len(h)
  <2>1. Rear(list, Len(list)) = 0
    BY <1>4, RearTypes
  <2>2. EndOf(list, m, h, Len(list)) \in 0..Len(h)
    BY <1>2, <1>4 DEF Cut
  <2> QED BY <2>1, <2>2 DEF EndOf
<1>6. from \in 1..Len(h)
  <2> HIDE DEF m
  <2> QED BY <1>1, <1>3, <1>4, <1>5
<1> QED BY <1>1, <1>2, <1>6

\* A trade that joins the open cluster.
LEMMA SplitGoesOn ==
  ASSUME NEW h \in Seq(Trades), NEW trade \in Trades, NEW g, Grown(g, h, trade),
         NEW s, s.closed \in Seq(TradeClusters), s.open \in TradeClusters, SplitsTape(s, h),
         NEW t, t.open = ClusterWithTrade(s.open, trade), t.closed = s.closed
  PROVE  SplitsTape(t, g)
<1> DEFINE c == s.open
           d == t.open
           m == c.count
           list == s.closed
           from == Len(h) - m + 1
<1>1. c \in TradeClusters /\ c # None /\ m \in Nat
  BY OpenStretch
<1>2. Tells(c, h, from, Len(h)) /\ Cut(list, m, h) /\ from \in 1..Len(h)
  BY OpenStretch
<1>3. d = ClusterWithTrade(c, trade) /\ d \in TradeClusters
  BY ClusterWithTradeType
<1> HIDE DEF d
<1>5. /\ Len(g) = Len(h) + 1 /\ Len(h) \in Nat
  <2>1. /\ g \in Seq(Trades) /\ Len(g) = Len(h) + 1 /\ Len(h) \in Nat
        /\ DOMAIN h = 1..Len(h) /\ DOMAIN g = DOMAIN h \cup {Len(g)}
        /\ Len(g) \notin DOMAIN h /\ g[Len(g)] = trade
        /\ \A i \in DOMAIN h : g[i] = h[i]
        /\ \A i \in DOMAIN h : h[i] \in Trades
    BY TapeGrows
  <2> QED BY <2>1
<1>6. from \in 1..Len(h) /\ Len(g) - (m + 1) + 1 = from
  <2> HIDE DEF m
  <2> QED BY <1>1, <1>2, <1>5
<1>7. d.count = m + 1 /\ Size(d) = m + 1 /\ d # None
  BY <1>3, ClusterParts, ClusterThere
<1>8. Cut(list, m + 1, g)
  <2>1. list \in Seq(TradeClusters)
    OBVIOUS
  <2> HIDE DEF m, list
  <2> QED BY <1>1, <1>2, <2>1, CutGrows
<1> HIDE DEF from
<1>9. Tells(d, g, from, Len(g))
  <2> HIDE DEF c
  <2> QED BY <1>1, <1>2, <1>3, <1>6, TellsMore
<1> HIDE DEF m
<1> QED BY <1>6, <1>7, <1>8, <1>9 DEF SplitsTape, d

\* A trade, in whichever cluster.
LEMMA TradeSplits ==
  ASSUME NEW h \in Seq(Trades), NEW trade \in Trades, NEW g, Grown(g, h, trade),
         NEW s \in ClusterTrackers, SplitsTape(s, h), NEW t, t = ClusterTrade(s, trade)
  PROVE  SplitsTape(t, g) /\ t \in ClusterTrackers
<1>1. s.open \in TradeClusters \cup {None} /\ s.closed \in Seq(TradeClusters)
      /\ s = [open |-> s.open, closed |-> s.closed]
  BY DEF ClusterTrackers
<1>2. t \in ClusterTrackers
  BY ClusterTradeType
<1> DEFINE fresh == ClusterWithTrade(NewCluster(trade), trade)
           all == Append(s.closed, s.open)
<1>3. CASE ClosedBy(s, trade) # None
  <2>1. t = [open |-> fresh, closed |-> all]
    BY <1>3 DEF ClusterTrade
  <2>2. s.open \in TradeClusters /\ s.open # None
    BY <1>1, <1>3 DEF ClosedBy
  <2>3. all \in Seq(TradeClusters) /\ Longer(all, s.closed, s.open)
    BY <1>1, <2>2, AppendProperties DEF Longer
  <2>4. t.open = fresh /\ t.closed = all
    BY <2>1
  <2> HIDE DEF all
  <2>5. Cut(s.closed, s.open.count, h) /\ Tells(s.open, h, Len(h) - s.open.count + 1, Len(h))
    BY <2>2 DEF SplitsTape, Size
  <2>6. Cut(all, 0, h)
    BY <1>1, <2>2, <2>3, <2>5, CutAdds
  <2>7. SplitsTape(t, g)
    BY <2>3, <2>4, <2>6, SplitBegins
  <2> QED BY <1>2, <2>7
<1>4. CASE ~(ClosedBy(s, trade) # None) /\ s.open = None
  <2>1. t = [s EXCEPT !.open = fresh]
    BY <1>4 DEF ClusterTrade
  <2> HIDE DEF fresh
  <2>2. t.open = fresh /\ t.closed = s.closed
    BY <1>1, <2>1
  <2>3. Cut(s.closed, 0, h)
    BY <1>4 DEF SplitsTape, Size
  <2>4. SplitsTape(t, g)
    BY <1>1, <2>2, <2>3, SplitBegins DEF fresh
  <2> QED BY <1>2, <2>4
<1>5. CASE ~(ClosedBy(s, trade) # None) /\ s.open # None
  <2> DEFINE grown == ClusterWithTrade(s.open, trade)
  <2>1. t = [s EXCEPT !.open = grown]
    BY <1>5 DEF ClusterTrade
  <2> HIDE DEF grown
  <2>2. t.open = grown /\ t.closed = s.closed
    BY <1>1, <2>1
  <2>3. s.open \in TradeClusters
    BY <1>1, <1>5
  <2>4. SplitsTape(t, g)
    BY <1>1, <2>2, <2>3, SplitGoesOn DEF grown
  <2> QED BY <1>2, <2>4
<1> QED BY <1>3, <1>4, <1>5

\* Pruning, which takes clusters at the front.
LEMMA PruneSplits ==
  ASSUME NEW h \in Seq(Trades), NEW s \in ClusterTrackers, SplitsTape(s, h), NEW now \in Nat,
         NEW t, t = PruneClusters(s, now)
  PROVE  SplitsTape(t, h)
<1>1. t \in ClusterTrackers /\ t.open = s.open
  BY PruneClustersIs
<1>2. s.closed \in Seq(TradeClusters) /\ t.closed \in Seq(TradeClusters)
      /\ Size(s.open) \in Nat
  BY <1>1 DEF ClusterTrackers, Size, TradeClusters
<1>3. PICK k \in 0..Len(s.closed) :
        /\ Len(t.closed) = Len(s.closed) - k
        /\ \A i \in 1 .. Len(s.closed) - k : t.closed[i] = s.closed[i + k]
  BY PruneClustersIs
<1>4. Dropped(t.closed, s.closed, k)
  BY <1>3 DEF Dropped
<1>5. Cut(s.closed, Size(s.open), h)
  BY DEF SplitsTape
<1>6. Cut(t.closed, Size(s.open), h)
  BY <1>2, <1>4, <1>5, CutDrops
<1> QED BY <1>1, <1>6 DEF SplitsTape

\* Every step keeps the clusters exact.
LEMMA NextSplits ==
  ASSUME Typed, SplitsTape(clusters, tape), Timely, [Next]_vars
  PROVE  SplitsTape(clusters', tape')
<1>1. clusters \in ClusterTrackers /\ tape \in Seq(Trades) /\ EventTime \in Nat
  BY TimeTypes DEF Typed
<1>2. CASE \E trade \in Trades : /\ ProcessTrade(trade) /\ Grown(tape', tape, trade)
                                 /\ latest' = Later(trade.ts) /\ changes' = changes
  <2>1. PICK trade \in Trades : ProcessTrade(trade) /\ Grown(tape', tape, trade)
    BY <1>2
  <2> DEFINE t == ClusterTrade(clusters, trade)
             h == tape'
  <2>2. clusters' = PruneClusters(t, trade.ts) /\ trade.ts \in Nat
    BY <2>1 DEF ProcessTrade, Trades
  <2>3. t = ClusterTrade(clusters, trade)
    OBVIOUS
  <2>4. h \in Seq(Trades) /\ Grown(h, tape, trade)
    BY <1>1, <2>1, TapeGrows
  <2> HIDE DEF t, h
  <2>5. SplitsTape(t, h) /\ t \in ClusterTrackers
    BY <1>1, <2>3, <2>4, TradeSplits
  <2>6. SplitsTape(clusters', h)
    BY <2>2, <2>4, <2>5, PruneSplits
  <2> QED BY <2>6 DEF h
<1>3. CASE \E writes \in Seq(Writes), ts \in Nat :
             /\ ProcessUpdate(writes, ts) /\ changes' = changes \o UpdateList(writes, ts)
             /\ latest' = Later(ts) /\ tape' = tape
  <2>1. PICK writes \in Seq(Writes), ts \in Nat : ProcessUpdate(writes, ts) /\ tape' = tape
    BY <1>3
  <2>2. clusters' = PruneClusters(clusters, ts)
    BY <2>1, ProcessUpdateIs
  <2> QED BY <1>1, <2>1, <2>2, PruneSplits
<1>4. CASE Quiet
  <2>1. tape' = tape /\ clusters' \in {clusters, PruneClusters(clusters, EventTime)}
    BY <1>4, QuietIs
  <2>2. CASE clusters' = clusters
    BY <2>1, <2>2
  <2>3. CASE clusters' = PruneClusters(clusters, EventTime)
    BY <1>1, <2>1, <2>3, PruneSplits
  <2> QED BY <2>1, <2>2, <2>3
<1> QED BY <1>2, <1>3, <1>4, NextIs

\* The kept clusters and the open one are one list that cuts the tape.
LEMMA ListCuts ==
  ASSUME Typed, SplitsTape(clusters, tape)
  PROVE  ClusterList \in Seq(TradeClusters) /\ Cut(ClusterList, 0, tape)
<1> DEFINE list == clusters.closed
           open == clusters.open
<1>1. list \in Seq(TradeClusters) /\ open \in TradeClusters \cup {None} /\ tape \in Seq(Trades)
  BY DEF Typed, ClusterTrackers
<1>2. Cut(list, Size(open), tape)
      /\ (open # None => Tells(open, tape, Len(tape) - open.count + 1, Len(tape)))
  BY DEF SplitsTape
<1>3. ClusterList = list \o (IF open = None THEN <<>> ELSE <<open>>)
  BY DEF ClusterList
<1> HIDE DEF list, open
<1>4. CASE open = None
  <2>1. ClusterList = list
    BY <1>1, <1>3, <1>4
  <2>2. Size(open) = 0
    BY <1>4 DEF Size
  <2> QED BY <1>1, <1>2, <2>1, <2>2
<1>5. CASE open # None
  <2>1. ClusterList = Append(list, open)
    BY <1>1, <1>3, <1>5
  <2>2. Longer(ClusterList, list, open)
    BY <2>1 DEF Longer
  <2>3. Size(open) = open.count
    BY <1>5 DEF Size
  <2>4. open \in TradeClusters
    BY <1>1, <1>5
  <2>5. ClusterList \in Seq(TradeClusters)
    BY <1>1, <2>1, <2>4, AppendProperties
  <2> DEFINE all == ClusterList
  <2>6. Longer(all, list, open) /\ Cut(list, open.count, tape)
        /\ Tells(open, tape, Len(tape) - open.count + 1, Len(tape))
    BY <1>2, <1>5, <2>2, <2>3
  <2> HIDE DEF all
  <2>7. Cut(all, 0, tape)
    BY <1>1, <2>4, <2>6, CutAdds
  <2> QED BY <2>5, <2>7 DEF all
<1> QED BY <1>4, <1>5

\* What a cluster tells of a stretch of the tape describes it.
LEMMA TellsDescribes ==
  ASSUME NEW c, NEW from \in Nat, NEW to \in Nat, Tells(c, tape, from, to),
         \A i \in from..to : tape[i].price \in Nat
  PROVE  Describes(c, from, to)
<1> DEFINE prices == {tape[i].price : i \in from..to}
           sizes == {tape[i].qty : i \in from..to}
<1>1. c.high \in prices /\ c.low \in prices /\ c.largest \in sizes
  BY DEF Tells, Bounds
<1>2. /\ \A p \in prices : c.low <= p /\ p <= c.high
      /\ \A q \in sizes : q <= c.largest
  BY DEF Tells, Bounds
<1>3. VolumeAt(from..to).buy = BoughtAt(tape, from..to) /\ VolumeAt(from..to).sell = SoldAt(tape, from..to)
  BY DEF VolumeAt, SumOver, BoughtAt, SoldAt
<1> QED BY <1>1, <1>2, <1>3 DEF Describes, Tells

\* At first there are no trades and no clusters.
LEMMA InitSplits == Init => SplitsTape(clusters, tape)
<1> SUFFICES ASSUME Init PROVE SplitsTape(clusters, tape)
  OBVIOUS
<1>1. clusters.open = None /\ clusters.closed = <<>> /\ tape = <<>>
  BY DEF Init, NewClusters
<1> DEFINE list == clusters.closed
<1>2. list \in Seq(TradeClusters) /\ Len(list) = 0 /\ Len(tape) = 0
  BY <1>1
<1> HIDE DEF list
<1>3. Rear(list, 0) = 0
  <2>1. Len(list) \in 0..Len(list)
    BY <1>2
  <2>2. Rear(list, Len(list)) = 0
    BY <1>2, <2>1, RearTypes
  <2> QED BY <1>2, <2>2
<1>4. EndOf(list, 0, tape, 0) \in 0..Len(tape)
  BY <1>2, <1>3 DEF EndOf
<1>5. Cut(list, 0, tape)
  BY <1>2, <1>4 DEF Cut
<1> QED BY <1>1, <1>5 DEF SplitsTape, Size, list

\* The clusters cut the latest part of the tape into stretches: every trade is in one, in order,
\* and each says of its stretch what is so (clusters.rs, on_trade and prune).
THEOREM ClustersAreExact == Spec => []ClustersSplitTape
<1>1. Init => Typed /\ Timely /\ SplitsTape(clusters, tape)
  BY InitTyped, NextTimely, InitSplits
<1>2. Typed /\ Timely /\ SplitsTape(clusters, tape) /\ [Next]_vars
        => Typed' /\ Timely' /\ SplitsTape(clusters, tape)'
  BY NextTyped, NextTimely, NextSplits
<1>3. Typed /\ SplitsTape(clusters, tape) => ClustersSplitTape
  <2> SUFFICES ASSUME Typed, SplitsTape(clusters, tape) PROVE ClustersSplitTape
    OBVIOUS
  <2> DEFINE list == ClusterList
             len == Len(tape)
  <2>1. /\ list \in Seq(TradeClusters) /\ Cut(list, 0, tape)
        /\ \A n : Behind(n) = Rear(list, n)
    BY ListCuts DEF Behind, SumOver, Rear, CountsIn
  <2>2. /\ len \in Nat /\ Len(list) \in Nat /\ DOMAIN list = 1..Len(list)
        /\ \A i \in 1..len : tape[i].price \in Nat
    <3>1. tape \in Seq(Trades)
      BY DEF Typed
    <3>2. len \in Nat /\ \A i \in 1..len : tape[i] \in Trades
      BY <3>1, LenProperties, ElementOfSeq
    <3>3. \A t \in Trades : t.price \in Nat
      BY Constants DEF Trades
    <3>4. Len(list) \in Nat /\ DOMAIN list = 1..Len(list)
      <4> HIDE DEF list
      <4> QED BY <2>1, ClustersIn
    <3> QED BY <3>2, <3>3, <3>4
  <2> HIDE DEF list
  <2>3. ASSUME NEW n \in 0..Len(list)
        PROVE  /\ EndOf(list, 0, tape, n) = len - Behind(n) /\ EndOf(list, 0, tape, n) \in 0..len
               /\ Behind(n) \in Nat
    <3> DEFINE r == Rear(list, n)
    <3>1. r \in Nat /\ Behind(n) = r
      BY <2>1, RearTypes
    <3>2. EndOf(list, 0, tape, n) = len - 0 - r /\ EndOf(list, 0, tape, n) \in 0..len
      BY <2>1 DEF EndOf, Cut
    <3> HIDE DEF r, len
    <3> QED BY <2>2, <3>1, <3>2
  <2>4. Behind(0) <= len
    <3>1. 0 \in 0..Len(list)
      BY <2>2
    <3> DEFINE b == Behind(0)
    <3>2. b \in Nat /\ len - b \in 0..len
      BY <2>3, <3>1
    <3> HIDE DEF b, len
    <3> QED BY <2>2, <3>2 DEF b
  <2>5. ASSUME NEW n \in 1..Len(list)
        PROVE  Describes(list[n], len - Behind(n - 1) + 1, len - Behind(n))
    <3> DEFINE from == EndOf(list, 0, tape, n - 1) + 1
               to == EndOf(list, 0, tape, n)
    <3>1. n - 1 \in 0..Len(list) /\ n \in 0..Len(list)
      BY <2>2
    <3>2. from \in Nat /\ from >= 1 /\ to \in Nat /\ to <= len
      <4> DEFINE x == EndOf(list, 0, tape, n - 1)
                 y == EndOf(list, 0, tape, n)
      <4>1. x \in 0..len /\ y \in 0..len
        BY <2>3, <3>1
      <4> HIDE DEF x, y, len
      <4>2. x + 1 \in Nat /\ x + 1 >= 1 /\ y \in Nat /\ y <= len
        BY <2>2, <4>1
      <4> QED BY <4>2 DEF x, y
    <3>3. Tells(list[n], tape, from, to)
      BY <2>1 DEF Cut
    <3>4. from = len - Behind(n - 1) + 1 /\ to = len - Behind(n)
      BY <2>3, <3>1
    <3> HIDE DEF from, to, len
    <3>5. \A i \in from..to : i \in 1..len
      BY <2>2, <3>2
    <3>6. \A i \in from..to : tape[i].price \in Nat
      BY <2>2, <3>5
    <3>7. Describes(list[n], from, to)
      BY <3>2, <3>3, <3>6, TellsDescribes
    <3> QED BY <3>4, <3>7
  <2> QED BY <2>2, <2>4, <2>5 DEF ClustersSplitTape, list, len
<1> QED BY <1>1, <1>2, <1>3, PTL DEF Spec

-----------------------------------------------------------------------------
(* The sweeps. *)

\* A stretch of a tape that is of one side, and its prices.
Sided(h, from, to, side) == \A i \in from..to : h[i].aggressor = side
PricesIn(h, from, to) == {h[i].price : i \in from..to}

\* All trades of a tape are of something.
Positive(h) == \A i \in DOMAIN h : h[i].qty > 0

\* A cluster knows the side of a stretch of one side, and, while the prices go that way, that
\* the newest is at the edge and how many there are at least.
Leads(c, side) ==
  IF side = "Buy" THEN c.buy > 0 /\ c.sell = 0 ELSE c.sell > 0 /\ c.buy = 0
Goes(h, from, to, side) ==
  \A i \in from .. to - 1 : GoesWith(side, h[i + 1].price, h[i].price)
OneWay(c, h, from, to, side) ==
  /\ Goes(h, from, to, side)
  /\ c.last = IF side = "Buy" THEN c.high ELSE c.low
  /\ c.levels <= Cardinality(PricesIn(h, from, to))
Steady(c, h, from, to) ==
  \A side \in Aggressors : Sided(h, from, to, side) =>
    /\ Leads(c, side) /\ c.side = side
    /\ c.monotonic => OneWay(c, h, from, to, side)

\* The prices of a stretch are finitely many.
LEMMA PricesOfStretch ==
  ASSUME NEW h, NEW from \in Int, NEW to \in Int
  PROVE  /\ IsFiniteSet(PricesIn(h, from, to)) /\ Cardinality(PricesIn(h, from, to)) \in Nat
         /\ IsFiniteSet({h[i].aggressor : i \in from..to})
<1> DEFINE S == from..to
           f == [i \in S |-> h[i].price]
           g == [i \in S |-> h[i].aggressor]
           P == PricesIn(h, from, to)
           A == {h[i].aggressor : i \in from..to}
<1>1. IsFiniteSet(S)
  BY FS_Interval
<1>2. f \in Surjection(S, P) /\ g \in Surjection(S, A)
  BY DEF Surjection, PricesIn
<1> HIDE DEF S, f, g, P, A
<1>3. IsFiniteSet(P) /\ IsFiniteSet(A)
  BY <1>1, <1>2, FS_Surjection
<1>4. Cardinality(P) \in Nat
  BY <1>3, FS_CardinalityType
<1> QED BY <1>3, <1>4 DEF P, A

\* The cluster that a trade begins.
LEMMA SteadyFirst ==
  ASSUME NEW g, NEW n \in Nat, NEW trade \in Trades, g[n] = trade, trade.qty > 0,
         NEW d, d = ClusterWithTrade(NewCluster(trade), trade)
  PROVE  Steady(d, g, n, n)
<1> DEFINE c == NewCluster(trade)
<1>1. c \in TradeClusters /\ trade.qty \in Nat /\ trade.price \in Nat
  BY Constants DEF NewCluster, TradeClusters, Trades
<1>2. c.buy = 0 /\ c.sell = 0 /\ c.high = trade.price /\ c.low = trade.price /\ c.levels = 1
      /\ c.last = trade.price
  BY DEF NewCluster
<1> HIDE DEF c
<1>3. /\ d.last = trade.price /\ d.buy = 0 + Bought(trade) /\ d.sell = 0 + Sold(trade)
      /\ d.high = trade.price /\ d.low = trade.price /\ d.levels = 1
      /\ d.side = IF d.buy >= d.sell THEN "Buy" ELSE "Sell"
  <2>1. d = ClusterWithTrade(c, trade)
    BY DEF c
  <2> QED BY <1>1, <1>2, <2>1, ClusterParts
<1>4. SUFFICES ASSUME NEW side \in Aggressors, Sided(g, n, n, side)
               PROVE  Leads(d, side) /\ d.side = side /\ OneWay(d, g, n, n, side)
  BY DEF Steady
<1>5. trade.aggressor = side /\ n \in n..n
  BY <1>4 DEF Sided
<1>6. Leads(d, side) /\ d.side = side
  <2> DEFINE q == trade.qty
  <2>1. q \in Nat /\ q > 0
    BY <1>1
  <2>2. CASE side = "Buy"
    <3>1. Bought(trade) = q /\ Sold(trade) = 0
      BY <1>5, <2>2 DEF Bought, Sold
    <3> HIDE DEF q
    <3> QED BY <1>3, <2>1, <2>2, <3>1 DEF Leads
  <2>3. CASE side = "Sell"
    <3>1. Bought(trade) = 0 /\ Sold(trade) = q
      BY <1>5, <2>3 DEF Bought, Sold
    <3> HIDE DEF q
    <3> QED BY <1>3, <2>1, <2>3, <3>1 DEF Leads
  <2> QED BY <2>2, <2>3 DEF Aggressors
<1>7. OneWay(d, g, n, n, side)
  <2>1. Goes(g, n, n, side)
    BY DEF Goes
  <2>2. PricesIn(g, n, n) = {trade.price}
    BY DEF PricesIn
  <2>3. Cardinality({trade.price}) = 1
    BY FS_Singleton
  <2> QED BY <1>3, <2>1, <2>2, <2>3 DEF OneWay
<1> QED BY <1>6, <1>7

\* One more price, beyond those of the stretch, is one that was not there.
LEMMA LevelsGrow ==
  ASSUME NEW h \in Seq(Trades), NEW trade \in Trades, NEW g, Grown(g, h, trade),
         NEW from \in 1..Len(h), NEW levels \in Nat, NEW last \in Nat,
         levels <= Cardinality(PricesIn(h, from, Len(h))),
         trade.price # last => trade.price \notin PricesIn(h, from, Len(h))
  PROVE  (IF trade.price # last THEN levels + 1 ELSE levels)
           <= Cardinality(PricesIn(g, from, Len(g)))
<1> DEFINE P == PricesIn(h, from, Len(h))
           Q == PricesIn(g, from, Len(g))
           p == trade.price
           n == Len(g)
<1>1. /\ g \in Seq(Trades) /\ Len(g) = Len(h) + 1 /\ Len(h) \in Nat
      /\ DOMAIN h = 1..Len(h) /\ DOMAIN g = DOMAIN h \cup {Len(g)}
      /\ Len(g) \notin DOMAIN h /\ g[Len(g)] = trade
      /\ \A i \in DOMAIN h : g[i] = h[i]
      /\ \A i \in DOMAIN h : h[i] \in Trades
  BY TapeGrows
<1>2. IsFiniteSet(P) /\ Cardinality(P) \in Nat /\ IsFiniteSet(Q) /\ Cardinality(Q) \in Nat
  <2>1. from \in Int /\ Len(h) \in Int /\ Len(g) \in Int
    BY <1>1
  <2> QED BY <2>1, PricesOfStretch
<1>3. P \subseteq Q /\ p \in Q
  <2>1. \A i \in from..Len(h) : i \in from..n /\ g[i].price = h[i].price
    BY <1>1
  <2>2. n \in from..n /\ g[n].price = p
    BY <1>1
  <2> HIDE DEF n
  <2> QED BY <2>1, <2>2 DEF PricesIn, n
<1> DEFINE a == Cardinality(P)
           b == Cardinality(Q)
<1>4. a <= b
  <2> HIDE DEF P, Q
  <2> QED BY <1>2, <1>3, FS_Subset
<1>5. CASE p = last
  <2>1. levels <= a
    OBVIOUS
  <2> HIDE DEF a, b
  <2> QED BY <1>2, <1>4, <1>5, <2>1 DEF a, b, p
<1>6. CASE p # last
  <2> DEFINE R == P \cup {p}
  <2>1. p \notin P /\ levels <= a
    BY <1>6
  <2> HIDE DEF P, Q, p
  <2>2. IsFiniteSet(R) /\ Cardinality(R) = Cardinality(P) + 1
    BY <1>2, <2>1, FS_AddElement
  <2>3. R \subseteq Q
    BY <1>3
  <2> HIDE DEF R
  <2>4. Cardinality(R) <= Cardinality(Q)
    BY <1>2, <2>3, FS_Subset
  <2>5. a + 1 <= b /\ a \in Nat /\ b \in Nat
    BY <1>2, <2>2, <2>4
  <2> HIDE DEF a, b
  <2>6. levels + 1 <= b
    BY <2>1, <2>5
  <2> QED BY <1>6, <2>6 DEF b, p, Q
<1> QED BY <1>5, <1>6

\* The cluster that a trade joins.
LEMMA SteadyMore ==
  ASSUME NEW h \in Seq(Trades), NEW trade \in Trades, NEW g, Grown(g, h, trade), trade.qty > 0,
         NEW c \in TradeClusters, NEW from \in 1..Len(h), Tells(c, h, from, Len(h)),
         Steady(c, h, from, Len(h)), NEW d, d = ClusterWithTrade(c, trade)
  PROVE  Steady(d, g, from, Len(g))
<1>1. /\ Len(g) = Len(h) + 1 /\ Len(h) \in Nat
      /\ \A i \in 1..Len(h) : g[i] = h[i] /\ h[i] \in Trades
      /\ g[Len(g)] = trade
  <2>1. /\ g \in Seq(Trades) /\ Len(g) = Len(h) + 1 /\ Len(h) \in Nat
        /\ DOMAIN h = 1..Len(h) /\ DOMAIN g = DOMAIN h \cup {Len(g)}
        /\ Len(g) \notin DOMAIN h /\ g[Len(g)] = trade
        /\ \A i \in DOMAIN h : g[i] = h[i]
        /\ \A i \in DOMAIN h : h[i] \in Trades
    BY TapeGrows
  <2> QED BY <2>1
<1> DEFINE m == Len(h)
           n == Len(g)
           price == trade.price
           qty == trade.qty
<1>2. /\ from \in Nat /\ from >= 1 /\ from <= m /\ m \in Nat /\ n = m + 1
      /\ price \in Nat /\ qty \in Nat /\ qty > 0
  <2>1. \A t \in Trades : t.price \in Nat /\ t.qty \in Nat
    BY Constants DEF Trades
  <2>2. from \in Nat /\ from >= 1 /\ from <= m /\ m \in Nat /\ n = m + 1
    BY <1>1
  <2> QED BY <2>1, <2>2
<1>3. /\ d.last = price /\ d.buy = c.buy + Bought(trade) /\ d.sell = c.sell + Sold(trade)
      /\ d.high = IF price > c.high THEN price ELSE c.high
      /\ d.low = IF price < c.low THEN price ELSE c.low
      /\ d.levels = IF price # c.last THEN c.levels + 1 ELSE c.levels
      /\ d.monotonic = (c.monotonic /\ GoesWith(c.side, price, c.last))
      /\ d.side = IF d.buy >= d.sell THEN "Buy" ELSE "Sell"
  BY ClusterParts
<1>4. /\ c.high \in Nat /\ c.low \in Nat /\ c.last \in Nat /\ c.buy \in Nat /\ c.sell \in Nat
      /\ c.levels \in Nat /\ c.monotonic \in BOOLEAN
  BY Constants DEF TradeClusters
<1>5. /\ c.last = h[m].price /\ \A i \in from..m : c.low <= h[i].price /\ h[i].price <= c.high
  BY DEF Tells, Bounds
<1>6. SUFFICES ASSUME NEW side \in Aggressors, Sided(g, from, n, side)
               PROVE  Leads(d, side) /\ d.side = side
                      /\ (d.monotonic => OneWay(d, g, from, n, side))
  BY DEF Steady
<1> HIDE DEF m, n, price, qty
<1>7. \A i \in from..m : i \in from..n /\ i \in 1..m
  BY <1>2
<1>8. trade.aggressor = side /\ Sided(h, from, m, side)
  <2>1. n \in from..n
    BY <1>2
  <2> QED BY <1>1, <1>6, <1>7, <2>1 DEF Sided, m, n
<1>9. Leads(c, side) /\ c.side = side /\ (c.monotonic => OneWay(c, h, from, m, side))
  BY <1>8 DEF Steady, m
<1>10. Leads(d, side) /\ d.side = side
  <2> DEFINE b == c.buy
             s == c.sell
  <2>1. b \in Nat /\ s \in Nat
    BY <1>4
  <2>2. CASE side = "Buy"
    <3>1. Bought(trade) = qty /\ Sold(trade) = 0
      BY <1>8, <2>2 DEF Bought, Sold, qty
    <3>2. d.buy = b + qty /\ d.sell = s + 0 /\ b > 0 /\ s = 0
      BY <1>3, <1>9, <2>2, <3>1 DEF Leads
    <3> HIDE DEF b, s
    <3>3. d.buy > 0 /\ d.sell = 0 /\ d.buy >= d.sell
      BY <1>2, <2>1, <3>2
    <3> QED BY <1>3, <2>2, <3>3 DEF Leads
  <2>3. CASE side = "Sell"
    <3>1. Bought(trade) = 0 /\ Sold(trade) = qty
      BY <1>8, <2>3 DEF Bought, Sold, qty
    <3>2. d.buy = b + 0 /\ d.sell = s + qty /\ b = 0 /\ s > 0
      BY <1>3, <1>9, <2>3, <3>1 DEF Leads
    <3> HIDE DEF b, s
    <3>3. d.sell > 0 /\ d.buy = 0 /\ ~(d.buy >= d.sell)
      BY <1>2, <2>1, <3>2
    <3> QED BY <1>3, <2>3, <3>3 DEF Leads
  <2> QED BY <2>2, <2>3 DEF Aggressors
<1>11. ASSUME d.monotonic
       PROVE  OneWay(d, g, from, n, side)
  <2>1. OneWay(c, h, from, m, side) /\ GoesWith(side, price, c.last)
    BY <1>3, <1>9, <1>11
  <2> DEFINE last == c.last
             high == c.high
             low == c.low
             levels == c.levels
  <2>2. Goes(g, from, n, side)
    <3>1. SUFFICES ASSUME NEW i \in from .. n - 1
                   PROVE  GoesWith(side, g[i + 1].price, g[i].price)
      BY DEF Goes
    <3>2. CASE i = m
      <4>1. g[i + 1].price = price /\ g[i].price = last
        <5>1. g[n] = trade /\ n = i + 1 /\ m \in 1..m
          BY <1>1, <1>2, <3>2 DEF n
        <5>2. g[m] = h[m]
          BY <1>1, <5>1 DEF m
        <5> QED BY <1>5, <3>2, <5>1, <5>2 DEF price
      <4> QED BY <2>1, <4>1
    <3>3. CASE i # m
      <4>1. i \in from .. m - 1 /\ i \in 1..m /\ i + 1 \in 1..m
        BY <1>2, <3>3
      <4>2. g[i + 1] = h[i + 1] /\ g[i] = h[i]
        BY <1>1, <4>1 DEF m
      <4>3. GoesWith(side, h[i + 1].price, h[i].price)
        BY <2>1, <4>1 DEF OneWay, Goes
      <4> QED BY <4>2, <4>3
    <3> QED BY <3>2, <3>3
  <2>3. /\ last \in Nat /\ high \in Nat /\ low \in Nat /\ levels \in Nat
        /\ d.high = IF price > high THEN price ELSE high
        /\ d.low = IF price < low THEN price ELSE low
        /\ d.levels = IF price # last THEN levels + 1 ELSE levels
        /\ last = IF side = "Buy" THEN high ELSE low
        /\ GoesWith(side, price, last)
        /\ levels <= Cardinality(PricesIn(h, from, m))
    BY <1>3, <1>4, <2>1 DEF OneWay
  <2>4. /\ last \in Nat /\ \A i \in from..m : low <= h[i].price /\ h[i].price <= high /\ h[i].price \in Nat
    <3>1. \A i \in from..m : h[i].price \in Nat
      BY <1>1, <1>7, Constants DEF Trades, m
    <3> QED BY <1>4, <1>5, <3>1
  <2> HIDE DEF last, high, low, levels
  <2>5. d.last = IF side = "Buy" THEN d.high ELSE d.low
    <3>1. CASE side = "Buy"
      <4>1. price >= high
        BY <2>3, <3>1 DEF GoesWith
      <4>2. d.high = price
        BY <1>2, <2>3, <4>1
      <4> QED BY <1>3, <3>1, <4>2
    <3>2. CASE side = "Sell"
      <4>1. price <= low
        BY <2>3, <3>2 DEF GoesWith
      <4>2. d.low = price
        BY <1>2, <2>3, <4>1
      <4> QED BY <1>3, <3>2, <4>2
    <3> QED BY <3>1, <3>2 DEF Aggressors
  <2>6. price # last => price \notin PricesIn(h, from, m)
    <3>1. SUFFICES ASSUME price # last, NEW i \in from..m, price = h[i].price
                   PROVE  FALSE
      BY DEF PricesIn
    <3> DEFINE x == h[i].price
    <3>2. low <= x /\ x <= high /\ x \in Nat /\ price = x
      BY <2>4, <3>1
    <3> HIDE DEF x
    <3>3. CASE side = "Buy"
      <4>1. price >= last /\ last = high
        BY <2>3, <3>3 DEF GoesWith
      <4> QED BY <1>2, <2>3, <3>1, <3>2, <4>1
    <3>4. CASE side = "Sell"
      <4>1. price <= last /\ last = low
        BY <2>3, <3>4 DEF GoesWith
      <4> QED BY <1>2, <2>3, <3>1, <3>2, <4>1
    <3> QED BY <3>3, <3>4 DEF Aggressors
  <2>7. (IF price # last THEN levels + 1 ELSE levels) <= Cardinality(PricesIn(g, from, n))
    <3>1. levels <= Cardinality(PricesIn(h, from, Len(h)))
      BY <2>3 DEF m
    <3>2. trade.price # last => trade.price \notin PricesIn(h, from, Len(h))
      BY <2>6 DEF m, price
    <3>3. levels \in Nat /\ last \in Nat
      BY <2>3
    <3>4. (IF trade.price # last THEN levels + 1 ELSE levels)
            <= Cardinality(PricesIn(g, from, Len(g)))
      BY <3>1, <3>2, <3>3, LevelsGrow
    <3> QED BY <3>4 DEF n, price
  <2> QED BY <1>3, <2>2, <2>3, <2>5, <2>7 DEF OneWay
<1> QED BY <1>10, <1>11 DEF n

\* The open cluster knows the sides and the prices of its stretch.
Swept(t, h) == t.open # None => Steady(t.open, h, Len(h) - t.open.count + 1, Len(h))

\* A trade, in whichever cluster.
LEMMA TradeSweeps ==
  ASSUME NEW h \in Seq(Trades), NEW trade \in Trades, NEW g, Grown(g, h, trade), trade.qty > 0,
         NEW s \in ClusterTrackers, SplitsTape(s, h), Swept(s, h), NEW t, t = ClusterTrade(s, trade)
  PROVE  Swept(t, g)
<1>1. s.open \in TradeClusters \cup {None} /\ s.closed \in Seq(TradeClusters)
      /\ s = [open |-> s.open, closed |-> s.closed]
  BY DEF ClusterTrackers
<1>2. Len(g) = Len(h) + 1 /\ Len(h) \in Nat /\ Len(g) \in Nat /\ g[Len(g)] = trade
  <2>1. /\ g \in Seq(Trades) /\ Len(g) = Len(h) + 1 /\ Len(h) \in Nat
        /\ DOMAIN h = 1..Len(h) /\ DOMAIN g = DOMAIN h \cup {Len(g)}
        /\ Len(g) \notin DOMAIN h /\ g[Len(g)] = trade
        /\ \A i \in DOMAIN h : g[i] = h[i]
        /\ \A i \in DOMAIN h : h[i] \in Trades
    BY TapeGrows
  <2> QED BY <2>1
<1> DEFINE fresh == ClusterWithTrade(NewCluster(trade), trade)
           grown == ClusterWithTrade(s.open, trade)
<1>3. ASSUME t.open = fresh
      PROVE  Swept(t, g)
  <2>1. NewCluster(trade) \in TradeClusters /\ NewCluster(trade).count = 0
    BY DEF NewCluster, TradeClusters, Trades
  <2>2. fresh.count = NewCluster(trade).count + 1
    BY <2>1, ClusterParts
  <2>3. Len(g) - fresh.count + 1 = Len(g)
    BY <1>2, <2>1, <2>2
  <2>4. Steady(fresh, g, Len(g), Len(g))
    BY <1>2, SteadyFirst
  <2> HIDE DEF fresh
  <2> QED BY <1>3, <2>3, <2>4 DEF Swept
<1>4. CASE ClosedBy(s, trade) # None
  <2>1. t = [open |-> fresh, closed |-> Append(s.closed, s.open)]
    BY <1>4 DEF ClusterTrade
  <2> QED BY <1>3, <2>1
<1>5. CASE ~(ClosedBy(s, trade) # None) /\ s.open = None
  <2>1. t = [s EXCEPT !.open = fresh]
    BY <1>5 DEF ClusterTrade
  <2> HIDE DEF fresh
  <2>2. t.open = fresh
    BY <1>1, <2>1
  <2> QED BY <1>3, <2>2
<1>6. CASE ~(ClosedBy(s, trade) # None) /\ s.open # None
  <2>1. t = [s EXCEPT !.open = grown]
    BY <1>6 DEF ClusterTrade
  <2> HIDE DEF grown
  <2>2. t.open = grown
    BY <1>1, <2>1
  <2> DEFINE c == s.open
             m == c.count
             from == Len(h) - m + 1
  <2>3. c \in TradeClusters
    BY <1>1, <1>6
  <2>4. m \in Nat /\ from \in 1..Len(h) /\ Tells(c, h, from, Len(h))
    BY <1>1, <2>3, OpenStretch
  <2>5. Steady(c, h, from, Len(h))
    BY <1>6 DEF Swept
  <2>6. grown.count = m + 1
    BY <2>3, ClusterParts DEF grown
  <2>7. Len(g) - (m + 1) + 1 = from
    <3> HIDE DEF m
    <3> QED BY <1>2, <2>4
  <2>8. grown = ClusterWithTrade(c, trade)
    BY DEF grown
  <2> HIDE DEF from, c
  <2>9. Steady(grown, g, from, Len(g))
    BY <2>3, <2>4, <2>5, <2>8, SteadyMore
  <2> QED BY <2>2, <2>6, <2>7, <2>9 DEF Swept
<1> QED BY <1>4, <1>5, <1>6

\* What a real trade is (normalizer.rs, is_marker_event).
PositiveTrades == \A s \in Scenarios : \A t \in s.trades : t.qty > 0

\* Then the tape has no others.
LEMMA TapePositive ==
  ASSUME PositiveTrades, Typed, Positive(tape), [Next]_vars
  PROVE  Positive(tape')
<1>1. CASE OnTrade
  <2>1. PICK t \in scenario.trades :
          tape' = Append(tape, [ts |-> Moved(clocks.trades, t.step), price |-> t.price,
                                qty |-> t.qty, aggressor |-> t.aggressor])
    BY <1>1 DEF OnTrade
  <2> DEFINE trade == [ts |-> Moved(clocks.trades, t.step), price |-> t.price,
                       qty |-> t.qty, aggressor |-> t.aggressor]
             h == tape'
  <2>2. scenario \in Scenarios /\ tape \in Seq(Trades) /\ clocks \in [trades : Nat, depth : Nat]
    BY DEF Typed
  <2>3. trade.qty > 0
    BY <2>2 DEF PositiveTrades
  <2>4. trade \in Trades
    <3>1. t.step \in Steps /\ t.price \in Prices /\ t.qty \in Nat /\ t.aggressor \in Aggressors
      BY ScenarioTypes
    <3>2. Moved(clocks.trades, t.step) \in Nat
      BY <2>2, <3>1, TimeTypes
    <3> QED BY <3>1, <3>2 DEF Trades
  <2>5. Grown(h, tape, trade)
    BY <2>1 DEF Grown
  <2> HIDE DEF h, trade
  <2>6. /\ h \in Seq(Trades) /\ Len(h) = Len(tape) + 1 /\ Len(tape) \in Nat
        /\ DOMAIN tape = 1..Len(tape) /\ DOMAIN h = DOMAIN tape \cup {Len(h)}
        /\ Len(h) \notin DOMAIN tape /\ h[Len(h)] = trade
        /\ \A i \in DOMAIN tape : h[i] = tape[i]
        /\ \A i \in DOMAIN tape : tape[i] \in Trades
    BY <2>2, <2>4, <2>5, TapeGrows
  <2>7. \A i \in DOMAIN h : h[i].qty > 0
    BY <2>3, <2>6 DEF Positive
  <2> QED BY <2>7 DEF Positive, h
<1>2. CASE ~OnTrade
  <2>1. CASE OnUpdate
    BY <2>1 DEF OnUpdate, Positive
  <2>2. CASE ~OnUpdate
    <3>1. tape' = tape
      BY <1>2, <2>2 DEF Next, OnSnapshot, OnSynchronized, OnResyncStarted, OnConnectionLost,
         SendFrame, Finish, vars, history
    <3> QED BY <3>1 DEF Positive
  <2> QED BY <2>1, <2>2
<1> QED BY <1>1, <1>2

\* Every step keeps what the open cluster knows.
LEMMA NextSweeps ==
  ASSUME PositiveTrades, Typed, Timely, SplitsTape(clusters, tape), Positive(tape),
         Swept(clusters, tape), [Next]_vars
  PROVE  Positive(tape') /\ Swept(clusters', tape')
<1>1. clusters \in ClusterTrackers /\ tape \in Seq(Trades) /\ EventTime \in Nat
  BY TimeTypes DEF Typed
<1>2. Positive(tape')
  BY TapePositive
<1>3. ASSUME NEW t \in ClusterTrackers, NEW now \in Nat, clusters' = PruneClusters(t, now),
             NEW h, Swept(t, h)
      PROVE  Swept(clusters', h)
  <2>1. clusters'.open = t.open
    BY <1>3, PruneClustersIs
  <2> QED BY <1>3, <2>1 DEF Swept
<1>4. CASE \E trade \in Trades : /\ ProcessTrade(trade) /\ Grown(tape', tape, trade)
                                 /\ latest' = Later(trade.ts) /\ changes' = changes
  <2>1. PICK trade \in Trades : ProcessTrade(trade) /\ Grown(tape', tape, trade)
    BY <1>4
  <2> DEFINE t == ClusterTrade(clusters, trade)
             h == tape'
  <2>2. clusters' = PruneClusters(t, trade.ts) /\ trade.ts \in Nat
    BY <2>1 DEF ProcessTrade, Trades
  <2>3. t = ClusterTrade(clusters, trade) /\ Grown(h, tape, trade) /\ Positive(h)
    BY <1>2, <2>1
  <2> HIDE DEF t, h
  <2>4. /\ h \in Seq(Trades) /\ Len(h) = Len(tape) + 1 /\ Len(tape) \in Nat
        /\ DOMAIN tape = 1..Len(tape) /\ DOMAIN h = DOMAIN tape \cup {Len(h)}
        /\ Len(h) \notin DOMAIN tape /\ h[Len(h)] = trade
        /\ \A i \in DOMAIN tape : h[i] = tape[i]
        /\ \A i \in DOMAIN tape : tape[i] \in Trades
    BY <1>1, <2>3, TapeGrows
  <2>5. trade.qty > 0
    BY <2>3, <2>4 DEF Positive
  <2>6. t \in ClusterTrackers
    BY <1>1, <2>3, ClusterTradeType
  <2>7. Swept(t, h)
    BY <1>1, <2>3, <2>5, TradeSweeps
  <2>8. Swept(clusters', h)
    BY <1>3, <2>2, <2>6, <2>7
  <2> QED BY <1>2, <2>8 DEF h
<1>5. CASE \E writes \in Seq(Writes), ts \in Nat :
             /\ ProcessUpdate(writes, ts) /\ changes' = changes \o UpdateList(writes, ts)
             /\ latest' = Later(ts) /\ tape' = tape
  <2>1. PICK writes \in Seq(Writes), ts \in Nat : ProcessUpdate(writes, ts) /\ tape' = tape
    BY <1>5
  <2>2. clusters' = PruneClusters(clusters, ts)
    BY <2>1, ProcessUpdateIs
  <2> QED BY <1>1, <1>2, <1>3, <2>1, <2>2
<1>6. CASE Quiet
  <2>1. tape' = tape /\ clusters' \in {clusters, PruneClusters(clusters, EventTime)}
    BY <1>6, QuietIs
  <2>2. CASE clusters' = clusters
    BY <1>2, <2>1, <2>2
  <2>3. CASE clusters' = PruneClusters(clusters, EventTime)
    BY <1>1, <1>2, <1>3, <2>1, <2>3
  <2> QED BY <2>1, <2>2, <2>3
<1> QED BY <1>4, <1>5, <1>6, NextIs

\* A cluster of one side that is a sweep sweeps the stretch it tells of.
LEMMA SweepSweeps ==
  ASSUME NEW c \in TradeClusters, NEW from \in Nat, NEW to \in Nat, from <= to,
         \A i \in from..to : tape[i] \in Trades,
         Tells(c, tape, from, to), Steady(c, tape, from, to), IsSweep(c),
         Cardinality({tape[i].aggressor : i \in from..to}) = 1
  PROVE  Sweeps(from, to)
<1> DEFINE A == {tape[i].aggressor : i \in from..to}
<1>1. PICK side : A = {side}
  <2>1. IsFiniteSet(A)
    <3>1. from \in Int /\ to \in Int
      OBVIOUS
    <3> QED BY <3>1, PricesOfStretch
  <2>2. Cardinality(A) = 1
    OBVIOUS
  <2> HIDE DEF A
  <2> QED BY <2>1, <2>2, FS_Singleton
<1>2. Sided(tape, from, to, side)
  BY <1>1 DEF Sided
<1>3. side \in Aggressors
  <2>1. from \in from..to
    OBVIOUS
  <2> QED BY <1>2, <2>1 DEF Sided, Trades
<1>4. c.monotonic /\ c.levels >= SweepLevels /\ c.buy + c.sell >= SweepVolume
      /\ SatSub(c.end, c.start) <= SweepMs
  BY DEF IsSweep, Total
<1>5. OneWay(c, tape, from, to, side)
  BY <1>2, <1>3, <1>4 DEF Steady
<1>6. Cardinality({tape[i].price : i \in from..to}) >= SweepLevels
  <2> DEFINE k == Cardinality(PricesIn(tape, from, to))
             levels == c.levels
  <2>1. k \in Nat /\ levels \in Nat /\ SweepLevels \in Nat
    <3>1. from \in Int /\ to \in Int
      OBVIOUS
    <3>2. k \in Nat
      BY <3>1, PricesOfStretch
    <3>3. levels \in Nat /\ SweepLevels \in Nat
      BY AnalyticsAssumption DEF TradeClusters
    <3> QED BY <3>2, <3>3
  <2>2. levels <= k /\ levels >= SweepLevels
    BY <1>4, <1>5 DEF OneWay
  <2>3. k >= SweepLevels
    <3> HIDE DEF k, levels
    <3> QED BY <2>1, <2>2
  <2> QED BY <2>3 DEF PricesIn
<1>7. \A i \in from .. to - 1 : GoesWith(tape[i].aggressor, tape[i + 1].price, tape[i].price)
  <2>1. \A i \in from .. to - 1 : i \in from..to
    OBVIOUS
  <2> QED BY <1>2, <1>5, <2>1 DEF Sided, OneWay, Goes
<1>8. VolumeAt(from..to).buy = c.buy /\ VolumeAt(from..to).sell = c.sell
  BY DEF Tells, VolumeAt, SumOver, BoughtAt, SoldAt
<1>9. c.end = tape[to].ts /\ c.start = tape[from].ts
  BY DEF Tells
<1> QED BY <1>4, <1>6, <1>7, <1>8, <1>9 DEF Sweeps

\* A step that reports a sweep reports one of the stretch of the open cluster.
LEMMA ReportedSweeps ==
  ASSUME Typed, Timely, SplitsTape(clusters, tape), Swept(clusters, tape), [Next]_vars,
         detected'.sweeps > detected.sweeps,
         NEW from, from = Len(tape) - clusters.open.count + 1,
         Cardinality({tape[i].aggressor : i \in from..Len(tape)}) = 1
  PROVE  Sweeps(from, Len(tape))
<1> DEFINE n == detected.sweeps
           c == clusters.open
<1>1. /\ n \in Nat /\ tape \in Seq(Trades) /\ c \in TradeClusters \cup {None}
      /\ clusters.closed \in Seq(TradeClusters)
  BY DEF Typed, ClusterTrackers
<1>2. detected' # detected
  <2> HIDE DEF n
  <2>1. ~(n > n)
    BY <1>1
  <2> QED BY <2>1 DEF n
<1>3. PICK trade \in Trades : ProcessTrade(trade)
  BY <1>2, NextIs, QuietIs, ProcessUpdateIs
<1>4. Sweep(trade) # None
  <2> SUFFICES ASSUME Sweep(trade) = None PROVE FALSE
    OBVIOUS
  <2>1. detected'.sweeps = n + OneIf(FALSE)
    BY <1>3 DEF ProcessTrade
  <2>2. detected'.sweeps = n
    <3> HIDE DEF n
    <3> QED BY <1>1, <2>1 DEF OneIf
  <2> HIDE DEF n
  <2>3. ~(n > n)
    BY <1>1
  <2> QED BY <2>2, <2>3 DEF n
<1>5. c # None /\ IsSweep(c)
  BY <1>4 DEF Sweep, ClosedBy
<1>6. c \in TradeClusters
  BY <1>1, <1>5
<1>7. from \in 1..Len(tape) /\ Tells(c, tape, from, Len(tape))
  BY <1>1, <1>6, OpenStretch
<1>8. Steady(c, tape, from, Len(tape))
  BY <1>5 DEF Swept
<1>9. /\ from \in Nat /\ Len(tape) \in Nat /\ from <= Len(tape)
      /\ \A i \in from..Len(tape) : tape[i] \in Trades
  <2>1. Len(tape) \in Nat /\ \A i \in 1..Len(tape) : tape[i] \in Trades
    BY <1>1, LenProperties, ElementOfSeq
  <2> QED BY <1>7, <2>1
<1> HIDE DEF c
<1> QED BY <1>5, <1>6, <1>7, <1>8, <1>9, SweepSweeps

\* A sweep that is reported of trades of one side went through that many distinct prices, in that
\* direction, in that time (sweeps.rs, on_cluster). Real trades have a quantity; an open cluster that
\* held only sales of nothing would be of purchases, and the code would ask the next price to rise.
THEOREM SweepsHappened ==
  ASSUME PositiveTrades
  PROVE  Spec => SweepsAreReal
<1> DEFINE A == Typed /\ Timely /\ SplitsTape(clusters, tape) /\ Positive(tape) /\ Swept(clusters, tape)
<1>1. Init => A
  <2> SUFFICES ASSUME Init PROVE Positive(tape) /\ Swept(clusters, tape)
    BY InitTyped, NextTimely, InitSplits
  <2>1. clusters.open = None /\ tape = <<>>
    BY DEF Init, NewClusters
  <2> QED BY <2>1 DEF Positive, Swept
<1>2. A /\ [Next]_vars => A'
  BY NextTyped, NextTimely, NextSplits, NextSweeps
<1>3. A /\ [Next]_vars =>
        [detected'.sweeps > detected.sweeps =>
           LET from == Len(tape) - clusters.open.count + 1
               to == Len(tape)
           IN  Cardinality({tape[i].aggressor : i \in from..to}) = 1 => Sweeps(from, to)]_vars
  BY ReportedSweeps
<1> HIDE DEF A
<1> QED BY <1>1, <1>2, <1>3, PTL DEF Spec, SweepsAreReal
=============================================================================
