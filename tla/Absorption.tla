----------------------------- MODULE Absorption -----------------------------
(***************************************************************************)
(* Absorption candidates, analytics/absorption.rs: at each traded price a  *)
(* window collects the trades there; the first trade after its time closes *)
(* it and evaluates it.                                                    *)
(***************************************************************************)
EXTENDS Analytics

AbsorptionWindows ==
  [side : Aggressors, opened : Nat, closed : Nat, reference : Prices, trades : Nat,
   volume : Nat, displacement : Nat, opposingOpen : Nat, opposingClose : Nat,
   replenished : Nat]

Detectors == [windows : [Prices -> AbsorptionWindows \cup {None}], count : Nat]
NewDetector == [windows |-> [p \in Prices |-> None], count |-> 0]

OpenWindow(trade, best, opposing) ==
  [side |-> trade.aggressor, opened |-> trade.ts, closed |-> trade.ts, reference |-> best,
   trades |-> 1, volume |-> trade.qty, displacement |-> 0, opposingOpen |-> opposing,
   opposingClose |-> opposing, replenished |-> 0]

Displacement(w, trade, best) ==
  IF trade.aggressor = "Buy" THEN SatSub(best, w.reference) ELSE SatSub(w.reference, best)

WindowWithTrade(w, trade, best) ==
  LET d == Displacement(w, trade, best)
  IN  [w EXCEPT !.trades = @ + 1, !.volume = @ + trade.qty, !.closed = trade.ts,
                !.displacement = IF d > @ THEN d ELSE @]

\* Whether the trade comes after the window at its price, and so closes it.
Expires(detector, trade) ==
  /\ detector.windows[trade.price] # None
  /\ SatSub(trade.ts, detector.windows[trade.price].opened) > AbsorptionMs

\* The score of a window that passes the gates, in percent, is
\*   30 + 35 * (excursion - displacement) / excursion + 20 * replenished / (replenished + volume)
\*      + 15 * (closing opposing liquidity / opening one, at most 1; 1 if there was none).
Confident(w) ==
  LET excursion == AtLeastOne(AbsorptionExcursion)
      moved == w.displacement \div AtLeastOne(TickSize)
      flow == w.replenished + w.volume
      open == AtLeastOne(w.opposingOpen)
      close == IF w.opposingOpen = 0 THEN 1 ELSE Min({w.opposingClose, w.opposingOpen})
  IN  30 * excursion * flow * open + 35 * (excursion - moved) * flow * open
        + 20 * w.replenished * excursion * open + 15 * close * excursion * flow
      >= Threshold * excursion * flow * open

IsAbsorption(w) ==
  /\ w.trades >= AbsorptionTrades
  /\ w.volume >= AbsorptionVolume
  /\ w.displacement \div AtLeastOne(TickSize) <= AtLeastOne(AbsorptionExcursion)
  /\ Confident(w)

\* The window that the trade turns into a candidate, if it does.
Candidate(detector, trade) ==
  IF Expires(detector, trade) /\ IsAbsorption(detector.windows[trade.price])
  THEN detector.windows[trade.price] ELSE None

\* Mutant: a window that was evaluated stays.
AbsorptionTradeKeeps(detector, trade, best, opposing) ==
  LET w == detector.windows[trade.price]
  IN  [windows |->
         CASE Expires(detector, trade) -> detector.windows
           [] w = None ->
                [detector.windows EXCEPT ![trade.price] = OpenWindow(trade, best, opposing)]
           [] OTHER ->
                [detector.windows EXCEPT ![trade.price] = WindowWithTrade(w, trade, best)],
       count |-> detector.count + (IF Candidate(detector, trade) = None THEN 0 ELSE 1)]

\* on_trade: the trade that closes a window opens none and is in none.
AbsorptionTrade(detector, trade, best, opposing) ==
  LET w == detector.windows[trade.price]
  IN  [windows |-> [detector.windows EXCEPT ![trade.price] =
         CASE Expires(detector, trade) -> None
           [] w = None -> OpenWindow(trade, best, opposing)
           [] OTHER -> WindowWithTrade(w, trade, best)],
       count |-> detector.count + (IF Candidate(detector, trade) = None THEN 0 ELSE 1)]

\* A level opposes the windows of an aggressor on the far side of their reference, in time.
Opposes(w, price, ts) ==
  /\ w # None
  /\ IF w.side = "Buy" THEN price > w.reference ELSE price < w.reference
  /\ SatSub(ts, w.opened) <= AbsorptionMs

\* on_liquidity_change, with the level's whole new quantity, when it grew, and then
\* on_opposing_liquidity.
Opposed(w, change) ==
  [w EXCEPT !.replenished = @ + (IF change.new > change.old THEN change.new ELSE 0),
            !.opposingClose = change.new]

\* What the engine does with each change of a level.
AbsorptionChange(detector, change, ts) ==
  [detector EXCEPT !.windows = [p \in Prices |->
     IF Opposes(@[p], change.price, ts) THEN Opposed(@[p], change) ELSE @[p]]]
=============================================================================
