----------------------------- MODULE Liquidity ------------------------------
(***************************************************************************)
(* Liquidity added and removed, the life of each level, and replenishment: *)
(* an increase soon after a decrease of the same level.                    *)
(* analytics/liquidity.rs.                                                 *)
(***************************************************************************)
EXTENDS AnalyticsBook

Persistences == [created : Nat, seen : Nat, peak : Nat, current : Nat]

\* levels and the recent decreases (their times, oldest first) are maps: a level that is not
\* tracked has no persistence, and a level with no decreases an empty list.
LiquidityTrackers ==
  [added : Nat, removed : Nat, levels : [Keys -> Persistences \cup {None}],
   decreases : [Keys -> Seq(Nat)], replenished : Nat]

NewLiquidity ==
  [added |-> 0, removed |-> 0, levels |-> [k \in Keys |-> None],
   decreases |-> [k \in Keys |-> <<>>], replenished |-> 0]

ResetInterval(tracker) == [tracker EXCEPT !.added = 0, !.removed = 0]

\* Mutant: the tracked levels outlive the book they belong to.
ClearsOnlyCounters(tracker) == ResetInterval(tracker)

\* clear: the session's number of replenishments stays.
Clear(tracker) == [NewLiquidity EXCEPT !.replenished = tracker.replenished]

KeyOf(change) == <<change.side, change.price>>

\* classify: a change to less that leaves something is a decrease; to nothing, a removal.
IsDecrease(change) == 0 < change.new /\ change.new < change.old
IsIncrease(change) == change.new > change.old

\* The decreases that an increase at ts can replenish; the oldest one is taken.
Replenishable(tracker, change, ts) ==
  {i \in DOMAIN tracker.decreases[KeyOf(change)] :
     ts <= tracker.decreases[KeyOf(change)][i] + ReplenishmentMs}

Replenishes(tracker, change, ts) ==
  IsIncrease(change) /\ Replenishable(tracker, change, ts) # {}

Seen(level, qty, ts) ==
  IF level = None THEN [created |-> ts, seen |-> ts, peak |-> qty, current |-> qty]
  ELSE [level EXCEPT !.seen = ts, !.current = qty, !.peak = IF qty > @ THEN qty ELSE @]

\* Mutant: the decrease that was replenished stays.
LiquidityChangeKeeps(tracker, change, ts) ==
  LET key == KeyOf(change)
  IN  IF change.old = change.new THEN tracker
      ELSE [tracker EXCEPT
              !.added = @ + SatSub(change.new, change.old),
              !.removed = @ + SatSub(change.old, change.new),
              !.decreases[key] = IF IsDecrease(change) THEN Append(@, ts) ELSE @,
              !.replenished = IF Replenishes(tracker, change, ts) THEN @ + 1 ELSE @,
              !.levels[key] = Seen(@, change.new, ts)]

\* on_level_change: 0 to 0, the removal of a level that is not there, returns at once.
LiquidityChange(tracker, change, ts) ==
  LET key == KeyOf(change)
  IN  IF change.old = change.new THEN tracker
      ELSE [tracker EXCEPT
              !.added = @ + SatSub(change.new, change.old),
              !.removed = @ + SatSub(change.old, change.new),
              !.decreases[key] =
                 CASE IsDecrease(change) -> Append(@, ts)
                   [] Replenishes(tracker, change, ts) ->
                        RemoveAt(@, Min(Replenishable(tracker, change, ts)))
                   [] OTHER -> @,
              !.replenished = IF Replenishes(tracker, change, ts) THEN @ + 1 ELSE @,
              !.levels[key] = Seen(@, change.new, ts)]

\* Levels gone for longer than the retention leave with their decreases; the other decreases
\* leave at the front once their window is over.
PruneLiquidity(tracker, now) ==
  LET gone == {k \in Keys : /\ tracker.levels[k] # None
                            /\ tracker.levels[k].seen < Cutoff(now)
                            /\ tracker.levels[k].current = 0}
  IN  [tracker EXCEPT
         !.levels = [k \in Keys |-> IF k \in gone THEN None ELSE @[k]],
         !.decreases = [k \in Keys |->
            IF k \in gone THEN <<>>
            ELSE WithoutOldFront(@[k], LAMBDA ts : ts + ReplenishmentMs < now)]]
=============================================================================
