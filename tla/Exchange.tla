------------------------------ MODULE Exchange ------------------------------
(***************************************************************************)
(* The venue, as the engine sees it (external: modelled from the messages  *)
(* that binance/types.rs parses and from the rules quoted in               *)
(* orderbook/synchronizer.rs).  The venue numbers every change of its book *)
(* with an update id.  BookAt[n] is its book after update n, a quantity for*)
(* every price level with 0 for an absent level.  Touched[n] is the set of *)
(* levels update n writes.                                                 *)
(*                                                                         *)
(* A depth event says that the updates prev + 1 .. final happened, and     *)
(* carries the final quantity of every level they touched.  Its payload is *)
(* a function of its ids, so the record holds only the ids, and `valid',   *)
(* false when a price or quantity string in it does not parse.             *)
(***************************************************************************)
EXTENDS Naturals

CONSTANTS Levels,   \* price levels, of both sides of the book
          MaxId,    \* bound: the last update id of the venue
          BookAt,   \* BookAt[n][l]: the quantity at level l after update n
          Touched   \* Touched[n]: the levels update n writes

Ids == 0..MaxId

\* A level that no update in a + 1 .. b touches has the same quantity after a and after b.
ASSUME ExchangeAssumption ==
  /\ MaxId \in Nat
  /\ BookAt \in [Ids -> [Levels -> Nat]]
  /\ Touched \in [1..MaxId -> SUBSET Levels]
  /\ \A a, b \in Ids : \A l \in Levels :
       (a <= b /\ \A i \in a + 1 .. b : l \notin Touched[i]) => BookAt[a][l] = BookAt[b][l]

DepthUpdates == [first : 1..MaxId, final : 1..MaxId, prev : Ids, valid : BOOLEAN]

DepthUpdate(prev, final, valid) ==
  [first |-> prev + 1, final |-> final, prev |-> prev, valid |-> valid]

\* The levels an event writes, and the quantities it writes there.
Changes(e) ==
  [l \in UNION {Touched[i] : i \in e.prev + 1 .. e.final} |-> BookAt[e.final][l]]

\* Rule 5 of the venue's protocol: event f continues event e without a gap.
Continues(e, f) == f.prev = e.final
=============================================================================
