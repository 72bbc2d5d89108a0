--------------------------- MODULE AnalyticsBook ----------------------------
(***************************************************************************)
(* The engine's shadow book with its two sides, analytics/book.rs.  (The   *)
(* module OrderBook has its levels without sides or prices, to compare it  *)
(* with the live book.)  The mid price, imbalance and microprice are       *)
(* quotients of what is here.                                              *)
(***************************************************************************)
EXTENDS Analytics

Keys == Sides \X Prices

\* A quantity of 0: the level is not in the map.  crossed counts crossed books (crossed_count).
Books == [levels : [Keys -> Nat], ready : BOOLEAN, crossed : Nat]

NewBook == [levels |-> [k \in Keys |-> 0], ready |-> FALSE, crossed |-> 0]

Displayed(book, side) == {p \in Prices : book.levels[<<side, p>>] > 0}

BestBid(book) == IF Displayed(book, "Bid") = {} THEN NoPrice ELSE Max(Displayed(book, "Bid"))
BestAsk(book) == IF Displayed(book, "Ask") = {} THEN NoPrice ELSE Min(Displayed(book, "Ask"))

IsCrossed(book) ==
  BestBid(book) # NoPrice /\ BestAsk(book) # NoPrice /\ BestBid(book) >= BestAsk(book)

SpreadTicks(book) ==
  IF BestBid(book) = NoPrice \/ BestAsk(book) = NoPrice \/ IsCrossed(book)
  THEN NoPrice ELSE BestAsk(book) - BestBid(book)

\* The levels of a side that count: the best ImbalanceDepth ones.
TopLevels(book, side) ==
  {p \in Displayed(book, side) :
     Cardinality({q \in Displayed(book, side) : IF side = "Bid" THEN q > p ELSE q < p})
       < ImbalanceDepth}

DepthVolume(book, side) ==
  SumOver(TopLevels(book, side), LAMBDA p : book.levels[<<side, p>>])

\* Levels of the snapshot whose quantity is 0 are dropped.
ApplySnapshot(book, levels) == [book EXCEPT !.levels = levels, !.ready = TRUE]

SetReady(book, ready) ==
  [book EXCEPT !.ready = ready, !.levels = IF ready THEN @ ELSE NewBook.levels]

RecordCrossed(book) == [book EXCEPT !.crossed = @ + 1]

\* One level change on the wire: absolute quantity, 0 removes the level.
Change(book, key, qty) ==
  [side |-> key[1], price |-> key[2], old |-> book.levels[key], new |-> qty]

\* A change that is reported.  Removing a level that is not there is one: None # Some(0).
IsReported(change) == change.old # change.new \/ change.old = 0

\* apply_update: writes is a sequence of [key, qty].  The changes come in its order.
WriteLevel(updated, write) ==
  LET change == Change(updated, write.key, write.qty)
  IN  [levels |-> [updated.levels EXCEPT ![write.key] = write.qty],
       changes |-> IF IsReported(change) THEN Append(updated.changes, change)
                   ELSE updated.changes]

Updated(book, writes) ==
  FoldLeft(WriteLevel, [levels |-> book.levels, changes |-> <<>>], writes)

ApplyUpdate(book, writes) == [book EXCEPT !.levels = Updated(book, writes).levels]
ReportedChanges(book, writes) == Updated(book, writes).changes
=============================================================================
