----------------------------- MODULE OrderBook ------------------------------
(***************************************************************************)
(* orderbook/book.rs: the local book, and analytics/book.rs: the shadow    *)
(* book that the analytics engine maintains with the same rules.  `levels' *)
(* stands for the two BTreeMaps: the quantity of every level, 0 for a level*)
(* that is not in its map.                                                 *)
(***************************************************************************)
EXTENDS Exchange

Quantities == [Levels -> Nat]
EmptyLevels == [l \in Levels |-> 0]

\* Absolute quantities: a level that is written takes its new quantity (0 removes it).
Overwrite(levels, changes) ==
  [l \in Levels |-> IF l \in DOMAIN changes THEN changes[l] ELSE levels[l]]

Books == [levels : Quantities, lastUpdateId : Ids, initialized : BOOLEAN]

NewBook == [levels |-> EmptyLevels, lastUpdateId |-> 0, initialized |-> FALSE]

ApplySnapshot(levels, id) == [levels |-> levels, lastUpdateId |-> id, initialized |-> TRUE]

\* A price or quantity that does not parse leaves apply_snapshot through `?': the maps were
\* cleared, and hold the levels listed before the malformed entry.
FailedSnapshots(book, levels) ==
  {[book EXCEPT !.levels = [l \in Levels |-> IF l \in read THEN levels[l] ELSE 0]] :
     read \in SUBSET Levels}

\* apply_depth_update returns Ok: the book was initialised by a snapshot and all parses.
CanApply(book, e) == book.initialized /\ e.valid

ApplyDepthUpdate(book, e) ==
  [book EXCEPT !.levels = Overwrite(@, Changes(e)), !.lastUpdateId = e.final]

\* apply_depth_update returns Err: an uninitialised book is left alone, and otherwise the
\* levels listed before the malformed entry are already written.
FailedUpdates(book, e) ==
  IF book.initialized
    THEN {[book EXCEPT !.levels = Overwrite(@, [l \in read |-> Changes(e)[l]])] :
            read \in SUBSET DOMAIN Changes(e)}
    ELSE {book}

\* The books that apply_depth_update may leave.
AfterUpdate(book, e) ==
  IF CanApply(book, e) THEN {ApplyDepthUpdate(book, e)} ELSE FailedUpdates(book, e)

SetInitialized(book, b) == [book EXCEPT !.initialized = b]

-----------------------------------------------------------------------------
(* The shadow book of the analytics engine. *)

ShadowBooks == [levels : Quantities, ready : BOOLEAN]

NewShadow == [levels |-> EmptyLevels, ready |-> FALSE]

ShadowSnapshot(levels) == [levels |-> levels, ready |-> TRUE]

ShadowUpdate(shadow, e) == [shadow EXCEPT !.levels = Overwrite(@, Changes(e))]

\* A book that is no longer ready has lost both its maps.
SetReady(shadow, b) == [shadow EXCEPT !.ready = b, !.levels = IF b THEN @ ELSE EmptyLevels]
=============================================================================
