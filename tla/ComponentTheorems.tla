------------------------- MODULE ComponentTheorems --------------------------
(***************************************************************************)
(* What the operators of the order book, the synchronizer and the trade    *)
(* processor preserve, and why an event that covers a book's update id     *)
(* takes the book to the end of the event: the lemmas that the depth       *)
(* engine, the trade path and the replays, which are built of these parts, *)
(* have in common.                                                         *)
(***************************************************************************)
EXTENDS OrderBook, Synchronizer, TradeProcessor, SequenceTheorems, TLAPS

-----------------------------------------------------------------------------
(* The operators keep the types. *)

LEMMA MaxIdNat == MaxId \in Nat /\ Ids \subseteq Nat /\ 0 \in Ids
BY ExchangeAssumption DEF Ids

LEMMA DepthUpdateType ==
  ASSUME NEW e \in DepthUpdates
  PROVE  /\ e.first \in Nat \ {0} /\ e.final \in Nat \ {0} /\ e.prev \in Nat
         /\ e.first \in Ids /\ e.final \in Ids /\ e.prev \in Ids
         /\ e.valid \in BOOLEAN
BY MaxIdNat DEF DepthUpdates, Ids

LEMMA BookAtType == ASSUME NEW id \in Ids PROVE BookAt[id] \in Quantities
BY ExchangeAssumption DEF Quantities

LEMMA EmptyLevelsType == EmptyLevels \in Quantities
BY DEF EmptyLevels, Quantities

LEMMA OverwriteType ==
  ASSUME NEW levels \in Quantities, NEW e \in DepthUpdates
  PROVE  Overwrite(levels, Changes(e)) \in Quantities
<1>1. e.final \in Ids
  BY DepthUpdateType
<1>2. \A l \in Levels : BookAt[e.final][l] \in Nat
  BY <1>1, BookAtType DEF Quantities
<1>3. ASSUME NEW l \in Levels, l \in DOMAIN Changes(e)
      PROVE  Changes(e)[l] \in Nat
  BY <1>2, <1>3 DEF Changes
<1>4. ASSUME NEW l \in Levels
      PROVE  (IF l \in DOMAIN Changes(e) THEN Changes(e)[l] ELSE levels[l]) \in Nat
  BY <1>3 DEF Quantities
<1> QED
  BY <1>4 DEF Overwrite, Quantities

LEMMA ApplyType ==
  ASSUME NEW b \in Books, NEW e \in DepthUpdates PROVE ApplyDepthUpdate(b, e) \in Books
<1>1. Overwrite(b.levels, Changes(e)) \in Quantities
  BY OverwriteType DEF Books
<1>2. e.final \in Ids
  BY DepthUpdateType
<1> QED BY <1>1, <1>2 DEF ApplyDepthUpdate, Books

LEMMA BookTypes ==
  ASSUME NEW b \in Books, NEW e \in DepthUpdates, NEW id \in Ids
  PROVE  /\ ApplySnapshot(BookAt[id], id) \in Books
         /\ FailedSnapshots(b, BookAt[id]) \subseteq Books
         /\ AfterUpdate(b, e) \subseteq Books
         /\ SetInitialized(b, FALSE) \in Books
<1>1. ApplySnapshot(BookAt[id], id) \in Books
  BY BookAtType DEF ApplySnapshot, Books
<1>2. FailedSnapshots(b, BookAt[id]) \subseteq Books
  BY BookAtType DEF FailedSnapshots, Books, Quantities
<1>3. ApplyDepthUpdate(b, e) \in Books
  BY ApplyType
<1>4. FailedUpdates(b, e) \subseteq Books
  <2>1. ASSUME NEW read \in SUBSET DOMAIN Changes(e)
        PROVE  Overwrite(b.levels, [l \in read |-> Changes(e)[l]]) \in Quantities
    <3>1. \A l \in Levels : b.levels[l] \in Nat /\ BookAt[e.final][l] \in Nat
      BY BookAtType, DepthUpdateType DEF Books, Quantities
    <3> QED
      BY <3>1 DEF Overwrite, Changes, Quantities
  <2> QED
    BY <2>1 DEF FailedUpdates, Books
<1>5. SetInitialized(b, FALSE) \in Books
  BY DEF SetInitialized, Books
<1> QED
  BY <1>1, <1>2, <1>3, <1>4, <1>5 DEF AfterUpdate

LEMMA SyncTypes ==
  ASSUME NEW s \in Synchronizers, NEW e \in DepthUpdates
  PROVE  /\ OnConnected(s) \in Synchronizers
         /\ OnReconnecting(s) \in Synchronizers
         /\ OnSnapshotLoading(s) \in Synchronizers
         /\ TriggerResync(s) \in Synchronizers
         /\ Shutdown(s) \in Synchronizers
         /\ BufferEvent(s, e) \in Synchronizers
         /\ AcceptLive(s, e) \in Synchronizers
<1> USE MaxIdNat DEF Synchronizers, SyncStates
<1>1. /\ OnConnected(s) \in Synchronizers
      /\ TriggerResync(s) \in Synchronizers
  BY EmptySeq DEF OnConnected, TriggerResync, NoUpdate
<1>2. /\ OnReconnecting(s) \in Synchronizers
      /\ OnSnapshotLoading(s) \in Synchronizers
      /\ Shutdown(s) \in Synchronizers
  <2>1. s.reconnectCount + 1 \in Nat
    OBVIOUS
  <2> QED
    BY <2>1 DEF OnReconnecting, OnSnapshotLoading, Shutdown
<1>3. BufferEvent(s, e) \in Synchronizers
  BY AppendProperties DEF BufferEvent
<1>4. AcceptLive(s, e) \in Synchronizers
  BY DepthUpdateType DEF AcceptLive
<1> QED
  BY <1>1, <1>2, <1>3, <1>4

-----------------------------------------------------------------------------
(* The venue's events. *)

\* Writing an event over a book inside the event's range gives the book at its end.
LEMMA OverwriteTrue ==
  ASSUME NEW e \in DepthUpdates, NEW id \in Ids, e.prev <= id, id <= e.final
  PROVE  Overwrite(BookAt[id], Changes(e)) = BookAt[e.final]
<1> DEFINE new == Overwrite(BookAt[id], Changes(e))
<1>1. e.final \in Ids /\ e.prev \in Nat /\ id \in Nat /\ e.final \in Nat
  BY DepthUpdateType, MaxIdNat
<1>2. BookAt[id] \in Quantities /\ BookAt[e.final] \in Quantities
  BY <1>1, BookAtType
<1>3. ASSUME NEW l \in Levels
      PROVE  new[l] = BookAt[e.final][l]
  <2>1. CASE l \in DOMAIN Changes(e)
    BY <2>1 DEF Overwrite, Changes
  <2>2. CASE l \notin DOMAIN Changes(e)
    <3>1. \A i \in e.prev + 1 .. e.final : l \notin Touched[i]
      BY <2>2 DEF Changes
    <3>2. \A i \in id + 1 .. e.final : l \notin Touched[i]
      BY <3>1, <1>1
    <3>3. BookAt[id][l] = BookAt[e.final][l]
      BY <3>2, <1>1, ExchangeAssumption
    <3> QED
      BY <3>3, <2>2 DEF Overwrite
  <2> QED
    BY <2>1, <2>2
<1>4. new = [l \in Levels |-> new[l]]
  BY DEF Overwrite
<1>5. BookAt[e.final] = [l \in Levels |-> BookAt[e.final][l]]
  BY <1>2 DEF Quantities
<1> QED
  BY <1>3, <1>4, <1>5

-----------------------------------------------------------------------------
(* The trade processor. *)

\* The window keeps its size, holds the newest id, and gains no other.
LEMMA RememberIs ==
  ASSUME NEW s \in Seq(TradeIds), Len(s) <= Window, NEW id \in TradeIds
  PROVE  /\ Remember(s, id) \in Seq(TradeIds)
         /\ Len(Remember(s, id)) <= Window
         /\ id \in Range(Remember(s, id))
         /\ Range(Remember(s, id)) \subseteq Range(s) \cup {id}
<1> DEFINE r == Remember(s, id)
<1>1. CASE Len(s) < Window
  <2>1. r = Append(s, id)
    BY <1>1 DEF Remember
  <2>2. r \in Seq(TradeIds) /\ Len(r) = Len(s) + 1 /\ r[Len(s) + 1] = id
    BY <2>1
  <2>3. \A i \in 1..Len(s) : r[i] = s[i]
    BY <2>1
  <2> HIDE DEF r
  <2>4. id \in Range(r)
    BY <2>2 DEF Range
  <2>5. Range(r) \subseteq Range(s) \cup {id}
    BY <2>2, <2>3 DEF Range
  <2>6. Len(r) <= Window
    BY <1>1, <2>2, ProcessorAssumption
  <2> QED
    BY <2>2, <2>4, <2>5, <2>6 DEF r
<1>2. CASE ~(Len(s) < Window)
  <2> DEFINE t == Tail(s)
  <2>1. s # <<>> /\ Len(s) = Window /\ Len(s) \in Nat
    BY <1>2, ProcessorAssumption
  <2>2. t \in Seq(TradeIds) /\ Len(t) = Len(s) - 1 /\ \A i \in 1..Len(t) : t[i] = s[i + 1]
    BY <2>1
  <2>3. r = Append(t, id)
    BY <1>2 DEF Remember
  <2> HIDE DEF t
  <2>4. r \in Seq(TradeIds) /\ Len(r) = Len(t) + 1 /\ r[Len(t) + 1] = id
    BY <2>2, <2>3
  <2>5. \A i \in 1..Len(t) : r[i] = t[i]
    BY <2>2, <2>3
  <2> HIDE DEF r
  <2>6. id \in Range(r)
    BY <2>2, <2>4 DEF Range
  <2>7. Range(r) \subseteq Range(s) \cup {id}
    BY <2>2, <2>4, <2>5 DEF Range
  <2> QED
    BY <2>1, <2>2, <2>4, <2>6, <2>7 DEF r
<1> QED
  BY <1>1, <1>2

\* Every operation of the processor keeps its type.
LEMMA CountersType ==
  ASSUME NEW p \in Processors
  PROVE  /\ CountReceived(p) \in Processors /\ CountDuplicate(p) \in Processors
         /\ CountStale(p) \in Processors /\ OnTradeReconnect(p) \in Processors
         /\ RecordMalformed(p) \in Processors /\ RecordMarkerRejected(p) \in Processors
BY DEF Processors, CountReceived, CountDuplicate, CountStale, OnTradeReconnect, RecordMalformed,
       RecordMarkerRejected

LEMMA AcceptType ==
  ASSUME NEW p \in Processors, NEW id \in TradeIds PROVE Accept(p, id) \in Processors
<1> DEFINE q == [p EXCEPT !.last = id]
           r == [q EXCEPT !.recent = Remember(p.recent, id)]
<1>1. q \in Processors
  BY DEF Processors
<1>2. Remember(p.recent, id) \in Windows
  BY RememberIs DEF Processors, Windows
<1>3. r \in Processors
  <2> HIDE DEF q
  <2> QED
    BY <1>1, <1>2 DEF Processors
<1>4. [r EXCEPT !.processed = p.processed + 1] \in Processors
  <2> HIDE DEF r
  <2>1. p.processed \in Nat
    BY DEF Processors
  <2> QED
    BY <1>3, <2>1 DEF Processors
<1> QED
  BY <1>4 DEF Accept

LEMMA ProcessType ==
  ASSUME NEW p \in Processors, NEW id \in TradeIds PROVE Process(p, id) \in Processors
<1>1. CountReceived(p) \in Processors
  BY CountersType
<1>2. /\ CountDuplicate(CountReceived(p)) \in Processors /\ CountStale(CountReceived(p)) \in Processors
      /\ Accept(CountReceived(p), id) \in Processors
  BY <1>1, CountersType, AcceptType
<1> QED
  BY <1>2 DEF Process, Processed
=============================================================================
