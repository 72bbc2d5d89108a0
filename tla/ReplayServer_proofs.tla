------------------------ MODULE ReplayServer_proofs -------------------------
(***************************************************************************)
(* The replays and the commands of the browsers, for any number of them:   *)
(* types; that a replay which calls itself synchronised has the venue's    *)
(* book, if the link behind its bridge is right; and that a pause or a stop*)
(* is obeyed.                                                              *)
(***************************************************************************)
EXTENDS ReplayServerInv, ComponentTheorems

-----------------------------------------------------------------------------
(* The events of a reconcile, which are applied by a fold. *)

Updates == INSTANCE FoldTheorems WITH Op <- ApplyDepthUpdate

\* The book that the updates leave of a book.
AfterUpdates(b, updates) == FoldLeft(ApplyDepthUpdate, b, updates)

LEMMA AfterUpdatesIsFold == \A b, s : AfterUpdates(b, s) = Updates!Fold(b, s)
BY DEF AfterUpdates, Updates!Fold, FoldLeft, MapThenFoldSet, Max, Updates!FoldLeft,
       Updates!MapThenFoldSet, Updates!Max

LEMMA AfterUpdatesEmpty == \A b : AfterUpdates(b, <<>>) = b
BY AfterUpdatesIsFold, Updates!FoldEmpty

LEMMA AfterUpdatesAppend ==
  ASSUME NEW s \in Seq(DepthUpdates), NEW e \in DepthUpdates, NEW b
  PROVE  AfterUpdates(b, Append(s, e)) = ApplyDepthUpdate(AfterUpdates(b, s), e)
BY AfterUpdatesIsFold, Updates!FoldAppend

LEMMA AfterUpdatesType ==
  ASSUME NEW b \in Books, NEW s \in Seq(DepthUpdates) PROVE AfterUpdates(b, s) \in Books
<1>1. \A x \in Books : \A e \in DepthUpdates : ApplyDepthUpdate(x, e) \in Books
  BY ApplyType
<1> QED BY <1>1, AfterUpdatesIsFold, Updates!FoldKeeps

\* A slice of a sequence grows by its next element.
LEMMA SliceGrows ==
  ASSUME NEW S, NEW s \in Seq(S), NEW b \in 1..Len(s), NEW j \in b..Len(s)
  PROVE  /\ SubSeq(s, b, j) \in Seq(S)
         /\ SubSeq(s, b, j) = Append(SubSeq(s, b, j - 1), s[j])
<1>1. Len(s) \in Nat /\ b \in Nat /\ j \in Nat /\ b >= 1 /\ j <= Len(s) /\ b <= j
  BY LenProperties
<1>2. \A i \in b..j : s[i] \in S
  BY <1>1, ElementOfSeq
<1>3. SubSeq(s, b, j) \in Seq(S) /\ SubSeq(s, b, j - 1) \in Seq(S)
  <2>1. \A i \in b..j - 1 : s[i] \in S
    BY <1>1, <1>2
  <2> QED BY <1>1, <1>2, <2>1, SubSeqProperties
<1>4. SubSeq(s, b, j) = SubSeq(s, b, j - 1) \o <<s[j]>>
  BY SubSeqRecursiveSecond
<1>5. s[j] \in S
  BY <1>1, <1>2
<1> QED BY <1>3, <1>4, <1>5, AppendIsConcat

\* A book inside the first event of an unbroken chain is, behind the chain, the venue's book
\* of the chain's last event.
LEMMA ChainTrue ==
  ASSUME NEW s \in Seq(DepthUpdates), NEW b \in 1..Len(s), NEW e \in b..Len(s), NEW id \in Ids,
         Bridges(s[b], id), s[b].first = s[b].prev + 1,
         \A i \in b..e : s[i].first = s[i].prev + 1 /\ s[i].prev <= s[i].final,
         \A i \in b + 1..e : Continues(s[i - 1], s[i]),
         NEW book \in Books, book.levels = BookAt[id]
  PROVE  AfterUpdates(book, SubSeq(s, b, e)).levels = BookAt[s[e].final]
<1> DEFINE after(j) == AfterUpdates(book, SubSeq(s, b, j))
           N == {n \in Nat : b + n <= e => after(b + n).levels = BookAt[s[b + n].final]}
<1>1. Len(s) \in Nat /\ b \in Nat /\ e \in Nat /\ 1 <= b /\ b <= e /\ e <= Len(s)
  BY LenProperties
<1>2. \A i \in b..e : s[i] \in DepthUpdates /\ s[i].final \in Ids /\ s[i].prev \in Ids
  BY <1>1, ElementOfSeq, DepthUpdateType
<1>3. 0 \in N
  <2>1. after(b) = ApplyDepthUpdate(book, s[b])
    <3>1. b - 1 < b /\ b \in b..Len(s)
      BY <1>1
    <3>2. SubSeq(s, b, b) = Append(SubSeq(s, b, b - 1), s[b])
      BY <3>1, SliceGrows
    <3>3. SubSeq(s, b, b - 1) = <<>> /\ <<>> \in Seq(DepthUpdates)
      BY <1>1, <3>1, SubSeqEmpty, EmptySeq
    <3>4. s[b] \in DepthUpdates
      BY <1>1, <1>2
    <3>5. AfterUpdates(book, Append(<<>>, s[b])) = ApplyDepthUpdate(AfterUpdates(book, <<>>), s[b])
      BY <3>3, <3>4, AfterUpdatesAppend
    <3> QED BY <3>2, <3>3, <3>5, AfterUpdatesEmpty
  <2>2. s[b].prev <= id /\ id <= s[b].final
    <3>1. b \in b..e
      BY <1>1
    <3>2. s[b].prev \in Nat /\ id \in Nat
      BY <1>2, <3>1, MaxIdNat
    <3> QED BY <3>2 DEF Bridges
  <2>3. Overwrite(BookAt[id], Changes(s[b])) = BookAt[s[b].final]
    BY <1>1, <1>2, <2>2, OverwriteTrue
  <2>4. after(b).levels = BookAt[s[b].final]
    BY <2>1, <2>3 DEF ApplyDepthUpdate, Books
  <2> HIDE DEF after
  <2> QED BY <1>1, <2>4
<1>4. ASSUME NEW n \in Nat, n \in N
      PROVE  n + 1 \in N
  <2>1. SUFFICES ASSUME b + (n + 1) <= e
                 PROVE  after(b + (n + 1)).levels = BookAt[s[b + (n + 1)].final]
    OBVIOUS
  <2> DEFINE j == b + n
             f == s[j + 1]
  <2>2. j \in b..e /\ j + 1 \in b + 1..e /\ j + 1 \in b..Len(s) /\ b + (n + 1) = j + 1
    BY <1>1, <2>1
  <2>3. after(j).levels = BookAt[s[j].final]
    BY <1>4, <2>2
  <2>4. /\ SubSeq(s, b, j) \in Seq(DepthUpdates)
        /\ SubSeq(s, b, j + 1) = Append(SubSeq(s, b, j), f)
    <3>1. /\ j \in b..Len(s) /\ j + 1 \in b..Len(s) /\ (j + 1) - 1 = j
      BY <1>1, <2>2
    <3> HIDE DEF j, f
    <3>2. SubSeq(s, b, j + 1) = Append(SubSeq(s, b, (j + 1) - 1), s[j + 1])
      BY <3>1, SliceGrows
    <3>3. SubSeq(s, b, j) \in Seq(DepthUpdates)
      BY <3>1, SliceGrows
    <3> QED BY <3>1, <3>2, <3>3 DEF f
  <2>5. f \in DepthUpdates /\ s[j].final \in Ids
    BY <1>2, <2>2
  <2>6. after(j + 1) = ApplyDepthUpdate(after(j), f)
    BY <2>4, <2>5, AfterUpdatesAppend
  <2>7. after(j) \in Books
    BY <2>4, AfterUpdatesType
  <2>8. f.prev = s[j].final /\ f.prev <= f.final
    <3>1. j + 1 \in b..e /\ (j + 1) - 1 = j
      BY <1>1, <2>2
    <3>2. Continues(s[(j + 1) - 1], s[j + 1])
      BY <2>2
    <3> QED BY <3>1, <3>2 DEF Continues
  <2>9. Overwrite(BookAt[s[j].final], Changes(f)) = BookAt[f.final]
    <3> HIDE DEF f, j
    <3>1. f.prev <= s[j].final /\ s[j].final <= f.final
      BY <2>5, <2>8, MaxIdNat
    <3> QED BY <2>5, <3>1, OverwriteTrue
  <2>10. after(j + 1).levels = BookAt[f.final]
    <3> HIDE DEF after, f, j
    <3> QED BY <2>3, <2>6, <2>7, <2>9 DEF ApplyDepthUpdate, Books
  <2> QED
    <3> HIDE DEF after
    <3> QED BY <2>2, <2>10
<1>5. Nat \subseteq N
  <2> HIDE DEF N
  <2> QED BY <1>3, <1>4, Updates!NumberInduction
<1>6. e - b \in Nat /\ b + (e - b) = e
  BY <1>1
<1>7. e - b \in N
  <2> HIDE DEF N
  <2> QED BY <1>5, <1>6
<1> QED
  <2> HIDE DEF after
  <2>1. after(e).levels = BookAt[s[e].final]
    BY <1>6, <1>7
  <2> QED BY <2>1 DEF after

-----------------------------------------------------------------------------
(* The events of a replay: types, and the book. *)

LEMMA NewPlayerIs == NewPlayer \in Players /\ PlayerInv(NewPlayer)
<1>1. NewSynchronizer \in Synchronizers
  BY MaxIdNat, EmptySeq DEF NewSynchronizer, Synchronizers, SyncStates, NoUpdate
<1>2. /\ OnConnected(NewSynchronizer) \in Synchronizers
      /\ OnConnected(NewSynchronizer).buffer = <<>>
      /\ OnConnected(NewSynchronizer).state = "Buffering"
  <2> DEFINE s == NewSynchronizer
  <2>1. s \in Synchronizers
    BY <1>1
  <2> HIDE DEF s
  <2>2. /\ OnConnected(s) \in Synchronizers
        /\ OnConnected(s).buffer = <<>> /\ OnConnected(s).state = "Buffering"
    BY <2>1, MaxIdNat, EmptySeq DEF OnConnected, Synchronizers, SyncStates, NoUpdate
  <2> QED BY <2>2 DEF s
<1>3. NewBook \in Books /\ NewShadow \in ShadowBooks
  BY MaxIdNat, EmptyLevelsType DEF NewBook, Books, NewShadow, ShadowBooks
<1>4. NewProcessor \in Processors
  <2>1. <<>> \in Windows
    BY ProcessorAssumption DEF Windows
  <2> QED BY <2>1 DEF NewProcessor, Processors
<1>5. NewPlayer \in Players
  BY <1>1, <1>2, <1>3, <1>4, MaxIdNat DEF NewPlayer, Players
<1>6. PlayerInv(NewPlayer)
  <2>1. NewPlayer.sync = OnConnected(NewSynchronizer) /\ ~NewPlayer.shadow.ready
    BY DEF NewPlayer, NewShadow
  <2>2. NewPlayer.sync.buffer = <<>> /\ NewPlayer.sync.state # "Ready"
    BY <1>2, <2>1
  <2> QED BY <2>1, <2>2 DEF PlayerInv, BufferInv, BookIsVenues, ShadowIsBook
<1> QED BY <1>5, <1>6

LEMMA LoadIs ==
  ASSUME NEW p \in Players, NEW id \in Ids
  PROVE  /\ Load(p, id) \in Players
         /\ Load(p, id).sync = OnSnapshotLoading(p.sync)
         /\ Load(p, id).sync.buffer = p.sync.buffer
         /\ Load(p, id).sync.state = "SnapshotLoading"
         /\ Load(p, id).book.levels = BookAt[id]
<1>1. OnSnapshotLoading(p.sync) \in Synchronizers
  BY DEF Players, OnSnapshotLoading, Synchronizers, SyncStates
<1>2. ApplySnapshot(BookAt[id], id) \in Books
  BY BookAtType DEF ApplySnapshot, Books
<1>3. Load(p, id) \in Players
  BY <1>1, <1>2 DEF Load, Players
<1>4. /\ Load(p, id).sync = OnSnapshotLoading(p.sync)
      /\ Load(p, id).book = ApplySnapshot(BookAt[id], id)
  BY DEF Load, Players
<1>5. /\ OnSnapshotLoading(p.sync).buffer = p.sync.buffer
      /\ OnSnapshotLoading(p.sync).state = "SnapshotLoading"
  BY DEF OnSnapshotLoading, Players, Synchronizers
<1> QED BY <1>3, <1>4, <1>5 DEF ApplySnapshot

\* The analytics are given the book of the replay.
LEMMA SeedIs ==
  ASSUME NEW p \in Players
  PROVE  /\ Seed(p) \in Players /\ Seed(p).sync = p.sync /\ Seed(p).book = p.book
         /\ Seed(p).linked = p.linked /\ ShadowIsBook(Seed(p))
<1>1. ShadowSnapshot(p.book.levels) \in ShadowBooks
  BY DEF ShadowSnapshot, ShadowBooks, Players, Books
<1> QED BY <1>1 DEF Seed, Players, ShadowIsBook, ShadowSnapshot

LEMMA ResyncIs ==
  ASSUME NEW p \in Players
  PROVE  /\ [p EXCEPT !.sync = TriggerResync(@)] \in Players
         /\ [p EXCEPT !.sync = TriggerResync(@)].sync.state = "Buffering"
         /\ [p EXCEPT !.sync = TriggerResync(@)].sync.buffer = <<>>
<1>1. TriggerResync(p.sync) \in Synchronizers
  <2>1. p.sync \in Synchronizers
    BY DEF Players
  <2> QED BY <2>1, MaxIdNat, EmptySeq DEF TriggerResync, Synchronizers, SyncStates, NoUpdate
<1>2. TriggerResync(p.sync).state = "Buffering" /\ TriggerResync(p.sync).buffer = <<>>
  BY DEF TriggerResync, Players, Synchronizers
<1> QED BY <1>1, <1>2 DEF Players

\* The buffered events of a chain take the book of the snapshot to the chain's end, if the link
\* behind the bridge, which nobody tests, is right.
LEMMA ApplyIs ==
  ASSUME NEW p \in Players, BufferInv(p), NEW id \in Ids, p.book.levels = BookAt[id],
         NEW b \in DOMAIN p.sync.buffer, NEW e \in DOMAIN p.sync.buffer, IsFound(p.sync, id, b, e)
  PROVE  /\ Apply(p, b, e) \in Players
         /\ Apply(p, b, e).sync.buffer = <<>>
         /\ Apply(p, b, e).sync.lastAppliedU # NoUpdate
         /\ BookIsVenues(Apply(p, b, e))
<1> DEFINE s == p.sync.buffer
           r == Apply(p, b, e)
           slice == SubSeq(s, b, e)
<1>1. s \in Seq(DepthUpdates) /\ p.book \in Books /\ p.sync \in Synchronizers
  BY DEF Players, Synchronizers
<1>2. DOMAIN s = 1..Len(s) /\ Len(s) \in Nat /\ b \in 1..Len(s) /\ e \in b..Len(s) /\ b \in Nat /\ e \in Nat
  <2>1. DOMAIN s = 1..Len(s) /\ Len(s) \in Nat
    BY <1>1, LenProperties
  <2> HIDE DEF s
  <2> QED BY <2>1 DEF IsFound, s
<1>3. s[e] \in DepthUpdates /\ s[e].final \in Ids /\ s[e].final # 0
  <2>1. s[e] \in DepthUpdates
    BY <1>1, <1>2, ElementOfSeq
  <2> QED BY <2>1, DepthUpdateType
<1>4. slice \in Seq(DepthUpdates)
  BY <1>1, <1>2, SliceGrows
<1>5. AfterUpdates(p.book, slice) \in Books
  BY <1>1, <1>4, AfterUpdatesType
<1>6. Reconciled(p.sync, e) \in Synchronizers /\ Reconciled(p.sync, e).buffer = <<>>
        /\ Reconciled(p.sync, e).lastAppliedU = s[e].final
  <2> HIDE DEF slice, r
  <2> QED BY <1>1, <1>3, EmptySeq DEF Reconciled, Synchronizers, SyncStates
<1>7. r \in Players /\ r.sync = Reconciled(p.sync, e) /\ r.book = AfterUpdates(p.book, slice)
        /\ r.linked = (b = e \/ Continues(s[b], s[b + 1]))
  <2>1. (b = e \/ Continues(s[b], s[b + 1])) \in BOOLEAN
    OBVIOUS
  <2> QED BY <1>5, <1>6, <2>1 DEF Apply, Players, AfterUpdates
<1>8. ASSUME r.linked
      PROVE  r.book.levels = BookAt[s[e].final]
  <2>1. ASSUME NEW i \in b + 1..e
        PROVE  Continues(s[i - 1], s[i])
    <3>1. \A j \in b + 2..e : Continues(s[j - 1], s[j])
      BY DEF IsFound, IsChainEnd, IsChain
    <3>2. CASE i = b + 1
      <4>1. b # e /\ i - 1 = b
        BY <1>2, <3>2
      <4> QED BY <1>7, <1>8, <3>2, <4>1
    <3>3. CASE i # b + 1
      BY <1>2, <3>1, <3>3
    <3> QED BY <3>2, <3>3
  <2>2. \A i \in b..e : s[i].first = s[i].prev + 1 /\ s[i].prev <= s[i].final
    <3>1. \A i \in DOMAIN s : s[i].prev \in Nat /\ s[i].final \in Nat
      BY <1>1, <1>2, ElementOfSeq, DepthUpdateType
    <3>2. \A i \in DOMAIN s : s[i].first = s[i].prev + 1 /\ s[i].prev < s[i].final
      BY DEF BufferInv
    <3>3. \A i \in b..e : i \in DOMAIN s
      BY <1>2
    <3> HIDE DEF s
    <3> QED BY <3>1, <3>2, <3>3
  <2>3. Bridges(s[b], id)
    BY DEF IsFound, IsBridge
  <2>4. s[b].first = s[b].prev + 1
    BY <1>2 DEF BufferInv
  <2>5. AfterUpdates(p.book, SubSeq(s, b, e)).levels = BookAt[s[e].final]
    <3> HIDE DEF s, r
    <3> QED BY <1>1, <1>2, <2>1, <2>2, <2>3, <2>4, ChainTrue
  <2> QED BY <1>7, <2>5
<1> QED
  <2> HIDE DEF r, s, slice
  <2>1. BookIsVenues(r)
    BY <1>6, <1>7, <1>8 DEF BookIsVenues
  <2> QED BY <1>3, <1>6, <1>7, <2>1 DEF r, NoUpdate

LEMMA AfterSnapshotIs ==
  ASSUME NEW p \in Players, PlayerInv(p), NEW id \in Ids, NEW q \in AfterSnapshot(p, id)
  PROVE  q \in Players /\ PlayerInv(q)
<1> DEFINE l == Load(p, id)
<1>1. /\ l \in Players /\ l.sync.buffer = p.sync.buffer /\ l.book.levels = BookAt[id]
      /\ l.sync = OnSnapshotLoading(p.sync)
  BY LoadIs
<1>2. CASE NoBridge(p.sync, id)
  <2> DEFINE r == [l EXCEPT !.sync = TriggerResync(@)]
  <2>1. q = Seed(r)
    BY <1>2 DEF AfterSnapshot
  <2>2. r \in Players /\ r.sync.state = "Buffering" /\ r.sync.buffer = <<>>
    <3> HIDE DEF l
    <3> QED BY <1>1, ResyncIs
  <2> HIDE DEF r
  <2>3. q \in Players /\ q.sync = r.sync /\ ShadowIsBook(q)
    BY <2>1, <2>2, SeedIs
  <2> QED BY <2>2, <2>3 DEF PlayerInv, BufferInv, BookIsVenues
<1>3. CASE ~NoBridge(p.sync, id)
  <2>1. PICK be \in Chains(p.sync, id) : q = Seed(Apply(l, be[1], be[2]))
    BY <1>3 DEF AfterSnapshot
  <2> DEFINE b == be[1]
             e == be[2]
             r == Apply(l, b, e)
  <2>2. b \in DOMAIN p.sync.buffer /\ e \in DOMAIN p.sync.buffer /\ IsFound(p.sync, id, b, e)
    BY DEF Chains
  <2>3. IsFound(l.sync, id, b, e)
    <3> HIDE DEF l, b, e
    <3> QED BY <1>1, <2>2 DEF IsFound, IsBridge, IsChainEnd, IsChain
  <2>4. BufferInv(l)
    <3> HIDE DEF l
    <3> QED BY <1>1 DEF PlayerInv, BufferInv
  <2>5. /\ r \in Players /\ r.sync.buffer = <<>> /\ r.sync.lastAppliedU # NoUpdate
        /\ BookIsVenues(r)
    <3> HIDE DEF l, b, e
    <3> QED BY <1>1, <2>2, <2>3, <2>4, ApplyIs
  <2>6. q \in Players /\ q.sync = r.sync /\ q.book = r.book /\ q.linked = r.linked /\ ShadowIsBook(q)
    <3> HIDE DEF r
    <3> QED BY <2>1, <2>5, SeedIs DEF r
  <2> HIDE DEF r
  <2> QED BY <2>5, <2>6 DEF PlayerInv, BufferInv, BookIsVenues
<1> QED BY <1>2, <1>3

\* A live event continues the book; and writes the same levels in both books.
LEMMA LiveIs ==
  ASSUME NEW p \in Players, PlayerInv(p), NEW e \in DepthUpdates, e.prev < e.final,
         p.sync.state = "Ready", ~PuMismatch(p.sync, e), ~StaleEvent(p.sync, e)
  PROVE  Live(p, e) \in Players /\ PlayerInv(Live(p, e))
<1> DEFINE q == Live(p, e)
<1>1. p.sync \in Synchronizers /\ p.book \in Books /\ p.shadow \in ShadowBooks
  BY DEF Players
<1>2. AcceptLive(p.sync, e) \in Synchronizers /\ ApplyDepthUpdate(p.book, e) \in Books
  BY <1>1, SyncTypes, ApplyType
<1>3. ShadowUpdate(p.shadow, e) \in ShadowBooks
  <2>1. Overwrite(p.shadow.levels, Changes(e)) \in Quantities
    BY <1>1, OverwriteType DEF ShadowBooks
  <2> QED BY <1>1, <2>1 DEF ShadowUpdate, ShadowBooks
<1>4. /\ q \in Players /\ q.sync = AcceptLive(p.sync, e) /\ q.book = ApplyDepthUpdate(p.book, e)
      /\ q.shadow = ShadowUpdate(p.shadow, e) /\ q.linked = p.linked
  BY <1>2, <1>3 DEF Live, Players
<1>5. /\ q.sync.lastAppliedU = e.final /\ q.sync.buffer = p.sync.buffer
      /\ q.book.levels = Overwrite(p.book.levels, Changes(e))
      /\ q.shadow.levels = Overwrite(p.shadow.levels, Changes(e))
      /\ q.shadow.ready = p.shadow.ready
  <2> HIDE DEF q
  <2> QED BY <1>1, <1>4 DEF AcceptLive, ApplyDepthUpdate, ShadowUpdate, Synchronizers, Books,
                             ShadowBooks
<1>6. e.final # 0
  BY DepthUpdateType
<1>7. p.sync.lastAppliedU # NoUpdate /\ e.prev = p.sync.lastAppliedU
  BY DEF PlayerInv, PuMismatch
<1>8. ASSUME p.linked
      PROVE  q.book.levels = BookAt[e.final]
  <2>1. p.book.levels = BookAt[p.sync.lastAppliedU]
    BY <1>8 DEF PlayerInv, BookIsVenues
  <2>2. e.prev \in Ids /\ e.prev <= e.prev /\ e.prev <= e.final
    BY DepthUpdateType
  <2>3. Overwrite(BookAt[e.prev], Changes(e)) = BookAt[e.final]
    BY <2>2, OverwriteTrue
  <2> HIDE DEF q
  <2> QED BY <1>5, <1>7, <2>1, <2>3
<1> QED
  <2> HIDE DEF q
  <2>1. BufferInv(q) /\ ShadowIsBook(q) /\ BookIsVenues(q) /\ q.sync.lastAppliedU # NoUpdate
    BY <1>4, <1>5, <1>6, <1>8 DEF PlayerInv, BufferInv, BookIsVenues, ShadowIsBook, NoUpdate
  <2> QED BY <1>4, <2>1 DEF q, PlayerInv

LEMMA BufferIs ==
  ASSUME NEW p \in Players, PlayerInv(p), NEW e \in DepthUpdates,
         e.first = e.prev + 1, e.prev < e.final, p.sync.state # "Ready"
  PROVE  /\ [p EXCEPT !.sync = BufferEvent(@, e)] \in Players
         /\ PlayerInv([p EXCEPT !.sync = BufferEvent(@, e)])
<1> DEFINE q == [p EXCEPT !.sync = BufferEvent(@, e)]
<1>1. p.sync \in Synchronizers /\ p.sync.buffer \in Seq(DepthUpdates)
  BY DEF Players, Synchronizers
<1>2. BufferEvent(p.sync, e) \in Synchronizers
  BY <1>1, SyncTypes
<1>3. /\ q \in Players /\ q.sync = BufferEvent(p.sync, e) /\ q.book = p.book
      /\ q.shadow = p.shadow
  BY <1>2 DEF Players
<1>4. q.sync.buffer \in {p.sync.buffer, Append(p.sync.buffer, e)} /\ q.sync.state # "Ready"
  BY <1>1, <1>3 DEF BufferEvent, Synchronizers
<1>5. BufferInv(q)
  <2> DEFINE s == p.sync.buffer
             longer == Append(s, e)
  <2>1. /\ DOMAIN longer = 1..Len(s) + 1 /\ DOMAIN s = 1..Len(s) /\ Len(s) \in Nat
        /\ longer[Len(s) + 1] = e /\ \A i \in 1..Len(s) : longer[i] = s[i]
    BY <1>1
  <2>2. \A i \in DOMAIN s : s[i].first = s[i].prev + 1 /\ s[i].prev < s[i].final
    BY DEF PlayerInv, BufferInv
  <2>3. \A i \in DOMAIN longer :
           longer[i].first = longer[i].prev + 1 /\ longer[i].prev < longer[i].final
    <3>1. \A i \in DOMAIN longer : i \in DOMAIN s \/ i = Len(s) + 1
      BY <2>1
    <3> HIDE DEF longer, s
    <3> QED BY <2>1, <2>2, <3>1
  <2> HIDE DEF q, longer, s
  <2>4. q.sync.buffer = s \/ q.sync.buffer = longer
    BY <1>4 DEF s, longer
  <2> QED BY <2>2, <2>3, <2>4 DEF BufferInv
<1> QED
  <2> HIDE DEF q
  <2>1. ShadowIsBook(q) /\ BookIsVenues(q)
    BY <1>3, <1>4 DEF PlayerInv, ShadowIsBook, BookIsVenues
  <2> QED BY <1>3, <1>4, <1>5, <2>1 DEF q, PlayerInv

LEMMA MovedIs ==
  ASSUME NEW p \in Players, PlayerInv(p), NEW id \in Ids
  PROVE  [p EXCEPT !.at = id] \in Players /\ PlayerInv([p EXCEPT !.at = id])
BY DEF Players, PlayerInv, BufferInv, BookIsVenues, ShadowIsBook

LEMMA TradedIs ==
  ASSUME NEW p \in Players, PlayerInv(p), NEW id \in TradeIds
  PROVE  AfterTrade(p, id) \in Players /\ PlayerInv(AfterTrade(p, id))
<1>1. Process(p.trades, id) \in Processors
  BY ProcessType DEF Players
<1> QED BY <1>1 DEF AfterTrade, Players, PlayerInv, BufferInv, BookIsVenues, ShadowIsBook

LEMMA EngineGapIs ==
  ASSUME NEW p \in Players, PlayerInv(p)
  PROVE  EngineGap(p) \in Players /\ PlayerInv(EngineGap(p))
<1> DEFINE q == EngineGap(p)
<1>1. q \in Players /\ q.sync.state = "Buffering" /\ q.sync.buffer = <<>>
  BY ResyncIs DEF EngineGap
<1>2. q.book = p.book /\ q.shadow = p.shadow
  BY DEF EngineGap, Players
<1> HIDE DEF q
<1>3. BufferInv(q) /\ ShadowIsBook(q) /\ BookIsVenues(q)
  BY <1>1, <1>2 DEF PlayerInv, BufferInv, ShadowIsBook, BookIsVenues
<1> QED BY <1>1, <1>3 DEF q, PlayerInv

\* Every event of a stored session leaves a player's book exact, whichever way a gap is answered.
LEMMA PlayedIs ==
  ASSUME NEW p \in Players, PlayerInv(p), NEW gap \in Players, PlayerInv(gap),
         NEW event \in ReplayEvents(p.at) \cup ServedEvents, NEW q \in Played(p, event, gap)
  PROVE  q \in Players /\ PlayerInv(q)
<1>1. \A id \in 1..MaxId : id \in Ids
  BY MaxIdNat DEF Ids
<1>2. CASE event.kind = "trade"
  <2>1. event.id \in TradeIds
    BY <1>2, ServerAssumption DEF ReplayEvents, Snapshot, Depth, Trade
  <2> QED BY <1>2, <2>1, TradedIs DEF Played
<1>3. CASE event.kind = "snapshot"
  <2>1. event.id \in Ids
    BY <1>1, <1>3, ServerAssumption DEF ReplayEvents, Snapshot, Depth, Trade
  <2> QED BY <1>3, <2>1, AfterSnapshotIs DEF Played
<1>4. CASE event.kind = "depth"
  <2> DEFINE e == event.update
             r == AfterDepth(p, e, gap)
  <2>1. e \in StoredUpdates(p.at)
    BY <1>4, ServerAssumption DEF ReplayEvents, Snapshot, Depth, Trade
  <2>2. e \in DepthUpdates /\ e.first = e.prev + 1 /\ e.prev < e.final /\ e.final \in Ids
    <3> HIDE DEF e
    <3> QED BY <2>1, DepthUpdateType DEF StoredUpdates
  <2>3. r \in Players /\ PlayerInv(r)
    <3> HIDE DEF e
    <3>1. CASE p.sync.state # "Ready"
      BY <2>2, <3>1, BufferIs DEF AfterDepth
    <3>2. CASE p.sync.state = "Ready" /\ PuMismatch(p.sync, e)
      BY <3>2 DEF AfterDepth
    <3>3. CASE p.sync.state = "Ready" /\ ~PuMismatch(p.sync, e) /\ StaleEvent(p.sync, e)
      BY <3>3 DEF AfterDepth
    <3>4. CASE p.sync.state = "Ready" /\ ~PuMismatch(p.sync, e) /\ ~StaleEvent(p.sync, e)
      <4>1. r = Live(p, e)
        BY <3>4 DEF AfterDepth
      <4> QED BY <2>2, <3>4, <4>1, LiveIs
    <3> QED BY <3>1, <3>2, <3>3, <3>4
  <2>4. q = [r EXCEPT !.at = e.final]
    BY <1>4 DEF Played
  <2> HIDE DEF r, e
  <2> QED BY <2>2, <2>3, <2>4, MovedIs
<1>5. event.kind \in {"snapshot", "depth", "trade"}
  BY ServerAssumption DEF ReplayEvents, Snapshot, Depth, Trade
<1> QED BY <1>2, <1>3, <1>4, <1>5

-----------------------------------------------------------------------------
(* Types, and the book of every replay. *)

ExactInv == TypeOK /\ PlayersInv

LEMMA InitExact == Init => ExactInv
<1> SUFFICES ASSUME Init
             PROVE  ExactInv
  OBVIOUS
<1>1. task \in [Tasks -> Phases]
  BY DEF Init, FirstPhase, Programs, Phases
<1>2. 0 \in 0..MaxCommands /\ <<>> \in Seq(Waiters)
  BY ServerAssumption, EmptySeq
<1> QED BY <1>1, <1>2, NewPlayerIs DEF Init, NoneLate, ExactInv, TypeOK, PlayersInv, ReplayStates

\* A step that plays an event.
LEMMA PlaysExact ==
  ASSUME ExactInv, NEW t \in Tasks, NEW p, p \in Players /\ PlayerInv(p),
         player' = [player EXCEPT ![t] = p]
  PROVE  player' \in [Tasks -> Players] /\ PlayersInv'
<1>1. player \in [Tasks -> Players] /\ \A u \in Tasks : PlayerInv(player[u])
  BY DEF ExactInv, TypeOK, PlayersInv
<1>2. \A u \in Tasks : player'[u] = p \/ player'[u] = player[u]
  BY <1>1
<1>3. \A u \in Tasks : PlayerInv(player'[u])
  BY <1>1, <1>2
<1> QED BY <1>1, <1>3 DEF PlayersInv

LEMMA StepExact == ASSUME ExactInv, [Next]_vars PROVE ExactInv'
<1>0. TypeOK /\ PlayersInv
  BY DEF ExactInv
<1>1. UNCHANGED player => PlayersInv'
  BY <1>0 DEF PlayersInv
<1>2. \A w \in Waiters : Append(queue, w) \in Seq(Waiters)
  BY <1>0 DEF TypeOK
<1>3. queue # <<>> => Tail(queue) \in Seq(Waiters)
  BY <1>0 DEF TypeOK
<1>4. NoneLate \in [Tasks -> Nat] /\ late \in [Tasks -> Nat]
  BY <1>0 DEF NoneLate, TypeOK
<1>5. \A t \in Tasks : \A from : \A to \in Phases : Goes(t, from, to) => task' \in [Tasks -> Phases]
  BY <1>0 DEF Goes, TypeOK
<1>6. \A t \in Tasks : [played EXCEPT ![t] = @ + 1] \in [Tasks -> Nat]
  BY <1>0 DEF TypeOK
<1>7. \A t \in Tasks : player[t] \in Players /\ PlayerInv(player[t])
  BY <1>0 DEF TypeOK, PlayersInv
<1>8. CASE EngineEvent
  <2>1. 1 \in Tasks
    BY ServerAssumption DEF Tasks
  <2>2. PICK event \in ReplayEvents(player[1].at) :
          \E p \in Played(player[1], event, EngineGap(player[1])) : player' = [player EXCEPT ![1] = p]
    BY <1>8 DEF EngineEvent
  <2>3. PICK p \in Played(player[1], event, EngineGap(player[1])) : player' = [player EXCEPT ![1] = p]
    BY <2>2
  <2>4. p \in Players /\ PlayerInv(p)
    BY <1>7, <2>1, EngineGapIs, PlayedIs
  <2>5. player' \in [Tasks -> Players] /\ PlayersInv'
    BY <2>1, <2>3, <2>4, PlaysExact
  <2> QED BY <1>0, <1>6, <1>8, <2>1, <2>5 DEF EngineEvent, ExactInv, TypeOK
<1>9. CASE EngineEnds
  <2>1. task' \in [Tasks -> Phases]
    BY <1>0, <1>9 DEF EngineEnds, TypeOK, Phases
  <2> QED BY <1>0, <1>1, <1>9, <2>1 DEF EngineEnds, ExactInv, TypeOK
<1>10. ASSUME NEW c \in Client, NEW command \in Commands, ClientSends(c, command)
       PROVE  ExactInv'
  <2>1. ClientWaits(c) \in Waiters
    BY DEF Waiters
  <2>2. client' \in [Client -> Commands \cup {"none"}] /\ issued' \in [Client -> 0..MaxCommands]
    BY <1>0, <1>10, ServerAssumption DEF ClientSends, TypeOK
  <2> QED BY <1>0, <1>1, <1>2, <1>10, <2>1, <2>2 DEF ClientSends, ExactInv, TypeOK
<1>11. ASSUME NEW c \in Client, ServeCommand(c)
       PROVE  ExactInv'
  <2>1. queue # <<>>
    BY <1>11 DEF ServeCommand, First
  <2>2. Commanded(info, client[c]) \in ReplayStates
    BY <1>0 DEF TypeOK, Commanded, ReplayStates
  <2>3. client' \in [Client -> Commands \cup {"none"}]
    BY <1>0, <1>11 DEF ServeCommand, TypeOK
  <2>4. info' \in ReplayStates
    BY <1>11, <2>2 DEF ServeCommand
  <2>5. halt' \in BOOLEAN /\ late' \in [Tasks -> Nat]
    BY <1>4, <1>11 DEF ServeCommand, Halting
  <2> QED BY <1>0, <1>1, <1>3, <1>11, <2>1, <2>3, <2>4, <2>5 DEF ServeCommand, ExactInv, TypeOK
<1>12. ASSUME NEW c \in Client, ServeLoad(c)
       PROVE  ExactInv'
  <2>1. queue # <<>>
    BY <1>12 DEF ServeLoad, First
  <2>2. task' \in [Tasks -> Phases]
    BY <1>0, <1>12 DEF ServeLoad, TypeOK, Phases
  <2>3. client' \in [Client -> Commands \cup {"none"}]
    BY <1>0, <1>12 DEF ServeLoad, TypeOK
  <2>4. info' \in ReplayStates /\ halt' \in BOOLEAN /\ late' \in [Tasks -> Nat]
    BY <1>4, <1>12 DEF ServeLoad, ReplayStates
  <2> QED BY <1>0, <1>1, <1>3, <1>12, <2>1, <2>2, <2>3, <2>4 DEF ServeLoad, ExactInv, TypeOK
<1>13. ASSUME NEW t \in Tasks, TaskStep(t)
       PROVE  ExactInv'
  <2> USE DEF ExactInv, TypeOK
  <2>1. TaskWaits(t) \in Waiters
    BY DEF Waiters
  <2>2. {"queued", "begin", "loading", "next", "check", "play", "done"} \subseteq Phases
    BY DEF Phases
  <2>3. {"Loading", "Idle", "Playing", "Completed"} \subseteq ReplayStates
    BY DEF ReplayStates
  <2>4. CASE TaskQueues(t)
    BY <1>0, <1>1, <1>2, <1>5, <2>1, <2>2, <2>4 DEF TaskQueues
  <2>5. CASE TaskEnters(t)
    BY <1>0, <1>1, <1>3, <1>5, <2>2, <2>5 DEF TaskEnters, First
  <2>6. CASE BeginLoad(t)
    BY <1>0, <1>1, <1>5, <2>2, <2>3, <2>6 DEF BeginLoad
  <2>7. CASE LoadFails(t)
    BY <1>0, <1>1, <1>5, <2>2, <2>3, <2>7 DEF LoadFails
  <2>8. CASE LoadSucceeds(t)
    BY <1>0, <1>1, <1>5, <2>2, <2>3, <2>8 DEF LoadSucceeds
  <2>9. CASE NextEvent(t)
    BY <1>0, <1>1, <1>5, <2>2, <2>9 DEF NextEvent
  <2>10. CASE Completes(t)
    BY <1>0, <1>1, <1>5, <2>2, <2>3, <2>10 DEF Completes
  <2>11. CASE SeesRunning(t)
    BY <1>0, <1>1, <1>5, <2>2, <2>11 DEF SeesRunning
  <2>12. CASE SeesStopped(t)
    BY <1>0, <1>1, <1>5, <2>2, <2>12 DEF SeesStopped
  <2>13. CASE PlayEvent(t)
    <3>1. PICK event \in SessionEvents(t) :
            \E p \in Played(player[t], event, StreamGap(player[t])) : player' = [player EXCEPT ![t] = p]
      BY <2>13 DEF PlayEvent
    <3>2. PICK p \in Played(player[t], event, StreamGap(player[t])) : player' = [player EXCEPT ![t] = p]
      BY <3>1
    <3>3. event \in ReplayEvents(player[t].at) \cup ServedEvents
      BY DEF SessionEvents
    <3>4. p \in Players /\ PlayerInv(p)
      BY <1>7, <3>3, PlayedIs DEF StreamGap
    <3>5. player' \in [Tasks -> Players] /\ PlayersInv'
      BY <3>2, <3>4, PlaysExact
    <3>6. late' \in [Tasks -> Nat] /\ played' \in [Tasks -> Nat]
      BY <1>0, <1>6, <2>13 DEF PlayEvent
    <3>7. task' \in [Tasks -> Phases]
      BY <1>5, <2>2, <2>13 DEF PlayEvent
    <3> QED BY <1>0, <2>13, <3>5, <3>6, <3>7 DEF PlayEvent
  <2> QED BY <1>13, <2>4, <2>5, <2>6, <2>7, <2>8, <2>9, <2>10, <2>11, <2>12, <2>13 DEF TaskStep
<1>14. CASE UNCHANGED vars
  BY <1>0, <1>1, <1>14 DEF vars, ExactInv, TypeOK
<1> QED BY <1>8, <1>9, <1>10, <1>11, <1>12, <1>13, <1>14 DEF Next, ClientServed

\* Every variable keeps its type.
THEOREM TypeCorrect == Spec => []TypeOK
<1>1. ExactInv => TypeOK
  BY DEF ExactInv
<1> QED BY <1>1, InitExact, StepExact, PTL DEF Spec

\* Whatever a stored session misses, a replay that calls itself synchronised has the venue's book
\* of the update it applied last, unless the event behind the bridge was the one missing, which
\* reconcile does not test; and it has given the analytics the book it has.
THEOREM ReplaysAreExact == Spec => []ReplayIsExact
<1>1. ExactInv => ReplayIsExact
  BY DEF ExactInv, PlayersInv, PlayerInv, ReplayIsExact
<1> QED BY <1>1, InitExact, StepExact, PTL DEF Spec

-----------------------------------------------------------------------------
(* Commands. *)

TaskType == task \in [Tasks -> Phases] /\ halt \in BOOLEAN /\ late \in [Tasks -> Nat]

\* A halt in force is written, and no replay is left that would write over it.
HaltStands == halt => Halted(info) /\ Starting = {}

\* Nothing is late while no halt is in force.
RunningIsPunctual == ~halt => \A t \in Tasks : late[t] = 0

\* A replay about to play an event has played none since the halt.
AboutToPlay == \A t \in Tasks : task[t] = "play" => late[t] = 0

HInv == TaskType /\ PauseIsObeyed /\ HaltStands /\ RunningIsPunctual /\ AboutToPlay

LEMMA NoneLateIs ==
  /\ NoneLate \in [Tasks -> Nat]
  /\ \A t \in Tasks : NoneLate[t] = 0 /\ NoneLate[t] <= 1
BY DEF NoneLate

LEMMA InitHolds == ASSUME Init PROVE HInv
<1>1. task \in [Tasks -> Phases] /\ late = NoneLate
  BY DEF Init, FirstPhase, Programs, Phases
<1>2. ~halt /\ halt \in BOOLEAN
  BY DEF Init
<1> QED BY <1>1, <1>2, NoneLateIs
        DEF HInv, TaskType, PauseIsObeyed, HaltStands, RunningIsPunctual, AboutToPlay

\* A step behind which no halt is in force.
LEMMA NoHaltKeeps ==
  ASSUME task' \in [Tasks -> Phases], halt' \in BOOLEAN, ~halt', late' = NoneLate
  PROVE  HInv'
BY NoneLateIs DEF HInv, TaskType, PauseIsObeyed, HaltStands, RunningIsPunctual, AboutToPlay

\* A step that counts no event and moves no task to `play' keeps the invariant, if a halt that
\* stays, or comes, in force is written, and nobody starts.
LEMMA SameCountKeeps ==
  ASSUME HInv, UNCHANGED late, halt' \in BOOLEAN,
         halt \/ halt' => halt' /\ Halted(info') /\ Starting' = {},
         task' \in [Tasks -> Phases],
         \A t \in Tasks : task'[t] = "play" => task[t] = "play"
  PROVE  HInv'
BY DEF HInv, TaskType, PauseIsObeyed, HaltStands, RunningIsPunctual, AboutToPlay

\* So does a step that leaves the state of the controller and the ghosts alone, and starts nobody.
LEMMA SameInfoKeeps ==
  ASSUME HInv, UNCHANGED <<info, halt, late>>,
         task' \in [Tasks -> Phases], Starting' \subseteq Starting,
         \A t \in Tasks : task'[t] = "play" => task[t] = "play"
  PROVE  HInv'
BY DEF HInv, TaskType, PauseIsObeyed, HaltStands, RunningIsPunctual, AboutToPlay

StartingPhases == {"spawned", "queued", "begin", "loading"}

\* A task that goes from one phase to another keeps every other task where it is.
LEMMA GoesMoves ==
  ASSUME TaskType, NEW t \in Tasks, NEW from, NEW to \in Phases, Goes(t, from, to)
  PROVE  /\ task' \in [Tasks -> Phases]
         /\ to # "play" => \A u \in Tasks : task'[u] = "play" => task[u] = "play"
         /\ from \in StartingPhases \/ to \notin StartingPhases => Starting' \subseteq Starting
         /\ from \in StartingPhases => t \in Starting
BY DEF Goes, TaskType, Starting, StartingPhases

LEMMA StepHolds == ASSUME HInv, [Next]_vars PROVE HInv'
<1> USE DEF Phases, StartingPhases
<1>0. TaskType
  BY DEF HInv
<1>1. CASE EngineEvent
  <2>1. UNCHANGED <<task, info, halt, late>>
    BY <1>1 DEF EngineEvent
  <2> QED BY <1>0, <2>1, SameInfoKeeps DEF TaskType, Starting
<1>2. CASE EngineEnds
  <2>1. task' \in [Tasks -> Phases] /\ \A t \in Tasks : task'[t] = "play" => task[t] = "play"
    BY <1>0, <1>2 DEF EngineEnds, TaskType
  <2>2. Starting' \subseteq Starting
    BY <1>0, <1>2 DEF EngineEnds, TaskType, Starting
  <2>3. UNCHANGED <<info, halt, late>>
    BY <1>2 DEF EngineEnds
  <2> QED BY <2>1, <2>2, <2>3, SameInfoKeeps
<1>3. ASSUME NEW c \in Client, NEW command \in Commands, ClientSends(c, command)
      PROVE  HInv'
  <2>1. UNCHANGED <<task, info, halt, late>>
    BY <1>3 DEF ClientSends
  <2> QED BY <1>0, <2>1, SameInfoKeeps DEF TaskType, Starting
<1>4. ASSUME NEW c \in Client, ServeCommand(c)
      PROVE  HInv'
  <2> DEFINE command == client[c]
  <2>1. /\ info' = Commanded(info, command) /\ task' = task
        /\ halt' = (/\ Halted(Commanded(info, command))
                    /\ IF command \in {"Pause", "Stop"} THEN Starting = {} ELSE halt)
        /\ late' = IF halt' THEN late ELSE NoneLate
    BY <1>4 DEF ServeCommand, Halting
  <2> HIDE DEF command
  <2>2. task' \in [Tasks -> Phases] /\ Starting' = Starting /\ halt' \in BOOLEAN /\ halt \in BOOLEAN
    BY <1>0, <2>1 DEF TaskType, Starting
  <2>3. CASE ~halt'
    BY <2>1, <2>2, <2>3, NoHaltKeeps
  <2>4. CASE halt'
    <3>1. late' = late /\ Halted(info') /\ Starting' = {}
      <4>1. Halted(info') /\ (command \in {"Pause", "Stop"} => Starting = {})
              /\ (command \notin {"Pause", "Stop"} => halt)
        BY <2>1, <2>4
      <4> QED BY <2>1, <2>2, <2>4, <4>1 DEF HInv, HaltStands
    <3>2. \A t \in Tasks : task'[t] = "play" => task[t] = "play"
      BY <2>1
    <3> QED BY <2>2, <2>4, <3>1, <3>2, SameCountKeeps
  <2> QED BY <2>3, <2>4
<1>5. ASSUME NEW c \in Client, ServeLoad(c)
      PROVE  HInv'
  <2>1. task' \in [Tasks -> Phases]
    BY <1>0, <1>5 DEF ServeLoad, TaskType
  <2>2. halt' \in BOOLEAN /\ ~halt' /\ late' = NoneLate
    BY <1>5 DEF ServeLoad
  <2> QED BY <2>1, <2>2, NoHaltKeeps
<1>6. ASSUME NEW t \in Tasks, TaskStep(t)
      PROVE  HInv'
  \* A step that leaves the state of the controller and the ghosts alone.
  <2>1. ASSUME NEW from \in Phases, NEW to \in Phases, Goes(t, from, to),
               to # "play", from \in StartingPhases \/ to \notin StartingPhases,
               UNCHANGED <<info, halt, late>>
        PROVE  HInv'
    BY <1>0, <2>1, GoesMoves, SameInfoKeeps
  \* A replay that starts: no halt is in force.
  <2>2. ASSUME NEW from \in StartingPhases, NEW to \in Phases, Goes(t, from, to), to # "play",
               UNCHANGED <<halt, late>>
        PROVE  HInv'
    <3>1. t \in Starting /\ task' \in [Tasks -> Phases]
            /\ \A u \in Tasks : task'[u] = "play" => task[u] = "play"
      BY <1>0, <2>2, GoesMoves
    <3>2. ~halt
      BY <3>1 DEF HInv, HaltStands
    <3> QED BY <1>0, <2>2, <3>1, <3>2, SameCountKeeps DEF TaskType
  <2>3. CASE TaskQueues(t)
    BY <2>1, <2>3 DEF TaskQueues
  <2>4. CASE TaskEnters(t)
    BY <2>1, <2>4 DEF TaskEnters
  <2>5. CASE BeginLoad(t)
    BY <2>2, <2>5 DEF BeginLoad
  <2>6. CASE LoadFails(t)
    BY <2>2, <2>6 DEF LoadFails
  <2>7. CASE LoadSucceeds(t)
    BY <2>2, <2>7 DEF LoadSucceeds
  <2>8. CASE NextEvent(t)
    BY <2>1, <2>8 DEF NextEvent
  <2>9. CASE Completes(t)
    <3>1. /\ task' \in [Tasks -> Phases] /\ Starting' \subseteq Starting
          /\ \A u \in Tasks : task'[u] = "play" => task[u] = "play"
      BY <1>0, <2>9, GoesMoves DEF Completes
    <3>2. info' = "Completed" /\ halt' = halt /\ late' = late
      BY <2>9 DEF Completes
    <3>3. Halted(info')
      BY <3>2 DEF Halted
    <3>4. halt => Starting' = {}
      BY <3>1 DEF HInv, HaltStands
    <3> QED BY <1>0, <3>1, <3>2, <3>3, <3>4, SameCountKeeps DEF TaskType
  <2>10. CASE SeesRunning(t)
    <3>1. ~Halted(info) /\ UNCHANGED <<info, halt, late>>
      BY <2>10 DEF SeesRunning, Halted
    <3>2. task' \in [Tasks -> Phases]
      BY <1>0, <2>10, GoesMoves DEF SeesRunning
    <3>3. ~halt /\ late \in [Tasks -> Nat] /\ \A u \in Tasks : late[u] = 0
      BY <1>0, <3>1 DEF HInv, HaltStands, RunningIsPunctual, TaskType
    <3> QED BY <3>1, <3>2, <3>3
            DEF HInv, TaskType, PauseIsObeyed, HaltStands, RunningIsPunctual, AboutToPlay
  <2>11. CASE SeesStopped(t)
    BY <2>1, <2>11 DEF SeesStopped
  <2>12. CASE PlayEvent(t)
    <3>1. task[t] = "play" /\ task' = [task EXCEPT ![t] = "next"] /\ UNCHANGED <<info, halt>>
      BY <2>12 DEF PlayEvent, Goes
    <3>2. late[t] = 0
      BY <3>1 DEF HInv, AboutToPlay
    <3>3. /\ task' \in [Tasks -> Phases] /\ Starting' \subseteq Starting
          /\ \A u \in Tasks : task'[u] = "play" => task[u] = "play" /\ u # t
      <4>1. task' \in [Tasks -> Phases]
        BY <1>0, <3>1 DEF TaskType
      <4>2. \A u \in Tasks : task'[u] = IF u = t THEN "next" ELSE task[u]
        BY <1>0, <3>1 DEF TaskType
      <4> QED BY <4>1, <4>2 DEF Starting
    <3>4. CASE halt
      <4>1. late' = [late EXCEPT ![t] = 1]
        BY <1>0, <2>12, <3>2, <3>4 DEF PlayEvent, TaskType
      <4>2. /\ late' \in [Tasks -> Nat]
            /\ \A u \in Tasks : late'[u] <= 1 /\ (u # t => late'[u] = late[u])
        BY <1>0, <4>1 DEF HInv, TaskType, PauseIsObeyed
      <4>3. HaltStands'
        BY <3>1, <3>3 DEF HInv, HaltStands
      <4> QED BY <1>0, <3>1, <3>3, <3>4, <4>2, <4>3
              DEF HInv, TaskType, PauseIsObeyed, RunningIsPunctual, AboutToPlay
    <3>5. CASE ~halt
      BY <2>12, <3>1, <3>3, <3>5, SameInfoKeeps DEF PlayEvent
    <3> QED BY <3>4, <3>5
  <2> QED BY <1>6, <2>3, <2>4, <2>5, <2>6, <2>7, <2>8, <2>9, <2>10, <2>11, <2>12 DEF TaskStep
<1>7. CASE UNCHANGED vars
  BY <1>0, <1>7, SameInfoKeeps DEF vars, TaskType, Starting
<1> QED BY <1>1, <1>2, <1>3, <1>4, <1>5, <1>6, <1>7 DEF Next, ClientServed

\* From a pause or a stop that meets no replay still starting, to the Play or the Load that takes
\* it back, each replay of the controller plays at most the event it had already looked ahead of
\* (the loop at the top of run_events).
THEOREM PauseObeyed == Spec => []PauseIsObeyed
<1>1. Init => HInv
  BY InitHolds
<1>2. HInv /\ [Next]_vars => HInv'
  BY StepHolds
<1>3. HInv => PauseIsObeyed
  BY DEF HInv
<1> QED BY <1>1, <1>2, <1>3, PTL DEF Spec
=============================================================================
