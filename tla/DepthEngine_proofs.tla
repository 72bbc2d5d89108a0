------------------------- MODULE DepthEngine_proofs -------------------------
(***************************************************************************)
(* The depth engine, for every value of the constants: its types, whatever *)
(* faults occur; the inductive invariant of DepthEngineInv under benign    *)
(* faults, and so that a live book is the venue's book; that some task is  *)
(* always at work on a book that is being synchronized; that the engine    *)
(* implements DepthFeed; and that the shadow book follows the book.        *)
(***************************************************************************)
EXTENDS DepthEngineInv, ComponentTheorems

-----------------------------------------------------------------------------
(* Types. *)

LEMMA NewTaskType ==
  ASSUME NEW phase \in Phases, NEW kind \in {"initial", "resync"}
  PROVE  NewTask(phase, kind) \in Tasks
BY MaxIdNat, EngineAssumption DEF NewTask, Tasks

LEMMA SpawnType ==
  ASSUME TypeOK, NEW kind \in {"initial", "resync"}, Spawn(kind)
  PROVE  tasks' \in [Task -> Tasks]
BY NewTaskType DEF TypeOK, Spawn, Phases

LEMMA RetryType ==
  ASSUME TypeOK, NEW t \in Task, Retry(t)
  PROVE  tasks' \in [Task -> Tasks]
<1> DEFINE k == tasks[t]
<1>1. k \in Tasks
  BY DEF TypeOK
<1>2. k.attempt < MaxAttempts =>
        [NewTask("fetch", k.kind) EXCEPT !.attempt = k.attempt + 1] \in Tasks
  <2>1. NewTask("fetch", k.kind) \in Tasks
    BY <1>1, NewTaskType DEF Tasks, Phases
  <2>2. k.attempt < MaxAttempts => k.attempt + 1 \in 1..MaxAttempts
    BY <1>1, EngineAssumption DEF Tasks
  <2> QED
    BY <2>1, <2>2 DEF Tasks
<1>3. NewTask("gaveUp", "initial") \in Tasks
  BY NewTaskType DEF Phases
<1> QED
  BY <1>2, <1>3 DEF TypeOK, Retry

LEMMA HeadTailType ==
  ASSUME NEW S, NEW s \in Seq(S), s # <<>>
  PROVE  Head(s) \in S /\ Tail(s) \in Seq(S) /\ Head(s) = s[1]
BY HeadTailProperties

\* The message a branch of the main loop receives, and what is left of the channel.
LEMMA ReceiveType ==
  ASSUME TypeOK, NEW type, Receive(type)
  PROVE  /\ Head(wsq) \in WsMessages
         /\ wsq' \in Seq(WsMessages)
         /\ type = "DepthUpdate" => Head(wsq).update \in DepthUpdates
<1>1. Head(wsq) \in WsMessages /\ Tail(wsq) \in Seq(WsMessages)
  BY HeadTailType DEF TypeOK, Receive
<1>2. Head(wsq).type = type /\ wsq' = Tail(wsq)
  BY DEF Receive
<1>3. Head(wsq).type = "DepthUpdate" => Head(wsq).update \in DepthUpdates
  BY <1>1 DEF WsMessages
<1> QED
  BY <1>1, <1>2, <1>3

LEMMA SendType ==
  ASSUME TypeOK, NEW ev \in MarketEvents, Send(ev)
  PROVE  evq' \in Seq(MarketEvents)
BY AppendProperties DEF TypeOK, Send

LEMMA ShadowType ==
  ASSUME NEW s \in ShadowBooks, NEW ev \in MarketEvents
  PROVE  ProcessEvent(s, ev) \in ShadowBooks
<1> USE DEF ShadowBooks
<1>1. ev.type = "Snapshot" => ShadowSnapshot(ev.levels) \in ShadowBooks
  BY DEF MarketEvents, ShadowSnapshot
<1>2. ev.type = "Updated" => ShadowUpdate(s, ev.update) \in ShadowBooks
  BY OverwriteType DEF MarketEvents, ShadowUpdate
<1>3. SetReady(s, TRUE) \in ShadowBooks /\ SetReady(s, FALSE) \in ShadowBooks
  BY EmptyLevelsType DEF SetReady
<1> QED
  BY <1>1, <1>2, <1>3 DEF ProcessEvent

-----------------------------------------------------------------------------
(* Type correctness. *)

LEMMA InitType == Init => TypeOK
<1> SUFFICES ASSUME Init PROVE TypeOK
  OBVIOUS
<1>1. NewSynchronizer \in Synchronizers
  BY EmptySeq, MaxIdNat DEF NewSynchronizer, Synchronizers, SyncStates, NoUpdate
<1>2. NewBook \in Books /\ NewShadow \in ShadowBooks
  BY EmptyLevelsType, MaxIdNat DEF NewBook, Books, NewShadow, ShadowBooks
<1>3. NewTask("none", "initial") \in Tasks
  BY NewTaskType DEF Phases
<1> QED
  BY <1>1, <1>2, <1>3, EmptySeq, MaxIdNat, EngineAssumption DEF Init, TypeOK

\* The WebSocket task touches only its own variables.
LEMMA WebSocketType == TypeOK /\ WebSocketStep => TypeOK'
<1> SUFFICES ASSUME TypeOK, WebSocketStep PROVE TypeOK'
  OBVIOUS
<1>1. ASSUME wsq' \in Seq(WsMessages), published' \in Ids, connection' \in {"up", "down"},
             conns' \in 0..MaxConns, UNCHANGED engineVars
      PROVE  TypeOK'
  BY <1>1 DEF TypeOK, engineVars
<1>2. Connected \in WsMessages /\ Disconnected \in WsMessages
  BY DEF Connected, Disconnected, WsMessages
<1>3. CASE Connect
  <2>1. wsq' \in Seq(WsMessages)
    BY <1>2, <1>3, AppendProperties DEF Connect, TypeOK
  <2>2. conns' \in 0..MaxConns
    BY <1>3, EngineAssumption DEF Connect, TypeOK
  <2> QED
    BY <2>1, <2>2, <1>1, <1>3 DEF Connect, TypeOK
<1>4. CASE Publish
  <2>1. PICK n \in published + 1 .. MaxId, valid \in Parsing("badUpdate") :
               /\ published' = n
               /\ wsq' = Append(wsq, Depth(DepthUpdate(published, n, valid)))
    BY <1>4 DEF Publish
  <2>2. n \in 1..MaxId /\ published + 1 \in 1..MaxId /\ n \in Ids
    BY MaxIdNat, ExchangeAssumption DEF TypeOK, Ids
  <2>3. valid \in BOOLEAN
    BY DEF Parsing
  <2>4. Depth(DepthUpdate(published, n, valid)) \in WsMessages
    BY <2>2, <2>3 DEF Depth, DepthUpdate, WsMessages, DepthUpdates, TypeOK
  <2>5. wsq' \in Seq(WsMessages)
    BY <2>1, <2>4, AppendProperties DEF TypeOK
  <2> QED
    BY <2>1, <2>2, <2>5, <1>1, <1>4 DEF Publish, TypeOK
<1>5. CASE PublishUnseen
  <2>1. published' \in Ids
    BY <1>5, ExchangeAssumption DEF PublishUnseen, TypeOK, Ids
  <2> QED
    BY <2>1, <1>1, <1>5 DEF PublishUnseen, TypeOK
<1>6. CASE LoseConnection
  BY <1>1, <1>2, <1>6, AppendProperties DEF LoseConnection, TypeOK
<1>7. CASE CloseConnection
  BY <1>1, <1>2, <1>7, AppendProperties DEF CloseConnection, TypeOK
<1> QED
  BY <1>3, <1>4, <1>5, <1>6, <1>7 DEF WebSocketStep

LEMMA MainDepthType == TypeOK /\ MainDepthStep => TypeOK'
<1> SUFFICES ASSUME TypeOK, MainDepthStep PROVE TypeOK'
  OBVIOUS
<1> DEFINE e == Head(wsq).update
<1>1. CASE MainConnected
  <2>1. wsq' \in Seq(WsMessages)
    BY <1>1, ReceiveType DEF MainConnected
  <2>2. sync' \in Synchronizers
    <3>1. OnConnected(sync) \in Synchronizers
      BY EmptySeq, MaxIdNat DEF TypeOK, OnConnected, Synchronizers, SyncStates, NoUpdate
    <3> QED
      BY <3>1, <1>1 DEF MainConnected
  <2>3. tasks' \in [Task -> Tasks]
    BY <1>1, SpawnType DEF MainConnected
  <2> QED
    BY <2>1, <2>2, <2>3, <1>1 DEF MainConnected, TypeOK
<1>2. CASE MainDisconnected
  <2>1. wsq' \in Seq(WsMessages)
    BY <1>2, ReceiveType DEF MainDisconnected
  <2>2. sync' \in Synchronizers
    <3>1. sync.reconnectCount + 1 \in Nat
      BY DEF TypeOK, Synchronizers
    <3> QED
      BY <3>1, <1>2 DEF MainDisconnected, OnReconnecting, TypeOK, Synchronizers, SyncStates
  <2>3. book' \in Books
    BY <1>2 DEF MainDisconnected, SetInitialized, TypeOK, Books
  <2>4. evq' \in Seq(MarketEvents)
    BY <1>2, SendType DEF MainDisconnected, MarketEvents
  <2> QED
    BY <2>1, <2>2, <2>3, <2>4, <1>2 DEF MainDisconnected, TypeOK
<1>3. CASE MainBuffer
  <2>1. wsq' \in Seq(WsMessages) /\ e \in DepthUpdates
    BY <1>3, ReceiveType DEF MainBuffer
  <2>2. sync' \in Synchronizers
    BY <2>1, <1>3, SyncTypes DEF MainBuffer, TypeOK
  <2> QED
    BY <2>1, <2>2, <1>3 DEF MainBuffer, TypeOK
<1>4. CASE MainMismatch
  <2>1. wsq' \in Seq(WsMessages) /\ e \in DepthUpdates
    BY <1>4, ReceiveType DEF MainMismatch
  <2>2. sync' \in Synchronizers
    BY <2>1, <1>4, SyncTypes DEF MainMismatch, TypeOK
  <2>3. tasks' \in [Task -> Tasks]
    BY <1>4, SpawnType DEF MainMismatch
  <2>4. evq' \in Seq(MarketEvents)
    BY <1>4, SendType DEF MainMismatch, MarketEvents
  <2> QED
    BY <2>1, <2>2, <2>3, <2>4, <1>4 DEF MainMismatch, TypeOK
<1>5. CASE MainAccept
  <2>1. wsq' \in Seq(WsMessages) /\ e \in DepthUpdates
    BY <1>5, ReceiveType DEF MainAccept
  <2>2. sync' \in Synchronizers
    BY <2>1, <1>5, SyncTypes DEF MainAccept, TypeOK
  <2> QED
    BY <2>1, <2>2, <1>5 DEF MainAccept, TypeOK
<1>6. CASE MainApply
  <2>1. inflight \in DepthUpdates
    BY <1>6 DEF MainApply, TypeOK
  <2>2. book' \in Books
    BY <2>1, <1>6, BookTypes, MaxIdNat DEF MainApply, TypeOK
  <2> QED
    BY <2>1, <2>2, <1>6 DEF MainApply, TypeOK, wsVars
<1>7. CASE MainPublish
  <2>1. [type |-> "Updated", update |-> inflight] \in MarketEvents
    BY <1>7 DEF MainPublish, TypeOK, MarketEvents
  <2>2. evq' \in Seq(MarketEvents)
    BY <2>1, <1>7, SendType DEF MainPublish
  <2> QED
    BY <2>2, <1>7 DEF MainPublish, TypeOK, wsVars
<1> QED
  BY <1>1, <1>2, <1>3, <1>4, <1>5, <1>6, <1>7 DEF MainDepthStep

LEMMA MainOtherType == TypeOK /\ (MainMarketEvent \/ MainStop) => TypeOK'
<1> SUFFICES ASSUME TypeOK, MainMarketEvent \/ MainStop PROVE TypeOK'
  OBVIOUS
<1>1. CASE MainMarketEvent
  <2>1. Head(evq) \in MarketEvents /\ evq' \in Seq(MarketEvents)
    BY <1>1, HeadTailType DEF MainMarketEvent, TypeOK
  <2>2. shadow' \in ShadowBooks
    BY <2>1, <1>1, ShadowType DEF MainMarketEvent, TypeOK
  <2> QED
    BY <2>1, <2>2, <1>1 DEF MainMarketEvent, TypeOK, wsVars
<1>2. CASE MainStop
  <2>1. sync' \in Synchronizers
    BY <1>2 DEF MainStop, Shutdown, TypeOK, Synchronizers, SyncStates
  <2> QED
    BY <2>1, <1>2 DEF MainStop, TypeOK, wsVars
<1> QED
  BY <1>1, <1>2

LEMMA TaskType ==
  ASSUME TypeOK, NEW t \in Task, TaskStep(t)
  PROVE  TypeOK'
<1> DEFINE k == tasks[t]
<1>k. k \in Tasks
  BY DEF TypeOK
<1>s. TriggerResync(sync) \in Synchronizers /\ OnSnapshotLoading(sync) \in Synchronizers
  BY EmptySeq, MaxIdNat
  DEF TypeOK, TriggerResync, OnSnapshotLoading, Synchronizers, SyncStates, NoUpdate
<1>1. CASE TaskFetchFails(t)
  <2>1. tasks' \in [Task -> Tasks]
    BY <1>1, RetryType DEF TaskFetchFails
  <2> QED
    BY <2>1, <1>s, <1>1 DEF TaskFetchFails, TypeOK, wsVars
<1>2. CASE TaskFetched(t)
  <2>1. tasks' \in [Task -> Tasks]
    <3>1. PICK id \in Ids, parses \in Parsing("badSnapshot") :
            tasks' = [tasks EXCEPT ![t] = [@ EXCEPT !.phase = "apply", !.snap = id,
                                                    !.parses = parses]]
      BY <1>2 DEF TaskFetched
    <3>2. parses \in BOOLEAN
      BY DEF Parsing
    <3>3. [k EXCEPT !.phase = "apply", !.snap = id, !.parses = parses] \in Tasks
      BY <1>k, <3>2 DEF Tasks, Phases
    <3> QED
      BY <3>1, <3>3 DEF TypeOK
  <2> QED
    BY <2>1, <1>s, <1>2 DEF TaskFetched, TypeOK, wsVars
<1>3. CASE TaskApply(t)
  <2>1. [k EXCEPT !.phase = "reconcile"] \in Tasks /\ NewTask("gaveUp", "initial") \in Tasks
    BY <1>k, NewTaskType DEF Tasks, Phases
  <2>2. tasks' \in [Task -> Tasks]
    BY <2>1, <1>3 DEF TaskApply, TypeOK
  <2>3. /\ ApplySnapshot(BookAt[k.snap], k.snap) \in Books
        /\ FailedSnapshots(book, BookAt[k.snap]) \subseteq Books
    <3>1. k.snap \in Ids
      BY <1>k DEF Tasks
    <3>2. BookAt[k.snap] \in Quantities /\ book \in Books
      BY <3>1, BookAtType DEF TypeOK
    <3>3. FailedSnapshots(book, BookAt[k.snap]) \subseteq Books
      BY <3>2 DEF FailedSnapshots, Books, Quantities
    <3> QED
      BY <3>1, <3>2, <3>3 DEF ApplySnapshot, Books
  <2>4. book' \in Books
    BY <2>3, <1>3 DEF TaskApply
  <2> QED
    BY <2>2, <2>4, <1>3 DEF TaskApply, TypeOK, wsVars
<1>4. CASE TaskNoBridge(t)
  <2>1. tasks' \in [Task -> Tasks]
    BY <1>4, RetryType DEF TaskNoBridge
  <2> QED
    BY <2>1, <1>s, <1>4 DEF TaskNoBridge, TypeOK, wsVars
<1>5. CASE TaskReconcile(t)
  <2>0. PICK b \in DOMAIN sync.buffer : \E e \in b .. Len(sync.buffer) :
          /\ sync' = Reconciled(sync, e)
          /\ tasks' = [tasks EXCEPT ![t] = [@ EXCEPT !.phase = "drain",
                                                     !.pending = SubSeq(sync.buffer, b, e)]]
    BY <1>5 DEF TaskReconcile
  <2>1. PICK e \in b .. Len(sync.buffer) :
          /\ sync' = Reconciled(sync, e)
          /\ tasks' = [tasks EXCEPT ![t] = [@ EXCEPT !.phase = "drain",
                                                     !.pending = SubSeq(sync.buffer, b, e)]]
    BY <2>0
  <2>2. sync.buffer \in Seq(DepthUpdates)
    BY DEF TypeOK, Synchronizers
  <2>3. b \in 1..Len(sync.buffer) /\ e \in 1..Len(sync.buffer)
    BY <2>2, LenProperties
  <2>4. sync' \in Synchronizers
    <3>1. sync.buffer[e].final \in Ids
      BY <2>2, <2>3, ElementOfSeq, DepthUpdateType
    <3> QED
      BY <3>1, <2>1, EmptySeq DEF TypeOK, Reconciled, Synchronizers, SyncStates
  <2>5. SubSeq(sync.buffer, b, e) \in Seq(DepthUpdates)
    BY <2>2, <2>3, SubSeqProperties
  <2>6. [k EXCEPT !.phase = "drain", !.pending = SubSeq(sync.buffer, b, e)] \in Tasks
    BY <2>5, <1>k DEF Tasks, Phases
  <2>7. tasks' \in [Task -> Tasks]
    BY <2>1, <2>6 DEF TypeOK
  <2> QED
    BY <2>4, <2>7, <1>5 DEF TaskReconcile, TypeOK, wsVars
<1>6. CASE TaskDrain(t)
  <2> DEFINE e == Head(k.pending)
             left == Tail(k.pending)
  <2>1. e \in DepthUpdates /\ left \in Seq(DepthUpdates)
    BY <1>6, <1>k, HeadTailType DEF TaskDrain, Tasks
  <2>2. book' \in Books
    BY <2>1, <1>6, BookTypes, MaxIdNat DEF TaskDrain, TypeOK
  <2>3. /\ [k EXCEPT !.phase = "announce", !.pending = <<>>] \in Tasks
        /\ [k EXCEPT !.pending = left] \in Tasks
    BY <2>1, <1>k, EmptySeq DEF Tasks, Phases
  <2>4. tasks' \in [Task -> Tasks]
    BY <2>3, <1>6 DEF TaskDrain, TypeOK
  <2> QED
    BY <2>2, <2>4, <1>6 DEF TaskDrain, TypeOK, wsVars
<1>7. CASE TaskAnnounce(t)
  <2> DEFINE a1 == [type |-> "Snapshot", levels |-> book.levels]
             a2 == [type |-> IF k.kind = "initial" THEN "Synchronized" ELSE "ResyncCompleted"]
  <2>1. a1 \in MarketEvents /\ a2 \in MarketEvents
    BY DEF MarketEvents, TypeOK, Books
  <2>2. <<a1, a2>> \in Seq(MarketEvents)
    BY <2>1
  <2>3. evq' \in Seq(MarketEvents)
    BY <2>2, <1>7, ConcatProperties DEF TaskAnnounce, TypeOK
  <2>4. tasks' \in [Task -> Tasks]
    BY <1>7, NewTaskType DEF TaskAnnounce, TypeOK, Phases
  <2> QED
    BY <2>3, <2>4, <1>7 DEF TaskAnnounce, TypeOK, wsVars
<1> QED
  BY <1>1, <1>2, <1>3, <1>4, <1>5, <1>6, <1>7 DEF TaskStep

\* Every variable of the engine keeps its type.
THEOREM TypeCorrect == Spec => []TypeOK
<1>1. TypeOK /\ [Next]_vars => TypeOK'
  <2> SUFFICES ASSUME TypeOK, [Next]_vars PROVE TypeOK'
    OBVIOUS
  <2>1. CASE UNCHANGED vars
    BY <2>1 DEF vars, TypeOK
  <2>2. CASE Next
    BY <2>1, <2>2, WebSocketType, MainDepthType, MainOtherType, TaskType
    DEF Next, Terminated
  <2> QED
    BY <2>1, <2>2
<1> QED
  BY <1>1, InitType, PTL DEF Spec

-----------------------------------------------------------------------------
(* The inductive invariant. *)

\* Applying an event that starts at or before the book's id and ends at or after it.
LEMMA ApplyTrue ==
  ASSUME TypeOK, BookTrue, NEW e \in DepthUpdates, WellFormed(e),
         e.prev <= book.lastUpdateId, book.lastUpdateId <= e.final,
         book' \in AfterUpdate(book, e)
  PROVE  CanApply(book, e) /\ BookTrue' /\ book'.lastUpdateId = e.final
<1>1. book \in Books /\ book.lastUpdateId \in Ids
  BY DEF TypeOK, Books
<1>2. CanApply(book, e)
  BY DEF CanApply, BookTrue, WellFormed
<1>3. Overwrite(book.levels, Changes(e)) = BookAt[e.final]
  BY <1>1, OverwriteTrue DEF BookTrue
<1> QED
  BY <1>1, <1>2, <1>3 DEF AfterUpdate, ApplyDepthUpdate, BookTrue, Books

-----------------------------------------------------------------------------
(* Chains of events and of messages. *)

LEMMA ChainAppend ==
  ASSUME NEW s \in Seq(DepthUpdates), NEW e \in DepthUpdates, Chain(s), WellFormed(e),
         s # <<>> => Continues(s[Len(s)], e)
  PROVE  Chain(Append(s, e))
<1>1. Len(s) \in Nat /\ (s # <<>> => Len(s) >= 1)
  BY EmptySeq, LenProperties
<1> QED
  BY <1>1, AppendProperties DEF Chain

LEMMA ChainTail ==
  ASSUME NEW s \in Seq(DepthUpdates), s # <<>>, Chain(s)
  PROVE  /\ Chain(Tail(s))
         /\ Tail(s) = <<>> => s[Len(s)] = s[1]
         /\ Tail(s) # <<>> => Continues(s[1], Tail(s)[1]) /\ Tail(s)[Len(Tail(s))] = s[Len(s)]
<1>1. Len(s) \in Nat /\ Len(s) >= 1 /\ Len(Tail(s)) = Len(s) - 1
  BY EmptySeq, LenProperties, HeadTailProperties
<1>2. Tail(s) # <<>> => Len(Tail(s)) >= 1
  BY EmptySeq, HeadTailProperties
<1>3. Tail(s) = <<>> => Len(s) = 1
  <2> DEFINE r == Tail(s)
  <2>1. r \in Seq(DepthUpdates) /\ Len(r) = Len(s) - 1
    BY HeadTailProperties
  <2> HIDE DEF r
  <2>2. r = <<>> => Len(r) = 0
    BY <2>1, EmptySeq
  <2>3. r = <<>> => Len(s) = 1
    BY <2>1, <2>2, <1>1
  <2> QED
    BY <2>3 DEF r
<1> QED
  BY <1>1, <1>2, <1>3, HeadTailProperties DEF Chain

LEMMA ChainSubSeq ==
  ASSUME NEW s \in Seq(DepthUpdates), Chain(s), NEW b \in 1..Len(s), NEW e \in b..Len(s)
  PROVE  /\ Chain(SubSeq(s, b, e))
         /\ SubSeq(s, b, e) # <<>>
         /\ Len(SubSeq(s, b, e)) = e - b + 1
         /\ SubSeq(s, b, e)[1] = s[b]
         /\ SubSeq(s, b, e)[e - b + 1] = s[e]
<1>1. Len(s) \in Nat /\ b \in Int /\ e \in Int /\ b <= e
  BY LenProperties
<1>2. \A i \in b..e : s[i] \in DepthUpdates
  BY <1>1, ElementOfSeq
<1>3. /\ Len(SubSeq(s, b, e)) = e - b + 1
      /\ \A i \in 1 .. e - b + 1 : SubSeq(s, b, e)[i] = s[b + i - 1]
      /\ SubSeq(s, b, e) \in Seq(DepthUpdates)
  BY <1>1, <1>2, SubSeqProperties
<1>4. SubSeq(s, b, e) # <<>>
  BY <1>1, <1>3, EmptySeq
<1>5. Chain(SubSeq(s, b, e))
  <2> DEFINE t == SubSeq(s, b, e)
  <2>1. Len(t) = e - b + 1 /\ \A i \in 1 .. e - b + 1 : t[i] = s[b + i - 1]
    BY <1>3
  <2> HIDE DEF t
  <2>2. ASSUME NEW i \in 1..Len(t)
        PROVE  WellFormed(t[i])
    <3>1. b + i - 1 \in 1..Len(s) /\ t[i] = s[b + i - 1]
      BY <1>1, <2>1
    <3> QED BY <3>1 DEF Chain
  <2>3. ASSUME NEW i \in 1..Len(t) - 1
        PROVE  Continues(t[i], t[i + 1])
    <3>1. /\ b + i - 1 \in 1..Len(s) - 1
          /\ t[i] = s[b + i - 1] /\ t[i + 1] = s[(b + i - 1) + 1]
      BY <1>1, <2>1
    <3>2. Continues(s[b + i - 1], s[(b + i - 1) + 1])
      BY <3>1 DEF Chain
    <3> QED BY <3>1, <3>2
  <2>4. Chain(t)
    BY <2>2, <2>3 DEF Chain
  <2> QED BY <2>4 DEF t
<1> QED
  BY <1>1, <1>3, <1>4, <1>5

LEMMA LinkedAppend ==
  ASSUME NEW q \in Seq(WsMessages), NEW m \in WsMessages, Linked(q),
         m.type = "DepthUpdate" => WellFormed(m.update),
         q # <<>> => Follows(q[Len(q)], m)
  PROVE  Linked(Append(q, m))
<1> DEFINE a == Append(q, m)
<1>1. Len(q) \in Nat /\ (q # <<>> => Len(q) >= 1) /\ (Len(q) >= 1 => q # <<>>)
  BY EmptySeq, LenProperties
<1>2. /\ Len(a) = Len(q) + 1
      /\ \A i \in 1..Len(q) : a[i] = q[i]
      /\ a[Len(q) + 1] = m
  BY AppendProperties
<1> HIDE DEF a
<1>3. ASSUME NEW i \in 1..Len(a), a[i].type = "DepthUpdate"
      PROVE  WellFormed(a[i].update)
  BY <1>1, <1>2, <1>3 DEF Linked
<1>4. ASSUME NEW i \in 1..Len(a) - 1
      PROVE  Follows(a[i], a[i + 1])
  <2>1. CASE i = Len(q)
    BY <2>1, <1>1, <1>2, <1>4
  <2>2. CASE i \in 1..Len(q) - 1
    BY <2>2, <1>1, <1>2 DEF Linked
  <2> QED
    BY <2>1, <2>2, <1>1, <1>2
<1> QED
  BY <1>3, <1>4 DEF Linked, a

\* What is left of the channel after its first message is received.
LEMMA LinkedTail ==
  ASSUME NEW q \in Seq(WsMessages), q # <<>>, Linked(q)
  PROVE  /\ Linked(Tail(q))
         /\ q[1].type = "DepthUpdate" => WellFormed(q[1].update)
         /\ Head(q) = q[1]
         /\ Tail(q) = <<>> => q[Len(q)] = q[1]
         /\ Tail(q) # <<>> => Follows(q[1], Tail(q)[1]) /\ Tail(q)[Len(Tail(q))] = q[Len(q)]
<1>1. Len(q) \in Nat /\ Len(q) >= 1 /\ Len(Tail(q)) = Len(q) - 1
  BY EmptySeq, LenProperties, HeadTailProperties
<1>2. Tail(q) # <<>> => Len(Tail(q)) >= 1
  BY EmptySeq, HeadTailProperties
<1>3. Tail(q) = <<>> => Len(q) = 1
  BY <1>1, EmptySeq, SMTT(30)
<1> QED
  BY <1>1, <1>2, <1>3, HeadTailProperties DEF Linked

-----------------------------------------------------------------------------
(* Initially. *)

LEMMA InitInv == Init => IInv
<1> SUFFICES ASSUME Init PROVE IInv
  OBVIOUS
<1>1. TypeOK
  BY InitType
<1>2. /\ \A t \in Task : tasks[t].phase = "none"
      /\ sync.state = "Connecting" /\ sync.buffer = <<>>
  BY DEF Init, NewTask, NewSynchronizer
<1>3. OneTask /\ PhaseInv /\ PcInv /\ ReadyInv /\ InflightInv /\ ReconcileInv /\ DrainInv
  BY <1>2 DEF Init, OneTask, PhaseInv, PcInv, ReadyInv, InflightInv, ReconcileInv, DrainInv,
              Active
<1>4. Len(wsq) = 0 /\ Len(sync.buffer) = 0
  BY <1>2, EmptySeq DEF Init
<1>5. ChannelInv /\ LastInv /\ HeadInv /\ BufferInv
  BY <1>2, <1>4 DEF Init, ChannelInv, Linked, LastInv, HeadInv, BufferInv, Chain, NotConnected
<1> QED
  BY <1>1, <1>3, <1>5 DEF IInv

-----------------------------------------------------------------------------
(* The WebSocket task: it extends the channel, and leaves the engine alone. *)

EngineInv == /\ OneTask /\ PhaseInv /\ PcInv
             /\ ReadyInv /\ InflightInv /\ ReconcileInv /\ DrainInv

LEMMA EngineFrame == IInv /\ UNCHANGED engineVars => EngineInv'
BY DEF IInv, EngineInv, engineVars, OneTask, PhaseInv, PcInv, ReadyInv, InflightInv,
       ReconcileInv, DrainInv, Active, BookHeld, BookTrue, BookTrueAt

LEMMA WebSocketInv ==
  ASSUME IInv, Benign, WebSocketStep
  PROVE  IInv'
<1> USE DEF IInv
<1>1. TypeOK'
  BY WebSocketType
<1>2. UNCHANGED engineVars
  BY DEF WebSocketStep, Connect, Publish, PublishUnseen, LoseConnection, CloseConnection
<1>3. EngineInv'
  BY <1>2, EngineFrame
<1>4. wsq \in Seq(WsMessages) /\ Len(wsq) \in Nat /\ (wsq # <<>> => Len(wsq) >= 1)
  BY EmptySeq, LenProperties DEF TypeOK
<1>5. sync' = sync /\ pc' = pc
  BY <1>2 DEF engineVars
<1>6. Connected \in WsMessages /\ Disconnected \in WsMessages
  BY DEF Connected, Disconnected, WsMessages
\* One message m is appended to the channel.
<1>7. ASSUME NEW m \in WsMessages, wsq' = Append(wsq, m)
      PROVE  /\ wsq' # <<>> /\ wsq'[Len(wsq')] = m
             /\ wsq # <<>> => wsq'[1] = wsq[1]
             /\ wsq = <<>> => wsq'[1] = m
  BY <1>4, <1>7, AppendProperties, EmptySeq
<1>8. CASE Connect
  <2>1. wsq' = Append(wsq, Connected) /\ connection' = "up" /\ connection = "down"
    BY <1>8 DEF Connect
  <2>2. wsq # <<>> => wsq[Len(wsq)].type = "Disconnected"
    BY <2>1 DEF LastInv
  <2>3. ChannelInv'
    BY <2>1, <2>2, <1>4, <1>6, LinkedAppend DEF ChannelInv, Connected, Follows
  <2>4. LastInv'
    BY <2>1, <1>6, <1>7 DEF LastInv, Connected
  <2>5. HeadInv'
    BY <2>1, <1>5, <1>6, <1>7 DEF HeadInv, NotConnected
  <2>6. BufferInv'
    BY <2>1, <1>5, <1>6, <1>7 DEF BufferInv, Connected
  <2> QED
    BY <1>1, <1>3, <2>3, <2>4, <2>5, <2>6 DEF EngineInv
<1>9. CASE Publish
  <2>1. PICK n \in published + 1 .. MaxId, valid \in Parsing("badUpdate") :
               /\ published' = n
               /\ wsq' = Append(wsq, Depth(DepthUpdate(published, n, valid)))
    BY <1>9 DEF Publish
  <2>2. valid = TRUE
    BY DEF Parsing, Benign
  <2> DEFINE e == DepthUpdate(published, n, valid)
             m == Depth(e)
  <2>3. published \in Nat /\ n \in Nat /\ published < n /\ n <= MaxId /\ MaxId \in Nat
    BY MaxIdNat, ExchangeAssumption DEF TypeOK, Ids
  <2>4. e \in DepthUpdates
    BY <2>2, <2>3 DEF DepthUpdate, DepthUpdates, Ids
  <2>5. m \in WsMessages /\ m.type = "DepthUpdate" /\ m.update = e
    BY <2>4 DEF Depth, WsMessages
  <2>6. WellFormed(e) /\ e.prev = published /\ e.final = n
    BY <2>2, <2>3 DEF DepthUpdate, WellFormed
  <2> HIDE DEF e, m
  <2>7. wsq # <<>> => Follows(wsq[Len(wsq)], m)
    <3>1. connection = "up"
      BY <1>9 DEF Publish
    <3>2. ASSUME wsq # <<>>
          PROVE  wsq[Len(wsq)] \in WsMessages
      BY <3>2, <1>4, ElementOfSeq
    <3> QED
      BY <3>1, <3>2, <2>5, <2>6 DEF LastInv, Follows, Continues, WsMessages
  <2>8. wsq' = Append(wsq, m)
    BY <2>1 DEF m, e
  <2>9. ChannelInv'
    BY <2>5, <2>6, <2>7, <2>8, <1>4, LinkedAppend DEF ChannelInv
  <2>10. connection = "up" /\ connection' = "up"
    BY <1>9 DEF Publish
  <2>11. LastInv'
    BY <2>1, <2>5, <2>6, <2>8, <2>10, <1>7 DEF LastInv
  <2>12. HeadInv'
    BY <2>5, <2>8, <2>10, <1>5, <1>7 DEF HeadInv, NotConnected
  <2>13. BufferInv'
    BY <2>5, <2>6, <2>8, <1>5, <1>7 DEF BufferInv, Continues
  <2> QED
    BY <1>1, <1>3, <2>9, <2>11, <2>12, <2>13 DEF EngineInv
<1>10. CASE PublishUnseen
  <2>1. wsq' = wsq /\ connection' = connection
    BY <1>10 DEF PublishUnseen
  <2>2. connection = "down" \/ (sync.state = "Ready" /\ wsq = <<>>)
    BY <1>10 DEF PublishUnseen, Benign
  <2>3. ChannelInv' /\ HeadInv'
    BY <2>1, <1>5 DEF ChannelInv, HeadInv, NotConnected
  <2>4. LastInv'
    BY <2>1, <2>2 DEF LastInv
  <2>5. BufferInv'
    BY <2>1, <2>2, <1>5 DEF BufferInv, HeadInv, NotConnected
  <2> QED
    BY <1>1, <1>3, <2>3, <2>4, <2>5 DEF EngineInv
\* Disconnected goes to the end of the channel, once or twice.
<1>11. ASSUME NEW q \in Seq(WsMessages), Linked(q)
       PROVE  Linked(Append(q, Disconnected))
  BY <1>6, <1>11, LinkedAppend DEF Disconnected, Follows
<1>12. CASE LoseConnection
  <2>1. wsq' = Append(wsq, Disconnected) /\ connection' = "down" /\ connection = "up"
    BY <1>12 DEF LoseConnection
  <2>2. ChannelInv'
    BY <2>1, <1>4, <1>11 DEF ChannelInv
  <2>3. LastInv' /\ HeadInv' /\ BufferInv'
    <3>1. /\ wsq' # <<>> /\ wsq'[Len(wsq')] = Disconnected
          /\ wsq # <<>> => wsq'[1] = wsq[1]
          /\ wsq = <<>> => wsq'[1] = Disconnected
      BY <2>1, <1>6, <1>7
    <3>2. Disconnected.type = "Disconnected"
      BY DEF Disconnected
    <3> QED
      BY <3>1, <3>2, <2>1, <1>5 DEF LastInv, HeadInv, BufferInv, NotConnected
  <2> QED
    BY <1>1, <1>3, <2>2, <2>3 DEF EngineInv
<1>13. CASE CloseConnection
  <2> DEFINE q == Append(wsq, Disconnected)
  <2>1. wsq' = Append(q, Disconnected) /\ connection' = "down" /\ connection = "up"
    BY <1>13 DEF CloseConnection
  <2>2. q \in Seq(WsMessages) /\ Linked(q)
    BY <1>4, <1>6, <1>11, AppendProperties DEF ChannelInv
  <2>3. ChannelInv'
    BY <2>1, <2>2, <1>11 DEF ChannelInv
  <2>4. /\ Len(q) = Len(wsq) + 1 /\ Len(wsq) \in Nat
        /\ wsq # <<>> => q[1] = wsq[1]
        /\ wsq = <<>> => q[1] = Disconnected
    BY <1>4, <1>6, AppendProperties, EmptySeq
  <2> HIDE DEF q
  <2>5. /\ wsq' # <<>> /\ wsq'[Len(wsq')] = Disconnected
        /\ wsq'[1] = q[1]
    BY <2>1, <2>2, <2>4, <1>6, AppendProperties
  <2>6. Disconnected.type = "Disconnected"
    BY DEF Disconnected
  <2>7. LastInv' /\ HeadInv' /\ BufferInv'
    BY <2>1, <2>4, <2>5, <2>6, <1>5 DEF LastInv, HeadInv, BufferInv, NotConnected
  <2> QED
    BY <1>1, <1>3, <2>3, <2>7 DEF EngineInv
<1> QED
  BY <1>8, <1>9, <1>10, <1>12, <1>13 DEF WebSocketStep

-----------------------------------------------------------------------------
(* The main loop. *)

\* Facts about any message the main loop receives.
LEMMA ReceiveInv ==
  ASSUME IInv, NEW type, Receive(type)
  PROVE  /\ pc = "idle" /\ ~SyncHeld /\ ~BookHeld
         /\ wsq # <<>> /\ wsq[1].type = type /\ Head(wsq) = wsq[1]
         /\ wsq' = Tail(wsq) /\ wsq' \in Seq(WsMessages)
         /\ type = "DepthUpdate" => wsq[1].update \in DepthUpdates /\ WellFormed(wsq[1].update)
         /\ ChannelInv'
         /\ wsq' # <<>> => Follows(wsq[1], wsq'[1])
         /\ UNCHANGED <<published, connection>> => LastInv'
<1> USE DEF IInv
<1>1. wsq \in Seq(WsMessages) /\ wsq # <<>> /\ Linked(wsq) /\ wsq' = Tail(wsq)
  BY DEF Receive, TypeOK, ChannelInv
<1>2. /\ Linked(Tail(wsq))
      /\ wsq[1].type = "DepthUpdate" => WellFormed(wsq[1].update)
      /\ Head(wsq) = wsq[1]
      /\ Tail(wsq) # <<>> => Follows(wsq[1], Tail(wsq)[1])
                             /\ Tail(wsq)[Len(Tail(wsq))] = wsq[Len(wsq)]
  BY <1>1, LinkedTail
<1>3. pc = "idle" /\ ~SyncHeld /\ ~BookHeld
  BY DEF Receive, SyncHeld, BookHeld
<1>4. wsq[1].type = type /\ (type = "DepthUpdate" => wsq[1].update \in DepthUpdates)
  BY <1>2, ReceiveType DEF Receive
<1>5. ChannelInv'
  BY <1>1, <1>2 DEF ChannelInv
<1>6. UNCHANGED <<published, connection>> => LastInv'
  BY <1>1, <1>2 DEF LastInv
<1>7. wsq' \in Seq(WsMessages)
  BY ReceiveType
<1> QED
  BY <1>1, <1>2, <1>3, <1>4, <1>5, <1>6, <1>7

\* A task that is spawned is the only one.
LEMMA SpawnInv ==
  ASSUME TypeOK, NoTask, NEW kind, Spawn(kind)
  PROVE  \E t \in Task : /\ tasks'[t].phase = "fetch"
                         /\ \A u \in Task \ {t} : tasks'[u] = tasks[u] /\ ~Active(u)
<1>1. PICK t \in Task : tasks' = [tasks EXCEPT ![t] = NewTask("fetch", kind)]
  BY DEF Spawn
<1>2. tasks'[t].phase = "fetch"
  BY <1>1 DEF TypeOK, NewTask
<1>3. \A u \in Task \ {t} : tasks'[u] = tasks[u] /\ ~Active(u)
  BY <1>1 DEF TypeOK, NoTask
<1> QED
  BY <1>2, <1>3

\* The parts about tasks, after the main loop spawned one in state Buffering.
LEMMA SpawnedInv ==
  ASSUME IInv, NoTask, NEW kind, Spawn(kind), sync'.state = "Buffering", pc' = "idle"
  PROVE  EngineInv'
<1>1. PICK t \in Task : /\ tasks'[t].phase = "fetch"
                       /\ \A u \in Task \ {t} : tasks'[u] = tasks[u] /\ ~Active(u)
  BY SpawnInv DEF IInv
<1>2. \A u \in Task : u # t => tasks'[u].phase \in {"none", "gaveUp"}
  BY <1>1 DEF Active
<1>3. OneTask' /\ PhaseInv' /\ PcInv'
  BY <1>1, <1>2 DEF OneTask, PhaseInv, PcInv, Active
<1>4. ReadyInv' /\ InflightInv' /\ ReconcileInv' /\ DrainInv'
  BY <1>1, <1>2 DEF ReadyInv, InflightInv, ReconcileInv, DrainInv
<1> QED
  BY <1>3, <1>4 DEF EngineInv

\* In these states no task is running.
LEMMA QuietStates ==
  ASSUME IInv, ~SyncHeld, NotConnected \/ sync.state = "Ready"
  PROVE  NoTask
<1> SUFFICES ASSUME NEW t \in Task, Active(t) PROVE FALSE
  BY DEF NoTask
<1>1. tasks[t].phase \in {"fetch", "apply", "reconcile"}
  BY DEF Active, SyncHeld, IInv, TypeOK, Tasks, Phases
<1> QED
  BY <1>1 DEF IInv, PhaseInv, NotConnected

LEMMA MainDepthInv ==
  ASSUME IInv, Benign, MainDepthStep
  PROVE  IInv'
<1> USE DEF IInv
<1>0. TypeOK'
  BY MainDepthType
<1> DEFINE e == wsq[1].update
<1>1. CASE MainConnected
  <2>1. Receive("Connected") /\ sync' = OnConnected(sync) /\ Spawn("initial") /\ pc' = pc
        /\ UNCHANGED <<published, connection>>
    BY <1>1 DEF MainConnected
  <2>2. /\ pc = "idle" /\ ~SyncHeld /\ wsq # <<>> /\ wsq[1].type = "Connected"
        /\ ChannelInv' /\ LastInv'
        /\ wsq' # <<>> => Follows(wsq[1], wsq'[1])
    BY <2>1, ReceiveInv
  <2>3. NotConnected /\ NoTask
    BY <2>2, QuietStates DEF HeadInv
  <2>4. sync'.state = "Buffering" /\ sync'.buffer = <<>>
    BY <2>1 DEF OnConnected, TypeOK, Synchronizers
  <2>5. EngineInv'
    BY <2>1, <2>2, <2>3, <2>4, SpawnedInv
  <2>6. HeadInv'
    <3>1. wsq' = <<>> => connection' = "up"
      <4>1. wsq \in Seq(WsMessages) /\ wsq' = Tail(wsq)
        BY <2>1 DEF TypeOK, Receive
      <4>2. wsq' = <<>> => wsq[Len(wsq)] = wsq[1]
        BY <4>1, <2>2, LinkedTail DEF ChannelInv
      <4> QED
        BY <4>2, <2>1, <2>2 DEF LastInv, TypeOK
    <3>2. wsq' # <<>> => wsq'[1].type # "Connected"
      BY <2>2 DEF Follows
    <3> QED
      BY <3>1, <3>2, <2>1 DEF HeadInv, TypeOK
  <2>7. BufferInv'
    BY <2>4, EmptySeq DEF BufferInv, Chain
  <2> QED
    BY <1>0, <2>2, <2>5, <2>6, <2>7 DEF EngineInv
<1>2. CASE MainDisconnected
  <2>1. /\ Receive("Disconnected") /\ NoTask /\ sync' = OnReconnecting(sync)
        /\ book' = SetInitialized(book, FALSE)
        /\ UNCHANGED <<published, connection, pc, inflight, tasks>>
    BY <1>2 DEF MainDisconnected, Benign
  <2>2. pc = "idle" /\ ChannelInv' /\ LastInv'
    BY <2>1, ReceiveInv
  <2>3. sync'.state = "Reconnecting" /\ sync'.buffer = sync.buffer
    BY <2>1 DEF OnReconnecting, TypeOK, Synchronizers
  <2>4. \A t \in Task : tasks'[t].phase \in {"none", "gaveUp"}
    BY <2>1 DEF NoTask, Active
  <2>5. EngineInv'
    BY <2>1, <2>2, <2>3, <2>4
    DEF EngineInv, OneTask, PhaseInv, PcInv, ReadyInv, InflightInv, ReconcileInv, DrainInv, Active
  <2>6. HeadInv'
    BY <2>3 DEF HeadInv, NotConnected
  <2>7. BufferInv'
    BY <2>3 DEF BufferInv
  <2> QED
    BY <1>0, <2>2, <2>5, <2>6, <2>7 DEF EngineInv
\* What a depth event leaves at the head of the channel.
<1>3. ASSUME Receive("DepthUpdate"), UNCHANGED <<published, connection>>,
             pc' # "stopped"
      PROVE  /\ wsq' = <<>> => connection' = "up" /\ published' = e.final
             /\ wsq' # <<>> /\ wsq'[1].type = "DepthUpdate" => Continues(e, wsq'[1].update)
             /\ HeadInv'
  <2>1. /\ wsq # <<>> /\ wsq[1].type = "DepthUpdate" /\ wsq' = Tail(wsq)
        /\ wsq' # <<>> => Follows(wsq[1], wsq'[1])
    BY <1>3, ReceiveInv
  <2>2. wsq' = <<>> => wsq[Len(wsq)] = wsq[1]
    BY <2>1, LinkedTail DEF TypeOK, ChannelInv
  <2>3. wsq' = <<>> => connection' = "up" /\ published' = e.final
    BY <2>1, <2>2, <1>3 DEF LastInv, TypeOK
  <2>4. wsq' # <<>> => wsq'[1].type # "Connected"
    BY <2>1 DEF Follows
  <2>5. wsq' # <<>> /\ wsq'[1].type = "DepthUpdate" => Continues(e, wsq'[1].update)
    BY <2>1 DEF Follows
  <2>6. HeadInv'
    BY <2>3, <2>4 DEF HeadInv
  <2> QED
    BY <2>3, <2>5, <2>6
<1>4. CASE MainBuffer
  <2>1. /\ Receive("DepthUpdate") /\ sync' = BufferEvent(sync, e)
        /\ UNCHANGED <<published, connection, book, pc, inflight, tasks>>
        /\ sync.state # "Ready"
    BY <1>4, ReceiveInv DEF MainBuffer
  <2>2. /\ pc = "idle" /\ ChannelInv' /\ LastInv' /\ wsq # <<>> /\ wsq[1].type = "DepthUpdate"
        /\ e \in DepthUpdates /\ WellFormed(e)
    BY <2>1, ReceiveInv
  <2>3. sync'.state = sync.state /\ sync'.lastAppliedU = sync.lastAppliedU
    BY <2>1 DEF BufferEvent, TypeOK, Synchronizers
  <2>4. EngineInv'
    BY <2>1, <2>2, <2>3
    DEF EngineInv, OneTask, PhaseInv, PcInv, ReadyInv, InflightInv, ReconcileInv, DrainInv, Active,
        BookTrue, BookTrueAt
  <2>5. BufferInv'
    <3> DEFINE s == sync.buffer
    <3>1. s \in Seq(DepthUpdates) /\ Chain(s)
      BY DEF TypeOK, Synchronizers, BufferInv
    <3>2. CASE sync.state # "Buffering"
      BY <3>2, <2>1 DEF BufferEvent, BufferInv
    <3>3. CASE sync.state = "Buffering"
      <4>1. sync'.buffer = Append(s, e)
        BY <3>3, <2>1 DEF BufferEvent, TypeOK, Synchronizers
      <4>2. s # <<>> => Continues(s[Len(s)], e)
        BY <3>3, <2>2 DEF BufferInv
      <4>3. Chain(sync'.buffer)
        BY <4>1, <4>2, <3>1, <2>2, ChainAppend
      <4>4. sync'.buffer[Len(sync'.buffer)] = e
        BY <4>1, <3>1, <2>2, AppendProperties
      <4>5. /\ wsq' = <<>> => published' = e.final
            /\ wsq' # <<>> /\ wsq'[1].type = "DepthUpdate" => Continues(e, wsq'[1].update)
        BY <1>3, <2>1, <2>2
      <4> QED
        BY <4>3, <4>4, <4>5 DEF BufferInv
    <3> QED
      BY <3>2, <3>3
  <2>6. HeadInv'
    BY <1>3, <2>1, <2>2
  <2> QED
    BY <1>0, <2>2, <2>4, <2>5, <2>6 DEF EngineInv
<1>5. CASE MainMismatch
  <2>1. /\ Receive("DepthUpdate") /\ sync' = TriggerResync(sync) /\ sync.state = "Ready"
        /\ Spawn("resync") /\ UNCHANGED <<published, connection, book, pc, inflight>>
    BY <1>5 DEF MainMismatch
  <2>2. pc = "idle" /\ ChannelInv' /\ LastInv' /\ ~SyncHeld
    BY <2>1, ReceiveInv
  <2>3. NoTask
    BY <2>1, <2>2, QuietStates
  <2>4. sync'.state = "Buffering" /\ sync'.buffer = <<>>
    BY <2>1 DEF TriggerResync, TypeOK, Synchronizers
  <2>5. EngineInv'
    BY <2>1, <2>2, <2>3, <2>4, SpawnedInv
  <2>6. HeadInv'
    BY <1>3, <2>1, <2>2
  <2>7. BufferInv'
    BY <2>4, EmptySeq DEF BufferInv, Chain
  <2> QED
    BY <1>0, <2>2, <2>5, <2>6, <2>7 DEF EngineInv
<1>6. CASE MainAccept
  <2>1. /\ Receive("DepthUpdate") /\ sync.state = "Ready" /\ sync' = AcceptLive(sync, e)
        /\ ~PuMismatch(sync, e) /\ inflight' = e /\ pc' = "apply"
        /\ UNCHANGED <<published, connection, book, tasks>>
    BY <1>6, ReceiveInv DEF MainAccept
  <2>2. /\ pc = "idle" /\ ChannelInv' /\ LastInv' /\ ~SyncHeld /\ ~BookHeld
        /\ e \in DepthUpdates /\ WellFormed(e)
    BY <2>1, ReceiveInv
  <2>3. NoTask
    BY <2>1, <2>2, QuietStates
  <2>4. BookTrueAt(sync.lastAppliedU) /\ e.prev = sync.lastAppliedU
    BY <2>1, <2>2 DEF ReadyInv, PuMismatch
  <2>5. sync'.state = "Ready" /\ sync'.lastAppliedU = e.final /\ sync'.buffer = sync.buffer
    BY <2>1 DEF AcceptLive, TypeOK, Synchronizers
  <2>6. \A t \in Task : tasks'[t].phase \in {"none", "gaveUp"}
    BY <2>1, <2>3 DEF NoTask, Active
  <2>7. e.final # NoUpdate
    BY <2>2, DepthUpdateType DEF NoUpdate
  <2>8. InflightInv'
    BY <2>1, <2>2, <2>4, <2>5 DEF InflightInv, BookTrueAt, BookTrue
  <2>9. EngineInv'
    BY <2>1, <2>5, <2>6, <2>7, <2>8
    DEF EngineInv, OneTask, PhaseInv, PcInv, ReadyInv, ReconcileInv, DrainInv, Active
  <2>10. HeadInv'
    BY <1>3, <2>1, <2>2
  <2>11. BufferInv'
    BY <2>5 DEF BufferInv
  <2> QED
    BY <1>0, <2>2, <2>9, <2>10, <2>11 DEF EngineInv
\* The two steps in which the main loop holds an accepted event.
<1>7. ASSUME pc \in {"apply", "publish"}
      PROVE  \A t \in Task : tasks[t].phase \in {"none", "gaveUp"}
  BY <1>7 DEF PhaseInv, Active
<1>8. ASSUME UNCHANGED <<wsVars, sync, tasks>>, pc # "stopped"
      PROVE  ChannelInv' /\ LastInv' /\ HeadInv' /\ BufferInv'
  BY <1>8 DEF wsVars, ChannelInv, LastInv, HeadInv, BufferInv, NotConnected
<1>9. CASE MainApply
  <2>1. /\ pc = "apply" /\ book' \in AfterUpdate(book, inflight)
        /\ UNCHANGED <<wsVars, sync, tasks>>
    BY <1>9 DEF MainApply
  <2>2. inflight \in DepthUpdates /\ WellFormed(inflight) /\ BookTrueAt(inflight.prev)
        /\ inflight.final = sync.lastAppliedU /\ sync.state = "Ready"
    BY <2>1 DEF TypeOK, InflightInv, PcInv
  <2>3. CanApply(book, inflight) /\ BookTrue' /\ book'.lastUpdateId = inflight.final
    BY <2>1, <2>2, ApplyTrue, DepthUpdateType DEF BookTrueAt, WellFormed
  <2>4. pc' = "publish"
    BY <2>3, <1>9 DEF MainApply
  <2>5. \A t \in Task : tasks'[t].phase \in {"none", "gaveUp"}
    BY <2>1, <1>7
  <2>6. EngineInv'
    BY <2>1, <2>2, <2>3, <2>4, <2>5
    DEF EngineInv, OneTask, PhaseInv, PcInv, ReadyInv, InflightInv, ReconcileInv, DrainInv, Active,
        BookTrueAt
  <2> QED
    BY <1>0, <2>1, <2>6, <1>8 DEF EngineInv
<1>10. CASE MainPublish
  <2>1. pc = "publish" /\ pc' = "idle" /\ UNCHANGED <<wsVars, sync, book, tasks>>
    BY <1>10 DEF MainPublish
  <2>2. \A t \in Task : tasks'[t].phase \in {"none", "gaveUp"}
    BY <2>1, <1>7
  <2>3. EngineInv'
    BY <2>1, <2>2
    DEF EngineInv, OneTask, PhaseInv, PcInv, ReadyInv, InflightInv, ReconcileInv, DrainInv, Active,
        BookTrueAt, BookTrue, BookHeld
  <2> QED
    BY <1>0, <2>1, <2>3, <1>8 DEF EngineInv
<1> QED
  BY <1>1, <1>2, <1>4, <1>5, <1>6, <1>9, <1>10 DEF MainDepthStep

LEMMA MainOtherInv ==
  ASSUME IInv, MainMarketEvent \/ MainStop
  PROVE  IInv'
<1> USE DEF IInv
<1>1. TypeOK'
  BY MainOtherType
<1>2. CASE MainMarketEvent
  BY <1>1, <1>2
  DEF MainMarketEvent, wsVars, OneTask, PhaseInv, PcInv, ChannelInv, LastInv, HeadInv, BufferInv,
      ReadyInv, InflightInv, ReconcileInv, DrainInv, Active, BookHeld, BookTrue, BookTrueAt,
      NotConnected
<1>3. CASE MainStop
  <2>1. /\ pc = "idle" /\ pc' = "stopped" /\ ~SyncHeld /\ sync' = Shutdown(sync)
        /\ UNCHANGED <<wsVars, book, inflight, tasks>>
    BY <1>3 DEF MainStop
  <2>2. sync'.state = "Stopping" /\ sync'.buffer = sync.buffer
        /\ sync'.lastAppliedU = sync.lastAppliedU
    BY <2>1 DEF Shutdown, TypeOK, Synchronizers
  <2> QED
    BY <1>1, <2>1, <2>2
    DEF wsVars, OneTask, PhaseInv, PcInv, ChannelInv, LastInv, HeadInv, BufferInv,
        ReadyInv, InflightInv, ReconcileInv, DrainInv, Active, SyncHeld, BookTrue, BookTrueAt
<1> QED
  BY <1>2, <1>3
-----------------------------------------------------------------------------
(* The snapshot task. *)

\* A step of a task leaves the main loop, the channel and the other tasks alone.
LEMMA TaskFrame ==
  ASSUME IInv, NEW t \in Task, TaskStep(t)
  PROVE  /\ Active(t) /\ pc \in {"idle", "stopped"} /\ UNCHANGED <<published, wsq, pc>>
         /\ \A u \in Task \ {t} : tasks'[u] = tasks[u] /\ tasks[u].phase \in {"none", "gaveUp"}
         /\ ChannelInv' /\ LastInv' /\ HeadInv'
<1> USE DEF IInv
<1>1. Active(t) /\ UNCHANGED <<wsVars, pc>>
  BY DEF TaskStep, TaskFetchFails, TaskFetched, TaskApply, TaskNoBridge, TaskReconcile,
         TaskDrain, TaskAnnounce, Active
<1>2. \A u \in Task \ {t} : tasks'[u] = tasks[u]
  BY DEF TaskStep, TaskFetchFails, TaskFetched, TaskApply, TaskNoBridge, TaskReconcile,
         TaskDrain, TaskAnnounce, Retry, TypeOK
<1>3. \A u \in Task \ {t} : tasks[u].phase \in {"none", "gaveUp"}
  BY <1>1 DEF OneTask, Active
<1>4. pc \in {"idle", "stopped"}
  BY <1>1 DEF PhaseInv
<1>5. ~NotConnected
  BY <1>1 DEF PhaseInv, NotConnected, Active, TypeOK, Tasks, Phases
<1>6. ChannelInv' /\ LastInv' /\ HeadInv'
  BY <1>1, <1>5 DEF wsVars, ChannelInv, LastInv, HeadInv
<1> QED
  BY <1>1, <1>2, <1>3, <1>4, <1>6 DEF wsVars

\* What remains to be shown of a task's step: the facts about that task alone.
LEMMA TaskAlone ==
  ASSUME IInv, NEW t \in Task, TaskStep(t),
         LET k == tasks'[t] IN
         /\ k.phase = "fetch" => sync'.state \in {"Buffering", "Stopping"}
         /\ k.phase \in {"apply", "reconcile"} => sync'.state \in {"SnapshotLoading", "Stopping"}
         /\ k.phase \in {"drain", "announce"} => sync'.state = "Ready"
         /\ k.phase = "reconcile" => BookTrue' /\ book'.lastUpdateId = k.snap
         /\ k.phase = "drain" =>
              /\ k.pending # <<>> /\ Chain(k.pending)
              /\ k.pending[Len(k.pending)].final = sync'.lastAppliedU
              /\ BookTrue'
              /\ k.pending[1].prev <= book'.lastUpdateId
              /\ book'.lastUpdateId <= k.pending[1].final,
         sync'.state = "Ready" =>
           /\ sync'.lastAppliedU # NoUpdate
           /\ tasks'[t].phase # "drain" => BookTrueAt(sync.lastAppliedU)',
         BufferInv'
  PROVE  IInv'
<1>1. /\ pc' = pc /\ pc \in {"idle", "stopped"}
      /\ \A u \in Task \ {t} : tasks'[u].phase \in {"none", "gaveUp"}
      /\ ChannelInv' /\ LastInv' /\ HeadInv'
  BY TaskFrame
<1>2. TypeOK'
  BY TaskType DEF IInv
<1>3. OneTask' /\ PhaseInv' /\ PcInv' /\ InflightInv'
  BY <1>1 DEF OneTask, PhaseInv, PcInv, InflightInv, Active
<1>4. ReadyInv'
  BY <1>1 DEF ReadyInv, BookHeld
<1>5. ReconcileInv'
  BY <1>1 DEF ReconcileInv, BookTrueAt
<1>6. DrainInv'
  BY <1>1 DEF DrainInv, Chain
<1> QED
  BY <1>1, <1>2, <1>3, <1>4, <1>5, <1>6 DEF IInv

\* Retry leaves the task at another attempt, or gone.
LEMMA RetryPhase ==
  ASSUME TypeOK, NEW t \in Task, Retry(t)
  PROVE  tasks'[t].phase \in {"fetch", "gaveUp"}
BY DEF Retry, TypeOK, NewTask

\* Both ways in which an attempt fails: resynchronize and retry.
LEMMA TaskRetryInv ==
  ASSUME IInv, NEW t \in Task, TaskFetchFails(t) \/ TaskNoBridge(t)
  PROVE  IInv'
<1>1. TaskStep(t) /\ Retry(t) /\ sync' = TriggerResync(sync) /\ TypeOK
  BY DEF TaskStep, TaskFetchFails, TaskNoBridge, IInv
<1>2. tasks'[t].phase \in {"fetch", "gaveUp"}
  BY <1>1, RetryPhase
<1>3. sync'.state = "Buffering" /\ sync'.buffer = <<>>
  BY <1>1 DEF TriggerResync, TypeOK, Synchronizers
<1>4. BufferInv'
  BY <1>3, EmptySeq DEF BufferInv, Chain
<1> QED
  BY <1>1, <1>2, <1>3, <1>4, TaskAlone

\* A successful attempt: the snapshot is loaded, reconciled with the buffer, and announced.
LEMMA TaskLoadInv ==
  ASSUME IInv, NEW t \in Task, TaskFetched(t) \/ TaskApply(t)
  PROVE  IInv'
<1> USE DEF IInv
<1>1. TaskStep(t) /\ TypeOK /\ tasks[t] \in Tasks
  BY DEF TaskStep, TypeOK
<1>2. CASE TaskFetched(t)
  <2>1. tasks'[t].phase = "apply"
    BY <1>1, <1>2 DEF TaskFetched, TypeOK, Tasks
  <2>2. sync' = OnSnapshotLoading(sync) /\ pc' = pc
    BY <1>2 DEF TaskFetched
  <2>3. sync'.state = "SnapshotLoading" /\ sync'.buffer = sync.buffer
    BY <2>2 DEF OnSnapshotLoading, TypeOK, Synchronizers
  <2>4. BufferInv'
    BY <2>3 DEF BufferInv
  <2> QED
    BY <1>1, <2>1, <2>3, <2>4, TaskAlone
<1>3. CASE TaskApply(t)
  <2>1. tasks[t].phase = "apply" /\ UNCHANGED <<wsVars, sync, pc>>
    BY <1>3 DEF TaskApply
  <2>2. sync'.state \in {"SnapshotLoading", "Stopping"}
    BY <2>1 DEF PhaseInv
  <2>3. BufferInv'
    BY <2>1, <2>2 DEF BufferInv, wsVars
  <2>4. CASE ~tasks[t].parses
    <3>1. tasks'[t].phase = "gaveUp"
      BY <2>4, <1>3 DEF TaskApply, TypeOK, NewTask
    <3> QED
      BY <1>1, <2>2, <2>3, <3>1, TaskAlone
  <2>5. CASE tasks[t].parses
    <3>1. tasks'[t].phase = "reconcile" /\ tasks'[t].snap = tasks[t].snap
      BY <2>5, <1>1, <1>3 DEF TaskApply, TypeOK, Tasks
    <3>2. BookTrue' /\ book'.lastUpdateId = tasks'[t].snap
      BY <3>1, <2>5, <1>3 DEF TaskApply, ApplySnapshot, BookTrue
    <3> QED
      BY <1>1, <2>2, <2>3, <3>1, <3>2, TaskAlone
  <2> QED
    BY <2>4, <2>5
<1> QED
  BY <1>2, <1>3

LEMMA TaskReconcileInv ==
  ASSUME IInv, NEW t \in Task, TaskReconcile(t)
  PROVE  IInv'
<1> USE DEF IInv
<1> DEFINE s == sync.buffer
           id == tasks[t].snap
<1>1. TaskStep(t) /\ TypeOK /\ tasks[t] \in Tasks /\ UNCHANGED <<wsVars, book, pc>>
      /\ tasks[t].phase = "reconcile"
  BY DEF TaskStep, TaskReconcile, TypeOK
<1>2. s \in Seq(DepthUpdates) /\ Len(s) \in Nat /\ DOMAIN s = 1..Len(s) /\ Chain(s)
  BY <1>1, LenProperties DEF TypeOK, Synchronizers, BufferInv
<1>3. PICK b \in 1..Len(s) : \E e \in b..Len(s) :
        /\ IsBridge(sync, id, b)
        /\ sync' = Reconciled(sync, e)
        /\ tasks' = [tasks EXCEPT ![t] = [@ EXCEPT !.phase = "drain", !.pending = SubSeq(s, b, e)]]
  BY <1>2 DEF TaskReconcile
<1>4. PICK e \in b..Len(s) :
        /\ sync' = Reconciled(sync, e)
        /\ tasks' = [tasks EXCEPT ![t] = [@ EXCEPT !.phase = "drain", !.pending = SubSeq(s, b, e)]]
  BY <1>3
<1>5. tasks'[t].phase = "drain" /\ tasks'[t].pending = SubSeq(s, b, e)
  BY <1>1, <1>4 DEF TypeOK, Tasks
<1>6. /\ Chain(SubSeq(s, b, e)) /\ SubSeq(s, b, e) # <<>>
      /\ SubSeq(s, b, e)[1] = s[b]
      /\ SubSeq(s, b, e)[Len(SubSeq(s, b, e))] = s[e]
  BY <1>2, ChainSubSeq
<1>7. /\ sync'.state = "Ready" /\ sync'.buffer = <<>> /\ sync'.lastAppliedU = s[e].final
  BY <1>1, <1>4 DEF Reconciled, TypeOK, Synchronizers
<1>8. e \in 1..Len(s) /\ s[e] \in DepthUpdates /\ s[b] \in DepthUpdates /\ WellFormed(s[b])
  BY <1>2, ElementOfSeq DEF Chain
<1>9. s[e].final # NoUpdate
  BY <1>8, DepthUpdateType DEF NoUpdate
\* The bridge starts at or before the snapshot and ends at or after it.
<1>10. BookTrue' /\ s[b].prev <= book'.lastUpdateId /\ book'.lastUpdateId <= s[b].final
  <2>1. BookTrueAt(id) /\ id \in Nat
    BY <1>1, MaxIdNat DEF ReconcileInv, Tasks
  <2>2. s[b].first <= id /\ id <= s[b].final
    BY <1>3 DEF IsBridge, Bridges
  <2>3. s[b].prev <= id
    BY <2>1, <2>2, <1>8, DepthUpdateType DEF WellFormed
  <2> QED
    BY <2>1, <2>2, <2>3, <1>1 DEF BookTrueAt, BookTrue
<1>11. BufferInv'
  BY <1>7, EmptySeq DEF BufferInv, Chain
<1> HIDE DEF s, IInv
<1> QED
  BY <1>1, <1>5, <1>6, <1>7, <1>9, <1>10, <1>11, TaskAlone

LEMMA TaskDrainInv ==
  ASSUME IInv, NEW t \in Task, TaskDrain(t)
  PROVE  IInv'
<1> USE DEF IInv
<1> DEFINE k == tasks[t]
           p == k.pending
           e == Head(p)
<1>1. /\ TaskStep(t) /\ TypeOK /\ k \in Tasks /\ UNCHANGED <<wsVars, sync, pc>>
      /\ k.phase = "drain" /\ p \in Seq(DepthUpdates) /\ book' \in AfterUpdate(book, e)
  BY DEF TaskStep, TaskDrain, TypeOK, Tasks
<1>2. /\ p # <<>> /\ Chain(p) /\ p[Len(p)].final = sync.lastAppliedU /\ BookTrue
      /\ p[1].prev <= book.lastUpdateId /\ book.lastUpdateId <= p[1].final
  BY <1>1 DEF DrainInv
<1>3. e = p[1] /\ e \in DepthUpdates /\ WellFormed(e) /\ Tail(p) \in Seq(DepthUpdates)
  <2>1. Len(p) \in Nat /\ Len(p) >= 1
    BY <1>1, <1>2, EmptySeq, LenProperties
  <2> QED
    BY <2>1, <1>1, <1>2, HeadTailProperties, ElementOfSeq DEF Chain
<1>4. CanApply(book, e) /\ BookTrue' /\ book'.lastUpdateId = e.final
  BY <1>1, <1>2, <1>3, ApplyTrue
<1>5. sync'.state = "Ready" /\ sync'.lastAppliedU = sync.lastAppliedU
      /\ sync.lastAppliedU # NoUpdate
  BY <1>1 DEF PhaseInv, ReadyInv
<1>6. BufferInv'
  BY <1>1, <1>5 DEF BufferInv, wsVars
<1>7. CASE Tail(p) = <<>>
  <2>1. tasks'[t].phase = "announce"
    BY <1>1, <1>7 DEF TaskDrain, TypeOK, Tasks
  <2>2. e.final = sync.lastAppliedU
    <3>1. p[Len(p)] = p[1]
      BY <1>1, <1>2, <1>7, ChainTail
    <3> QED
      BY <3>1, <1>2, <1>3
  <2>3. BookTrueAt(sync.lastAppliedU)'
    BY <2>2, <1>4, <1>5 DEF BookTrueAt
  <2> HIDE DEF k, p, e, IInv
  <2> QED
    BY <2>1, <2>3, <1>1, <1>5, <1>6, TaskAlone
<1>8. CASE Tail(p) # <<>>
  <2>1. tasks'[t].phase = "drain" /\ tasks'[t].pending = Tail(p)
    BY <1>1, <1>4, <1>8 DEF TaskDrain, TypeOK, Tasks
  <2>2. /\ Chain(Tail(p)) /\ Continues(p[1], Tail(p)[1])
        /\ Tail(p)[Len(Tail(p))] = p[Len(p)]
    BY <1>1, <1>2, <1>8, ChainTail
  <2>3. /\ Tail(p)[1].prev <= book'.lastUpdateId
        /\ book'.lastUpdateId <= Tail(p)[1].final
    <3>1. Len(Tail(p)) \in Nat /\ Len(Tail(p)) >= 1
      BY <1>3, <1>8, EmptySeq, LenProperties
    <3>2. Tail(p)[1] \in DepthUpdates /\ WellFormed(Tail(p)[1])
      <4> DEFINE r == Tail(p)
      <4>1. r \in Seq(DepthUpdates) /\ Chain(r) /\ 1 \in 1..Len(r)
        BY <3>1, <2>2, <1>3
      <4> HIDE DEF r
      <4>2. r[1] \in DepthUpdates
        BY <4>1, ElementOfSeq
      <4>3. WellFormed(r[1])
        BY <4>1 DEF Chain
      <4> QED
        BY <4>2, <4>3 DEF r
    <3>3. Tail(p)[1].prev = book'.lastUpdateId
      BY <2>2, <1>3, <1>4 DEF Continues
    <3>4. /\ Tail(p)[1].prev \in Nat /\ Tail(p)[1].final \in Nat
          /\ Tail(p)[1].prev < Tail(p)[1].final
      BY <3>2, DepthUpdateType DEF WellFormed
    <3> DEFINE f == Tail(p)[1]
               id == book'.lastUpdateId
    <3> HIDE DEF k, p, e, IInv, f, id
    <3>5. f.prev = id /\ f.prev \in Nat /\ f.final \in Nat /\ f.prev < f.final
      BY <3>3, <3>4 DEF f, id
    <3>6. f.prev <= id /\ id <= f.final
      BY <3>5
    <3> QED
      BY <3>6 DEF f, id
  <2> HIDE DEF k, p, e, IInv
  <2> QED
    BY <2>1, <2>2, <2>3, <1>1, <1>2, <1>4, <1>5, <1>6, <1>8, TaskAlone
<1> QED
  BY <1>7, <1>8

LEMMA TaskAnnounceInv ==
  ASSUME IInv, NEW t \in Task, TaskAnnounce(t)
  PROVE  IInv'
<1> USE DEF IInv
<1>1. /\ TaskStep(t) /\ TypeOK /\ UNCHANGED <<wsVars, sync, book, pc>>
      /\ tasks[t].phase = "announce" /\ pc \in {"idle", "stopped"}
  BY TaskFrame DEF TaskStep, TaskAnnounce
<1>2. \A u \in Task \ {t} : tasks[u].phase \in {"none", "gaveUp"}
  BY <1>1, TaskFrame
<1>3. tasks'[t].phase = "none"
  BY <1>1 DEF TaskAnnounce, TypeOK, NewTask
<1>4. sync.state = "Ready" /\ sync.lastAppliedU # NoUpdate /\ BookTrueAt(sync.lastAppliedU)
  BY <1>1, <1>2 DEF PhaseInv, ReadyInv, BookHeld
<1>5. sync'.state = "Ready" /\ sync'.lastAppliedU # NoUpdate /\ BookTrueAt(sync.lastAppliedU)'
  BY <1>1, <1>4 DEF BookTrueAt, BookTrue
<1>6. BufferInv'
  BY <1>1 DEF BufferInv, wsVars
<1> HIDE DEF IInv
<1> QED
  BY <1>1, <1>3, <1>5, <1>6, TaskAlone

-----------------------------------------------------------------------------
(* The theorems. *)

\* Under benign faults (REST requests that fail, snapshots that do not parse, Close frames,
\* frames lost while the book is live) the inductive invariant holds.
THEOREM Safe == ASSUME Benign PROVE Spec => []IInv
<1>1. IInv /\ [Next]_vars => IInv'
  <2> SUFFICES ASSUME IInv, [Next]_vars PROVE IInv'
    OBVIOUS
  <2>1. CASE UNCHANGED vars
    <3>1. TypeOK'
      BY <2>1 DEF vars, IInv, TypeOK
    <3> QED
      BY <2>1, <3>1
      DEF vars, IInv, OneTask, PhaseInv, PcInv, ChannelInv, LastInv, HeadInv, BufferInv,
          ReadyInv, InflightInv, ReconcileInv, DrainInv, Active, BookHeld, BookTrue,
          BookTrueAt, NotConnected
  <2>2. CASE WebSocketStep
    BY <2>2, WebSocketInv
  <2>3. CASE MainDepthStep
    BY <2>3, MainDepthInv
  <2>4. CASE MainMarketEvent \/ MainStop
    BY <2>4, MainOtherInv
  <2>5. ASSUME NEW t \in Task, TaskStep(t) PROVE IInv'
    BY <2>5, TaskRetryInv, TaskLoadInv, TaskReconcileInv, TaskDrainInv, TaskAnnounceInv
    DEF TaskStep
  <2> QED
    BY <2>1, <2>2, <2>3, <2>4, <2>5 DEF Next, Terminated
<1> QED
  BY <1>1, InitInv, PTL DEF Spec

LEMMA InvExact == IInv => BookExact
<1> SUFFICES ASSUME IInv, Live PROVE /\ book.initialized
                                    /\ book.lastUpdateId = sync.lastAppliedU
                                    /\ book.levels = BookAt[sync.lastAppliedU]
  BY DEF BookExact
<1>1. sync.state = "Ready" /\ ~BookHeld /\ pc # "apply"
  BY DEF Live, SyncHeld, BookHeld
<1> QED
  BY <1>1 DEF IInv, ReadyInv, BookTrueAt, BookTrue

\* Under benign faults a book published as live is the venue's book after the last event that
\* the synchronizer accepted.
THEOREM BookIsExact == ASSUME Benign PROVE Spec => []BookExact
BY Safe, InvExact, PTL

\* Under benign faults two snapshot tasks never run at once, although main.rs keeps no handle
\* of the tasks it spawns.
THEOREM TasksExclude == ASSUME Benign PROVE Spec => []OneTask
<1>1. IInv => OneTask
  BY DEF IInv
<1> QED
  BY <1>1, Safe, PTL

-----------------------------------------------------------------------------
(* Consequences of the inductive invariant, and the refinement. *)

-----------------------------------------------------------------------------
(* Somebody synchronizes. *)

Somebody ==
  sync.state \in {"Buffering", "SnapshotLoading"} => \E t \in Task : tasks[t].phase # "none"

LEMMA MainSomebody == IInv /\ Somebody /\ MainDepthStep => Somebody'
<1> SUFFICES ASSUME IInv, Somebody, MainDepthStep PROVE Somebody'
  OBVIOUS
<1> USE DEF IInv
<1>1. ASSUME NEW kind, Spawn(kind) PROVE Somebody'
  BY <1>1 DEF Spawn, Somebody, TypeOK, NewTask
<1>2. CASE MainConnected \/ MainMismatch
  BY <1>1, <1>2 DEF MainConnected, MainMismatch
<1>3. CASE MainDisconnected
  BY <1>3 DEF MainDisconnected, OnReconnecting, Somebody, TypeOK, Synchronizers
<1>4. CASE MainBuffer
  <2>1. sync'.state = sync.state /\ tasks' = tasks
    BY <1>4 DEF MainBuffer, BufferEvent, TypeOK, Synchronizers
  <2> QED
    BY <2>1 DEF Somebody
<1>5. CASE MainAccept
  BY <1>5 DEF MainAccept, AcceptLive, Somebody, TypeOK, Synchronizers
<1>6. CASE MainApply \/ MainPublish
  BY <1>6 DEF MainApply, MainPublish, Somebody
<1> QED
  BY <1>2, <1>3, <1>4, <1>5, <1>6 DEF MainDepthStep

LEMMA TaskSomebody == ASSUME IInv, Somebody, NEW t \in Task, TaskStep(t) PROVE Somebody'
<1> USE DEF IInv
<1>1. CASE TaskFetchFails(t) \/ TaskNoBridge(t)
  <2>1. tasks'[t].phase # "none"
    BY <1>1, RetryPhase DEF TaskFetchFails, TaskNoBridge
  <2> QED
    BY <2>1 DEF Somebody
<1>2. CASE TaskFetched(t) \/ TaskApply(t) \/ TaskDrain(t)
  <2>1. tasks[t] \in Tasks /\ tasks[t].phase # "none"
    BY <1>2 DEF TaskFetched, TaskApply, TaskDrain, TypeOK
  <2>2. CASE TaskFetched(t)
    <3>1. tasks'[t].phase = "apply"
      BY <2>1, <2>2 DEF TaskFetched, TypeOK, Tasks
    <3> QED
      BY <3>1 DEF Somebody
  <2>3. CASE TaskApply(t)
    <3>1. tasks'[t].phase \in {"reconcile", "gaveUp"}
      BY <2>1, <2>3 DEF TaskApply, TypeOK, Tasks, NewTask
    <3> QED
      BY <3>1 DEF Somebody
  <2>4. CASE TaskDrain(t)
    <3>1. tasks'[t].phase \in {"drain", "announce"}
      BY <2>1, <2>4 DEF TaskDrain, TypeOK, Tasks
    <3> QED
      BY <3>1 DEF Somebody
  <2> QED
    BY <1>2, <2>2, <2>3, <2>4
<1>3. CASE TaskReconcile(t)
  BY <1>3 DEF TaskReconcile, Reconciled, Somebody, TypeOK, Synchronizers
<1>4. CASE TaskAnnounce(t)
  BY <1>4 DEF TaskAnnounce, PhaseInv, Somebody
<1> QED
  BY <1>1, <1>2, <1>3, <1>4 DEF TaskStep

\* Under benign faults, while the book is being synchronized exactly one snapshot task works on
\* it, unless the last one ran out of attempts or met a snapshot that does not parse.
THEOREM Synchronizes == ASSUME Benign PROVE Spec => []SomeoneSynchronizes
<1>1. Init => Somebody
  BY DEF Init, NewSynchronizer, Somebody
<1>2. IInv /\ Somebody /\ [Next]_vars => Somebody'
  <2> SUFFICES ASSUME IInv, Somebody, [Next]_vars PROVE Somebody'
    OBVIOUS
  <2>1. CASE UNCHANGED <<sync, tasks>>
    BY <2>1 DEF Somebody
  <2>2. CASE WebSocketStep \/ MainMarketEvent \/ UNCHANGED vars
    BY <2>1, <2>2 DEF WebSocketStep, Connect, Publish, PublishUnseen, LoseConnection,
                      CloseConnection, engineVars, MainMarketEvent, vars
  <2>3. CASE MainStop
    BY <2>3 DEF MainStop, Shutdown, Somebody, IInv, TypeOK, Synchronizers
  <2> QED
    BY <2>2, <2>3, MainSomebody, TaskSomebody DEF Next, Terminated
<1>3. IInv /\ Somebody => SomeoneSynchronizes
  <2> SUFFICES ASSUME IInv, Somebody PROVE SomeoneSynchronizes
    OBVIOUS
  <2>1. \A t \in Task : tasks[t].phase # "none" => Active(t) \/ tasks[t].phase = "gaveUp"
    BY DEF Active
  <2> QED
    BY <2>1 DEF Somebody, SomeoneSynchronizes, IInv, OneTask
<1> QED
  BY <1>1, <1>2, <1>3, Safe, PTL DEF Spec

-----------------------------------------------------------------------------
(* The engine implements DepthFeed. *)

Visible == sync.state = "Ready" /\ book.initialized /\ ~BookHeld

ViewTrue ==
  /\ Visible => ReaderView = Feed!View(book.lastUpdateId) /\ book.lastUpdateId \in Ids
  /\ ~Visible => ReaderView = Feed!NoView

LEMMA ViewOfVisible == IInv => ViewTrue
<1> SUFFICES ASSUME IInv PROVE ViewTrue
  OBVIOUS
<1>1. Visible => BookTrue
  BY DEF Visible, IInv, ReadyInv, InflightInv, BookTrueAt, TypeOK
<1>2. book.lastUpdateId \in Ids
  BY DEF IInv, TypeOK, Books
<1> QED
  BY <1>1, <1>2 DEF ViewTrue, Visible, ReaderView, BookTrue, Feed!View, Feed!NoView

LEMMA ViewOfVisibleNext == IInv' => ViewTrue'
BY ViewOfVisible, PTL

\* A book that stays visible is unchanged, or has advanced.
LEMMA VisibleStep ==
  ASSUME IInv, Benign, [Next]_vars, Visible, Visible'
  PROVE  book' = book \/ book.lastUpdateId < book'.lastUpdateId
<1> USE DEF IInv
<1>1. CASE MainApply
  <2>1. inflight \in DepthUpdates /\ WellFormed(inflight) /\ BookTrueAt(inflight.prev)
        /\ book' \in AfterUpdate(book, inflight)
    BY <1>1 DEF MainApply, InflightInv, TypeOK
  <2>2. inflight.prev \in Nat /\ inflight.final \in Nat /\ inflight.prev < inflight.final
    BY <2>1, DepthUpdateType DEF WellFormed
  <2>3. book'.lastUpdateId = inflight.final
    BY <2>1, <2>2, ApplyTrue DEF BookTrueAt
  <2> QED
    BY <2>1, <2>2, <2>3 DEF BookTrueAt
<1>2. CASE MainDisconnected
  <2>1. sync'.state = "Reconnecting"
    BY <1>2 DEF MainDisconnected, OnReconnecting, TypeOK, Synchronizers
  <2> QED
    BY <2>1 DEF Visible
<1>3. ASSUME NEW t \in Task, TaskStep(t) PROVE book' = book
  <2>1. ~TaskDrain(t)
    BY DEF Visible, BookHeld, TaskDrain
  <2>2. ~TaskApply(t)
    BY DEF Visible, TaskApply, PhaseInv
  <2> QED
    BY <1>3, <2>1, <2>2 DEF TaskStep, TaskFetchFails, TaskFetched, TaskNoBridge, TaskReconcile,
                            TaskAnnounce
<1>4. CASE WebSocketStep
  BY <1>4 DEF WebSocketStep, Connect, Publish, PublishUnseen, LoseConnection, CloseConnection,
              engineVars
<1>5. CASE MainConnected \/ MainBuffer \/ MainMismatch \/ MainAccept \/ MainPublish
           \/ MainMarketEvent \/ MainStop
  BY <1>5 DEF MainConnected, MainBuffer, MainMismatch, MainAccept, MainPublish, MainMarketEvent,
              MainStop
<1>6. CASE UNCHANGED vars
  BY <1>6 DEF vars
<1> QED
  BY <1>1, <1>2, <1>3, <1>4, <1>5, <1>6 DEF Next, MainDepthStep, Terminated

LEMMA FeedStep ==
  ASSUME IInv, IInv', Benign, [Next]_vars
  PROVE  [Feed!Next]_ReaderView
<1> DEFINE id == book.lastUpdateId
<1>1. /\ Visible => ReaderView = Feed!View(id) /\ id \in Ids
      /\ ~Visible => ReaderView = Feed!NoView
  BY ViewOfVisible DEF ViewTrue
<1>2. /\ Visible' => ReaderView' = Feed!View(id') /\ id' \in Ids
      /\ ~Visible' => ReaderView' = Feed!NoView
  BY ViewOfVisibleNext DEF ViewTrue, Feed!View, Feed!NoView, Ids
<1>3. CASE ~Visible /\ ~Visible'
  BY <1>1, <1>2, <1>3
<1>4. CASE ~Visible /\ Visible'
  BY <1>1, <1>2, <1>4 DEF Feed!Next, Feed!Publish, Feed!Ids, Ids
<1>5. CASE Visible /\ ~Visible'
  BY <1>1, <1>2, <1>5 DEF Feed!Next, Feed!Withdraw, Feed!View
<1>6. CASE Visible /\ Visible'
  <2>1. CASE book' = book
    BY <2>1, <1>1, <1>2, <1>6
  <2>2. CASE id < id'
    <3>1. id' \in id + 1 .. MaxId
      BY <2>2, <1>1, <1>2, <1>6, MaxIdNat DEF Ids
    <3>2. ReaderView.live /\ ReaderView.id = id
      BY <1>1, <1>6 DEF Feed!View
    <3> QED
      BY <3>1, <3>2, <1>2, <1>6 DEF Feed!Next, Feed!Advance
  <2> QED
    BY <2>1, <2>2, <1>6, VisibleStep
<1> QED
  BY <1>3, <1>4, <1>5, <1>6

\* Under benign faults the engine implements the feed it promises.
THEOREM Implements == ASSUME Benign PROVE Spec => ImplementsFeed
<1>1. Init => Feed!Init
  BY DEF Init, NewSynchronizer, ReaderView, Feed!Init, Feed!NoView
<1>2. IInv /\ IInv' /\ [Next]_vars => [Feed!Next]_ReaderView
  BY FeedStep
<1> QED
  BY <1>1, <1>2, Safe, PTL DEF Spec, ImplementsFeed, Feed!Spec

-----------------------------------------------------------------------------
(* The shadow book. *)

Events == INSTANCE FoldTheorems WITH Op <- ProcessEvent

LEMMA HeardIsFold == \A s, q : HeardOf(s, q) = Events!Fold(s, q)
BY DEF HeardOf, Events!Fold, FoldLeft, MapThenFoldSet, Max, Events!FoldLeft,
       Events!MapThenFoldSet, Events!Max

LEMMA HeardEmpty == \A s : HeardOf(s, <<>>) = s
BY HeardIsFold, Events!FoldEmpty

LEMMA HeardAppend ==
  ASSUME NEW s \in ShadowBooks, NEW q \in Seq(MarketEvents), NEW ev \in MarketEvents
  PROVE  HeardOf(s, Append(q, ev)) = ProcessEvent(HeardOf(s, q), ev)
BY HeardIsFold, Events!FoldAppend

LEMMA HeardTail ==
  ASSUME NEW s \in ShadowBooks, NEW q \in Seq(MarketEvents), q # <<>>
  PROVE  HeardOf(s, q) = HeardOf(ProcessEvent(s, Head(q)), Tail(q))
BY HeardIsFold, Events!FoldHead

LEMMA HeardType ==
  ASSUME NEW s \in ShadowBooks, NEW q \in Seq(MarketEvents)
  PROVE  HeardOf(s, q) \in ShadowBooks
<1>1. \A x \in ShadowBooks : \A ev \in MarketEvents : ProcessEvent(x, ev) \in ShadowBooks
  BY ShadowType
<1> QED BY <1>1, HeardIsFold, Events!FoldKeeps

\* An announcement makes the shadow book the book that was announced.
LEMMA ToldIs ==
  ASSUME NEW s \in ShadowBooks, NEW levels \in Quantities,
         NEW type \in {"Synchronized", "ResyncCompleted"}
  PROVE  LET told == ProcessEvent(s, [type |-> "Snapshot", levels |-> levels])
         IN  /\ ProcessEvent(told, [type |-> type]).ready
             /\ ProcessEvent(told, [type |-> type]).levels = levels
<1> DEFINE told == [levels |-> levels, ready |-> TRUE]
<1>1. ProcessEvent(s, [type |-> "Snapshot", levels |-> levels]) = told
  BY DEF ProcessEvent, ShadowSnapshot
<1>2. ProcessEvent(told, [type |-> type]) = told
  BY DEF ProcessEvent, SetReady
<1> QED BY <1>1, <1>2

\* An update changes the shadow book as it changed the book.
LEMMA UpdateIs ==
  ASSUME NEW s \in ShadowBooks, NEW e \in DepthUpdates
  PROVE  /\ ProcessEvent(s, [type |-> "Updated", update |-> e]) = ShadowUpdate(s, e)
         /\ ShadowUpdate(s, e).ready = s.ready
         /\ ShadowUpdate(s, e).levels = Overwrite(s.levels, Changes(e))
BY DEF ProcessEvent, ShadowUpdate, ShadowBooks

LEMMA WebSocketShadow ==
  ASSUME TypeOK, "badUpdate" \notin Faults, ShadowInv, WebSocketStep
  PROVE  ShadowInv'
<1>1. UNCHANGED engineVars
  BY DEF WebSocketStep, Connect, Publish, PublishUnseen, LoseConnection, CloseConnection
<1>2. HeardInv' /\ HoldInv' /\ EmptyInv'
  BY <1>1 DEF engineVars, ShadowInv, HeardInv, HoldInv, EmptyInv, Settled, Heard
<1>3. ASSUME NEW m, m.type = "DepthUpdate" => m.update.valid, m \in WsMessages,
             NEW q \in Seq(WsMessages),
             \A i \in 1..Len(q) : q[i].type = "DepthUpdate" => q[i].update.valid
      PROVE  /\ \A i \in 1..Len(Append(q, m)) :
                  Append(q, m)[i].type = "DepthUpdate" => Append(q, m)[i].update.valid
             /\ Append(q, m) \in Seq(WsMessages)
  <2> DEFINE r == Append(q, m)
  <2>1. /\ r \in Seq(WsMessages) /\ Len(q) \in Nat /\ Len(r) = Len(q) + 1 /\ r[Len(q) + 1] = m
        /\ \A i \in 1..Len(q) : r[i] = q[i]
    BY <1>3, AppendProperties
  <2> HIDE DEF r
  <2>2. \A i \in 1..Len(r) : i \in 1..Len(q) \/ i = Len(q) + 1
    BY <2>1
  <2>3. \A i \in 1..Len(r) : r[i].type = "DepthUpdate" => r[i].update.valid
    BY <1>3, <2>1, <2>2
  <2> QED BY <2>1, <2>3 DEF r
<1>4. /\ wsq \in Seq(WsMessages)
      /\ \A i \in 1..Len(wsq) : wsq[i].type = "DepthUpdate" => wsq[i].update.valid
      /\ pc = "apply" => inflight.valid
  BY DEF TypeOK, ShadowInv, ValidInv
<1>5. /\ Connected \in WsMessages /\ Connected.type # "DepthUpdate"
      /\ Disconnected \in WsMessages /\ Disconnected.type # "DepthUpdate"
  BY DEF Connected, Disconnected, WsMessages
<1>6. \A i \in 1..Len(wsq') : wsq'[i].type = "DepthUpdate" => wsq'[i].update.valid
  <2>1. CASE Connect \/ LoseConnection
    BY <1>3, <1>4, <1>5, <2>1 DEF Connect, LoseConnection
  <2>2. CASE CloseConnection
    <3>1. wsq' = Append(Append(wsq, Disconnected), Disconnected)
      BY <2>2 DEF CloseConnection
    <3> DEFINE q == Append(wsq, Disconnected)
    <3>2. q \in Seq(WsMessages) /\ \A i \in 1..Len(q) : q[i].type = "DepthUpdate" => q[i].update.valid
      BY <1>3, <1>4, <1>5
    <3> HIDE DEF q
    <3>3. \A i \in 1..Len(Append(q, Disconnected)) :
            Append(q, Disconnected)[i].type = "DepthUpdate" => Append(q, Disconnected)[i].update.valid
      BY <1>3, <1>5, <3>2
    <3> QED BY <3>1, <3>3 DEF q
  <2>3. CASE PublishUnseen
    BY <1>4, <2>3 DEF PublishUnseen
  <2>4. CASE Publish
    <3>1. PICK n \in published + 1 .. MaxId, valid \in Parsing("badUpdate") :
            wsq' = Append(wsq, Depth(DepthUpdate(published, n, valid)))
      BY <2>4 DEF Publish
    <3> DEFINE m == Depth(DepthUpdate(published, n, valid))
    <3>2. valid = TRUE
      BY DEF Parsing
    <3>3. m.type = "DepthUpdate" /\ m.update.valid
      BY <3>2 DEF Depth, DepthUpdate
    <3>4. m \in WsMessages
      <4>1. n \in 1..MaxId /\ published + 1 \in 1..MaxId /\ published \in Ids
        BY MaxIdNat DEF TypeOK, Ids
      <4> QED BY <3>2, <4>1 DEF Depth, DepthUpdate, WsMessages, DepthUpdates
    <3> HIDE DEF m
    <3>5. \A i \in 1..Len(Append(wsq, m)) :
            Append(wsq, m)[i].type = "DepthUpdate" => Append(wsq, m)[i].update.valid
      BY <1>3, <1>4, <3>3, <3>4
    <3> QED BY <3>1, <3>5 DEF m
  <2> QED BY <2>1, <2>2, <2>3, <2>4 DEF WebSocketStep
<1>7. ValidInv'
  BY <1>1, <1>4, <1>6 DEF ValidInv, engineVars
<1> QED BY <1>2, <1>7 DEF ShadowInv

\* What is left of the channel still parses, and so does what was received.
LEMMA ReceiveValid ==
  ASSUME TypeOK, ValidInv, NEW type, Receive(type)
  PROVE  /\ \A i \in 1..Len(wsq') : wsq'[i].type = "DepthUpdate" => wsq'[i].update.valid
         /\ Head(wsq).type = "DepthUpdate" => Head(wsq).update.valid
<1>1. wsq \in Seq(WsMessages) /\ wsq # <<>> /\ wsq' = Tail(wsq)
  BY DEF Receive, TypeOK
<1>2. /\ Len(wsq) \in Nat \ {0} /\ Len(wsq') = Len(wsq) - 1 /\ Head(wsq) = wsq[1]
      /\ \A i \in 1..Len(wsq') : wsq'[i] = wsq[i + 1]
  BY <1>1
<1>3. \A i \in 1..Len(wsq') : i + 1 \in 1..Len(wsq)
  BY <1>2
<1>4. 1 \in 1..Len(wsq)
  BY <1>2
<1> QED BY <1>2, <1>3, <1>4 DEF ValidInv

\* A step that tells the analytics engine nothing about a live book, and leaves the book alone.
LEMMA HeardKept ==
  ASSUME HeardInv, UNCHANGED <<shadow, evq>>, book'.levels = book.levels,
         Settled' => Settled, pc # "publish", pc' # "publish"
  PROVE  HeardInv'
BY DEF HeardInv, Heard

LEMMA UnsettledNext == ASSUME sync'.state # "Ready" PROVE HeardInv'
BY DEF HeardInv, Settled

LEMMA MainReceivesShadow ==
  ASSUME TypeOK, ShadowInv,
         MainConnected \/ MainDisconnected \/ MainBuffer \/ MainMismatch \/ MainAccept
  PROVE  ShadowInv'
<1>0. /\ sync \in Synchronizers /\ HeardInv /\ HoldInv /\ EmptyInv /\ ValidInv
      /\ pc = "idle"
      /\ \A t \in Task : tasks[t].phase \notin {"drain", "announce"}
  BY DEF ShadowInv, TypeOK, SyncHeld, Receive, MainConnected, MainDisconnected, MainBuffer,
         MainMismatch, MainAccept
<1>1. HoldInv'
  <2>1. \A t \in Task : tasks'[t].phase \in {tasks[t].phase, "fetch"}
    <3>1. CASE \E kind \in {"initial", "resync"} : Spawn(kind)
      <4>1. PICK u \in Task, kind \in {"initial", "resync"} :
              tasks' = [tasks EXCEPT ![u] = NewTask("fetch", kind)]
        BY <3>1 DEF Spawn
      <4>2. NewTask("fetch", kind).phase = "fetch"
        BY DEF NewTask
      <4> QED BY <4>1, <4>2 DEF TypeOK
    <3>2. CASE tasks' = tasks
      BY <3>2
    <3> QED
      BY <3>1, <3>2 DEF MainConnected, MainDisconnected, MainBuffer, MainMismatch, MainAccept
  <2> QED BY <1>0, <2>1 DEF HoldInv
<1>2. CASE MainConnected \/ MainDisconnected \/ MainMismatch
  <2>1. sync'.state \in {"Buffering", "Reconnecting"} /\ pc' = "idle"
    BY <1>0, <1>2 DEF MainConnected, MainDisconnected, MainMismatch, OnConnected, OnReconnecting,
                      TriggerResync, Synchronizers
  <2>2. HeardInv' /\ EmptyInv'
    BY <2>1, UnsettledNext DEF EmptyInv
  <2>3. ValidInv'
    BY <1>0, <1>2, <2>1, ReceiveValid DEF ValidInv, MainConnected, MainDisconnected, MainMismatch
  <2> QED BY <1>1, <2>2, <2>3 DEF ShadowInv
<1>3. CASE MainBuffer
  <2>1. sync.state # "Ready" /\ sync'.state = sync.state /\ pc' = "idle"
    BY <1>0, <1>3 DEF MainBuffer, BufferEvent, Synchronizers
  <2>2. HeardInv' /\ EmptyInv'
    BY <2>1, UnsettledNext DEF EmptyInv
  <2>3. ValidInv'
    BY <1>0, <1>3, <2>1, ReceiveValid DEF ValidInv, MainBuffer
  <2> QED BY <1>1, <2>2, <2>3 DEF ShadowInv
<1>4. CASE MainAccept
  <2>1. /\ sync.state = "Ready" /\ sync'.state = "Ready" /\ sync'.buffer = sync.buffer
        /\ pc' = "apply" /\ UNCHANGED <<book, tasks, evq, shadow>>
        /\ inflight' = Head(wsq).update /\ Head(wsq).type = "DepthUpdate"
    BY <1>0, <1>4 DEF MainAccept, AcceptLive, Synchronizers, Receive
  <2>2. HeardInv'
    BY <1>0, <2>1, HeardKept DEF Settled
  <2>3. EmptyInv'
    BY <1>0, <2>1 DEF EmptyInv
  <2>4. ValidInv'
    BY <1>0, <1>4, <2>1, ReceiveValid DEF ValidInv, MainAccept
  <2> QED BY <1>1, <2>2, <2>3, <2>4 DEF ShadowInv
<1> QED BY <1>2, <1>3, <1>4

\* The update that is applied is one that parses, and it is announced.
LEMMA MainAppliesShadow ==
  ASSUME TypeOK, ShadowInv, MainApply \/ MainPublish
  PROVE  ShadowInv'
<1>0. /\ sync' = sync /\ wsq' = wsq /\ tasks' = tasks /\ shadow' = shadow
      /\ HeardInv /\ HoldInv /\ EmptyInv /\ ValidInv
      /\ Heard \in ShadowBooks /\ inflight \in DepthUpdates
  BY HeardType DEF ShadowInv, MainApply, MainPublish, wsVars, TypeOK, Heard
<1>1. Settled' <=> Settled
  BY <1>0 DEF Settled
<1>2. /\ ShadowUpdate(Heard, inflight).ready = Heard.ready
      /\ ShadowUpdate(Heard, inflight).levels = Overwrite(Heard.levels, Changes(inflight))
      /\ ProcessEvent(Heard, [type |-> "Updated", update |-> inflight]) = ShadowUpdate(Heard, inflight)
  BY <1>0, UpdateIs
<1>3. CASE MainApply
  <2>1. /\ pc = "apply" /\ book' \in AfterUpdate(book, inflight) /\ evq' = evq
        /\ IF CanApply(book, inflight)
           THEN pc' = "publish" /\ inflight' = inflight
           ELSE pc' = "idle"
    BY <1>3 DEF MainApply
  <2>2. inflight.valid
    BY <1>0, <2>1 DEF ValidInv
  <2>3. Heard' = Heard
    BY <1>0, <2>1 DEF Heard
  <2>4. HeardInv'
    <3>1. CASE CanApply(book, inflight)
      <4>1. book'.levels = Overwrite(book.levels, Changes(inflight))
        BY <2>1, <3>1 DEF AfterUpdate, ApplyDepthUpdate, TypeOK, Books
      <4> QED BY <1>0, <1>1, <1>2, <2>1, <2>3, <3>1, <4>1 DEF HeardInv
    <3>2. CASE ~CanApply(book, inflight)
      <4>1. book' = book
        BY <2>1, <2>2, <3>2 DEF AfterUpdate, CanApply, FailedUpdates
      <4> QED BY <1>0, <1>1, <2>1, <2>3, <3>2, <4>1 DEF HeardInv
    <3> QED BY <3>1, <3>2
  <2>5. HoldInv' /\ EmptyInv' /\ ValidInv'
    BY <1>0, <2>1 DEF HoldInv, EmptyInv, ValidInv
  <2> QED BY <2>4, <2>5 DEF ShadowInv
<1>4. CASE MainPublish
  <2> DEFINE ev == [type |-> "Updated", update |-> inflight]
  <2>1. pc = "publish" /\ pc' = "idle" /\ book' = book /\ evq' = Append(evq, ev)
    BY <1>4 DEF MainPublish, Send
  <2>2. ev \in MarketEvents
    BY <1>0 DEF MarketEvents
  <2>3. Heard' = ShadowUpdate(Heard, inflight)
    <3> HIDE DEF ev
    <3>1. HeardOf(shadow, Append(evq, ev)) = ProcessEvent(HeardOf(shadow, evq), ev)
      BY <2>2, HeardAppend DEF TypeOK
    <3>2. Heard' = ProcessEvent(Heard, ev)
      BY <1>0, <2>1, <3>1 DEF Heard
    <3> QED BY <1>2, <3>2 DEF ev
  <2>4. HeardInv'
    BY <1>0, <1>1, <1>2, <2>1, <2>3 DEF HeardInv
  <2>5. HoldInv' /\ EmptyInv' /\ ValidInv'
    BY <1>0, <2>1 DEF HoldInv, EmptyInv, ValidInv
  <2> QED BY <2>4, <2>5 DEF ShadowInv
<1> QED BY <1>3, <1>4

LEMMA MainOtherShadow ==
  ASSUME TypeOK, ShadowInv, MainMarketEvent \/ MainStop
  PROVE  ShadowInv'
<1>1. CASE MainMarketEvent
  <2>1. /\ evq # <<>> /\ evq' = Tail(evq) /\ shadow' = ProcessEvent(shadow, Head(evq))
        /\ UNCHANGED <<wsq, sync, book, pc, inflight, tasks>>
    BY <1>1 DEF MainMarketEvent, wsVars
  <2>2. Heard' = Heard
    BY <2>1, HeardTail DEF Heard, TypeOK
  <2>3. Settled' <=> Settled
    BY <2>1 DEF Settled
  <2> QED BY <2>1, <2>2, <2>3 DEF ShadowInv, HeardInv, HoldInv, EmptyInv, ValidInv
<1>2. CASE MainStop
  <2>1. /\ sync'.state = "Stopping" /\ pc' = "stopped" /\ wsq' = wsq /\ tasks' = tasks
        /\ \A t \in Task : tasks[t].phase \notin {"drain", "announce"}
    BY <1>2 DEF MainStop, Shutdown, TypeOK, Synchronizers, wsVars, SyncHeld
  <2>2. HeardInv'
    BY <2>1, UnsettledNext
  <2> QED BY <2>1, <2>2 DEF ShadowInv, HoldInv, EmptyInv, ValidInv
<1> QED BY <1>1, <1>2

LEMMA TaskShadow ==
  ASSUME TypeOK, ShadowInv, SnapshotsParse, NEW t \in Task, TaskStep(t)
  PROVE  ShadowInv'
<1>0. /\ tasks \in [Task -> Tasks] /\ sync \in Synchronizers
      /\ HeardInv /\ HoldInv /\ EmptyInv /\ ValidInv
      /\ UNCHANGED <<wsq, pc, inflight, shadow>>
  BY DEF ShadowInv, TypeOK, TaskStep, TaskFetchFails, TaskFetched, TaskApply, TaskNoBridge,
         TaskReconcile, TaskDrain, TaskAnnounce, wsVars
<1>1. ValidInv'
  BY <1>0 DEF ValidInv
<1>2. \A u \in Task \ {t} : tasks'[u] = tasks[u]
  BY <1>0 DEF TaskStep, TaskFetchFails, TaskFetched, TaskApply, TaskNoBridge, TaskReconcile,
              TaskDrain, TaskAnnounce, Retry
<1>3. CASE TaskFetchFails(t) \/ TaskNoBridge(t)
  <2>1. sync'.state = "Buffering" /\ sync'.buffer = <<>>
    BY <1>0, <1>3 DEF TaskFetchFails, TaskNoBridge, TriggerResync, Synchronizers
  <2>2. \A u \in Task : tasks[u].phase \notin {"drain", "announce"}
    BY <1>3 DEF TaskFetchFails, TaskNoBridge, SyncHeld
  <2>3. tasks'[t].phase \in {"fetch", "gaveUp"}
    <3>1. tasks[t].attempt + 1 \in Nat
      BY <1>0, EngineAssumption DEF Tasks
    <3> QED BY <1>0, <1>3 DEF TaskFetchFails, TaskNoBridge, Retry, NewTask
  <2>4. HoldInv'
    BY <1>2, <2>2, <2>3 DEF HoldInv
  <2> QED BY <1>1, <2>1, <2>4, UnsettledNext DEF ShadowInv, EmptyInv
<1>4. CASE TaskFetched(t)
  <2>1. sync'.state = "SnapshotLoading" /\ sync'.buffer = sync.buffer
    BY <1>0, <1>4 DEF TaskFetched, OnSnapshotLoading, Synchronizers
  <2>2. \A u \in Task : tasks[u].phase \notin {"drain", "announce"}
    BY <1>4 DEF TaskFetched, SyncHeld
  <2>3. tasks'[t].phase = "apply"
    BY <1>0, <1>4 DEF TaskFetched, Tasks
  <2>4. HoldInv'
    BY <1>2, <2>2, <2>3 DEF HoldInv
  <2> QED BY <1>0, <1>1, <2>1, <2>4, UnsettledNext DEF ShadowInv, EmptyInv
<1>5. CASE TaskApply(t)
  <2>1. sync' = sync /\ evq' = evq /\ tasks[t].phase = "apply"
    BY <1>5 DEF TaskApply
  <2>2. /\ tasks'[t].phase \in {"reconcile", "gaveUp"}
        /\ tasks[t].parses => tasks'[t].phase = "reconcile"
    BY <1>0, <1>5 DEF TaskApply, NewTask, Tasks
  <2>3. ~Settled'
    <3>1. tasks[t].parses \/ sync.state # "Ready"
      BY <2>1 DEF SnapshotsParse
    <3> QED BY <2>1, <2>2, <3>1 DEF Settled
  <2>4. HoldInv' /\ EmptyInv'
    BY <1>0, <1>2, <2>1, <2>2 DEF HoldInv, EmptyInv
  <2> QED BY <1>1, <2>3, <2>4 DEF ShadowInv, HeardInv
<1>6. CASE TaskReconcile(t)
  <2>1. PICK b \in DOMAIN sync.buffer : \E e \in b .. Len(sync.buffer) :
          /\ sync' = Reconciled(sync, e)
          /\ tasks' = [tasks EXCEPT ![t] = [@ EXCEPT !.phase = "drain",
                                                     !.pending = SubSeq(sync.buffer, b, e)]]
    BY <1>6 DEF TaskReconcile
  <2>2. sync'.state = "Ready" /\ sync'.buffer = <<>> /\ tasks'[t].phase = "drain"
    BY <1>0, <2>1 DEF Reconciled, Synchronizers, Tasks
  <2>3. sync.buffer # <<>>
    <3>1. sync.buffer \in Seq(DepthUpdates)
      BY <1>0 DEF Synchronizers
    <3>2. sync.buffer = <<>> => DOMAIN sync.buffer = {}
      BY EmptySeq
    <3> QED BY <2>1, <3>2
  <2>4. pc \in {"idle", "stopped"}
    BY <1>0, <2>3 DEF EmptyInv, TypeOK
  <2>5. \A u \in Task : tasks[u].phase \notin {"drain", "announce"}
    BY <1>6 DEF TaskReconcile, SyncHeld
  <2>6. HoldInv'
    BY <1>0, <1>2, <2>2, <2>4, <2>5 DEF HoldInv
  <2>7. ~Settled'
    BY <2>2 DEF Settled
  <2> QED BY <1>1, <2>2, <2>6, <2>7 DEF ShadowInv, HeardInv, EmptyInv
<1>7. CASE TaskDrain(t)
  <2>1. sync' = sync /\ tasks[t].phase = "drain" /\ tasks'[t].phase \in {"drain", "announce"}
    BY <1>0, <1>7 DEF TaskDrain, Tasks
  <2>2. HoldInv'
    BY <1>0, <1>2, <2>1 DEF HoldInv
  <2>3. ~Settled'
    BY <2>1 DEF Settled
  <2> QED BY <1>0, <1>1, <2>1, <2>2, <2>3 DEF ShadowInv, HeardInv, EmptyInv
<1>8. CASE TaskAnnounce(t)
  <2> DEFINE a == [type |-> "Snapshot", levels |-> book.levels]
             type == IF tasks[t].kind = "initial" THEN "Synchronized" ELSE "ResyncCompleted"
             z == [type |-> type]
  <2>1. /\ sync' = sync /\ book' = book /\ tasks[t].phase = "announce" /\ tasks'[t].phase = "none"
        /\ evq' = evq \o <<a, z>>
    BY <1>0, <1>8 DEF TaskAnnounce, NewTask
  <2>2. pc \in {"idle", "stopped"}
    BY <1>0, <2>1 DEF HoldInv
  <2>3. a \in MarketEvents /\ z \in MarketEvents /\ type \in {"Synchronized", "ResyncCompleted"}
    BY DEF MarketEvents, TypeOK, Books
  <2>4. evq \in Seq(MarketEvents) /\ shadow \in ShadowBooks /\ book.levels \in Quantities
    BY DEF TypeOK, Books
  <2>5. Heard' = ProcessEvent(ProcessEvent(Heard, a), z)
    <3> HIDE DEF a, z
    <3>1. evq \o <<a, z>> = Append(Append(evq, a), z) /\ Append(evq, a) \in Seq(MarketEvents)
      BY <2>3, <2>4
    <3>2. HeardOf(shadow, Append(Append(evq, a), z)) = ProcessEvent(HeardOf(shadow, Append(evq, a)), z)
      BY <2>3, <2>4, <3>1, HeardAppend
    <3>3. HeardOf(shadow, Append(evq, a)) = ProcessEvent(HeardOf(shadow, evq), a)
      BY <2>3, <2>4, HeardAppend
    <3> QED BY <1>0, <2>1, <3>1, <3>2, <3>3 DEF Heard
  <2>6. Heard'.ready /\ Heard'.levels = book.levels
    <3>1. Heard \in ShadowBooks
      BY <2>4, HeardType DEF Heard
    <3> HIDE DEF type
    <3>2. /\ ProcessEvent(ProcessEvent(Heard, a), z).ready
          /\ ProcessEvent(ProcessEvent(Heard, a), z).levels = book.levels
      BY <2>3, <2>4, <3>1, ToldIs
    <3> QED BY <2>5, <3>2
  <2>7. HeardInv'
    BY <1>0, <2>1, <2>2, <2>6 DEF HeardInv
  <2>8. HoldInv' /\ EmptyInv'
    BY <1>0, <1>2, <2>1 DEF HoldInv, EmptyInv
  <2> QED BY <1>1, <2>7, <2>8 DEF ShadowInv
<1> QED BY <1>3, <1>4, <1>5, <1>6, <1>7, <1>8 DEF TaskStep

LEMMA ShadowStep ==
  ASSUME "badUpdate" \notin Faults, TypeOK, ShadowInv, SnapshotsParse, [Next]_vars
  PROVE  ShadowInv'
<1>1. CASE UNCHANGED vars
  BY <1>1 DEF vars, ShadowInv, HeardInv, Heard, Settled, HoldInv, EmptyInv, ValidInv
<1> QED
  BY <1>1, WebSocketShadow, MainReceivesShadow, MainAppliesShadow, MainOtherShadow, TaskShadow
  DEF Next, MainDepthStep, Terminated

LEMMA ShadowInit == Init => ShadowInv
<1> SUFFICES ASSUME Init PROVE ShadowInv
  OBVIOUS
<1>1. sync.state = "Connecting" /\ pc = "idle" /\ Len(wsq) = 0
  BY DEF Init, NewSynchronizer
<1>2. \A t \in Task : tasks[t].phase = "none"
  BY DEF Init, NewTask
<1> QED BY <1>1, <1>2 DEF ShadowInv, HeardInv, Settled, HoldInv, EmptyInv, ValidInv

\* A live book that no task works on is settled, and what was heard of it is what was sent.
LEMMA SettledAgrees == TypeOK /\ ShadowInv => ShadowAgrees
<1> SUFFICES ASSUME TypeOK, ShadowInv, Live, evq = <<>>, NoTask
             PROVE  shadow.ready /\ shadow.levels = book.levels
  BY DEF ShadowAgrees
<1>1. Settled
  BY DEF Live, NoTask, Active, Settled
<1>2. Heard = shadow
  BY HeardEmpty DEF Heard
<1>3. pc # "publish"
  BY DEF Live
<1> QED BY <1>1, <1>2, <1>3 DEF ShadowInv, HeardInv

\* Where all snapshots parse, every task's does.
LEMMA ParsesStep ==
  ASSUME "badSnapshot" \notin Faults, TypeOK, \A t \in Task : tasks[t].parses, [Next]_vars
  PROVE  \A t \in Task : tasks'[t].parses
<1> DEFINE AllParse(f) == \A t \in Task : f[t].parses
<1>1. CASE tasks' = tasks
  BY <1>1
<1>2. ASSUME NEW t \in Task, NEW task, task.parses, tasks' = [tasks EXCEPT ![t] = task]
      PROVE  \A u \in Task : tasks'[u].parses
  BY <1>2 DEF TypeOK
<1>3. \A phase, kind : NewTask(phase, kind).parses
  BY DEF NewTask
<1>4. CASE MainConnected \/ MainMismatch
  <2>1. PICK t \in Task, kind \in {"initial", "resync"} :
          tasks' = [tasks EXCEPT ![t] = NewTask("fetch", kind)]
    BY <1>4 DEF MainConnected, MainMismatch, Spawn
  <2> QED BY <1>2, <1>3, <2>1
<1>5. ASSUME NEW t \in Task, TaskStep(t)
      PROVE  \A u \in Task : tasks'[u].parses
  <2> DEFINE k == tasks[t]
  <2>0. k \in Tasks /\ k.parses
    BY DEF TypeOK
  <2>1. CASE TaskFetchFails(t) \/ TaskNoBridge(t)
    <3> DEFINE task == IF k.attempt < MaxAttempts
                       THEN [NewTask("fetch", k.kind) EXCEPT !.attempt = k.attempt + 1]
                       ELSE NewTask("gaveUp", "initial")
    <3>1. tasks' = [tasks EXCEPT ![t] = task]
      BY <2>0, <2>1 DEF TaskFetchFails, TaskNoBridge, Retry, TypeOK
    <3>2. task.parses
      BY DEF NewTask
    <3> HIDE DEF task
    <3> QED BY <1>2, <3>1, <3>2
  <2>2. CASE TaskFetched(t)
    <3>1. PICK id \in Ids, parses \in Parsing("badSnapshot") :
            tasks' = [tasks EXCEPT ![t] = [@ EXCEPT !.phase = "apply", !.snap = id,
                                                    !.parses = parses]]
      BY <2>2 DEF TaskFetched
    <3> DEFINE task == [k EXCEPT !.phase = "apply", !.snap = id, !.parses = parses]
    <3>2. tasks' = [tasks EXCEPT ![t] = task]
      BY <3>1
    <3>3. task.parses
      BY <2>0 DEF Parsing, Tasks
    <3> HIDE DEF task
    <3> QED BY <1>2, <3>2, <3>3
  <2>3. CASE TaskApply(t) \/ TaskReconcile(t) \/ TaskDrain(t) \/ TaskAnnounce(t)
    <3>1. \E task : task.parses /\ tasks' = [tasks EXCEPT ![t] = task]
      <4>1. CASE TaskApply(t)
        <5>1. [k EXCEPT !.phase = "reconcile"].parses
          BY <2>0 DEF Tasks
        <5> QED BY <1>3, <4>1, <5>1 DEF TaskApply
      <4>2. CASE TaskReconcile(t)
        <5>1. \A s : [k EXCEPT !.phase = "drain", !.pending = s].parses
          BY <2>0 DEF Tasks
        <5> QED BY <4>2, <5>1 DEF TaskReconcile
      <4>3. CASE TaskDrain(t)
        <5>1. /\ [k EXCEPT !.phase = "announce", !.pending = <<>>].parses
              /\ \A s : [k EXCEPT !.pending = s].parses
          BY <2>0 DEF Tasks
        <5> QED BY <4>3, <5>1 DEF TaskDrain
      <4>4. CASE TaskAnnounce(t)
        BY <1>3, <4>4 DEF TaskAnnounce
      <4> QED BY <2>3, <4>1, <4>2, <4>3, <4>4
    <3> QED BY <1>2, <3>1
  <2> QED BY <1>5, <2>1, <2>2, <2>3 DEF TaskStep
<1>6. CASE ~MainConnected /\ ~MainMismatch /\ ~(\E t \in Task : TaskStep(t))
  <2>1. tasks' = tasks
    BY <1>6 DEF Next, WebSocketStep, Connect, Publish, PublishUnseen, LoseConnection, CloseConnection,
                engineVars, MainDepthStep, MainDisconnected, MainBuffer, MainAccept, MainApply,
                MainPublish, MainMarketEvent, MainStop, Terminated, vars
  <2> QED BY <2>1
<1> QED BY <1>4, <1>5, <1>6

\* If the numbers in all messages parse, then the shadow book of the analytics engine agrees with
\* every live book that no task works on, once the events sent are processed: also with a book
\* that lost events, or a task of an earlier connection, have made wrong.
THEOREM ShadowFollows ==
  ASSUME Faults \cap {"badSnapshot", "badUpdate"} = {}
  PROVE  Spec => []ShadowAgrees
<1> DEFINE Parse == \A t \in Task : tasks[t].parses
<1>1. Init => ShadowInv /\ Parse
  BY ShadowInit DEF Init, NewTask
<1>2. "badSnapshot" \notin Faults /\ "badUpdate" \notin Faults
  OBVIOUS
<1>3. TypeOK /\ Parse /\ ShadowInv /\ [Next]_vars => Parse' /\ ShadowInv'
  BY <1>2, ParsesStep, ShadowStep DEF SnapshotsParse
<1>4. TypeOK /\ ShadowInv => ShadowAgrees
  BY SettledAgrees
<1> HIDE DEF Parse
<1> QED BY <1>1, <1>3, <1>4, TypeCorrect, PTL DEF Spec

\* Under benign faults (snapshots that do not parse among them) the shadow book of a live engine
\* that has processed every event sent is the live book, which by BookIsExact is the venue's.
THEOREM ShadowIsExact == ASSUME Benign PROVE Spec => []ShadowExact
<1>1. IInv => SnapshotsParse
  BY DEF IInv, PhaseInv, SnapshotsParse
<1>2. "badUpdate" \notin Faults
  BY DEF Benign
<1>3. IInv /\ ShadowInv /\ [Next]_vars => ShadowInv'
  BY <1>1, <1>2, ShadowStep DEF IInv
<1>4. IInv /\ ShadowInv => ShadowExact
  <2> SUFFICES ASSUME IInv, ShadowInv, Live PROVE NoTask
    BY SettledAgrees DEF IInv, ShadowAgrees, ShadowExact
  <2> QED BY DEF IInv, PhaseInv, Live, NoTask, Active, SyncHeld, TypeOK, Tasks, Phases
<1> QED BY <1>3, <1>4, ShadowInit, Safe, PTL DEF Spec
=============================================================================
