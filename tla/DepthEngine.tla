---------------------------- MODULE DepthEngine -----------------------------
(***************************************************************************)
(* The depth side of the engine, main.rs with binance/websocket.rs: the    *)
(* WebSocket task, the main loop, the snapshot tasks it spawns, and the    *)
(* event channel that feeds the analytics engine's shadow book.            *)
(*                                                                         *)
(* Concurrency.  The WebSocket task and the main loop meet in the unbounded*)
(* channel wsq.  The main loop and the snapshot tasks share the            *)
(* synchronizer and the book, each behind a tokio RwLock; a snapshot task  *)
(* keeps the synchronizer's write lock from reconcile until it has sent its*)
(* announcement (phases "drain" and "announce"), and the book's write lock *)
(* while it drains the reconciled events; every other critical section is  *)
(* one step.  A recorder is not attached (--record off).                   *)
(***************************************************************************)
EXTENDS OrderBook, Synchronizer

CONSTANTS Task,         \* slots for snapshot tasks; bounds how many run at once
          MaxAttempts,  \* MAX_SNAPSHOT_RETRIES and MAX_RESYNC_RETRIES
          MaxConns,     \* bound: how many times the WebSocket task connects
          Faults        \* the faults of the environment that may occur

(***************************************************************************)
(* "rest"      a REST request may fail or time out                         *)
(* "badSnapshot", "badUpdate"  a price or quantity in it may not parse     *)
(* "close"     the venue may close the stream with a Close frame           *)
(* "liveLoss"  a frame may fail to parse while the book is live and the    *)
(*             main loop has handled every earlier message                 *)
(* "loss"      a frame may fail to parse at any time                       *)
(* "staleTask" the main loop may learn of a lost connection while a        *)
(*             snapshot task is still running                              *)
(***************************************************************************)
FaultKinds ==
  {"rest", "badSnapshot", "badUpdate", "close", "liveLoss", "loss", "staleTask"}

ASSUME EngineAssumption ==
  /\ MaxAttempts \in Nat \ {0}
  /\ MaxConns \in Nat
  /\ Faults \subseteq FaultKinds

VARIABLES
  published,   \* the final id of the last event of the venue's depth stream
  connection,  \* the WebSocket: "up" or "down"
  conns,       \* how many times it was connected
  wsq,         \* ws_tx / ws_rx: messages from the WebSocket task to the main loop
  sync,        \* the synchronizer
  book,        \* the order book
  pc,          \* where the main loop is: "idle" is its select!
  inflight,    \* the event the main loop has accepted and not yet announced
  tasks,       \* the snapshot tasks
  evq,         \* event_tx / event_rx: market events for the analytics engine
  shadow       \* the shadow book of the analytics engine

vars == <<published, connection, conns, wsq, sync, book, pc, inflight, tasks, evq, shadow>>

-----------------------------------------------------------------------------
(* Types *)

Connected == [type |-> "Connected"]
Disconnected == [type |-> "Disconnected"]
Depth(e) == [type |-> "DepthUpdate", update |-> e]

WsMessages ==
  [type : {"Connected", "Disconnected"}] \cup [type : {"DepthUpdate"}, update : DepthUpdates]

\* MarketEvent, without the fields that the shadow book does not read.
MarketEvents ==
       [type : {"ConnectionLost", "Synchronized", "ResyncStarted", "ResyncCompleted"}]
  \cup [type : {"Snapshot"}, levels : Quantities]
  \cup [type : {"Updated"}, update : DepthUpdates]

NoEvent == [type |-> "none"]

Phases == {"none", "gaveUp", "fetch", "apply", "reconcile", "drain", "announce"}

Tasks == [phase : Phases, kind : {"initial", "resync"}, attempt : 1..MaxAttempts,
          snap : Ids, parses : BOOLEAN, pending : Seq(DepthUpdates)]

NewTask(phase, kind) ==
  [phase |-> phase, kind |-> kind, attempt |-> 1, snap |-> 0, parses |-> TRUE,
   pending |-> <<>>]

TypeOK ==
  /\ published \in Ids
  /\ connection \in {"up", "down"}
  /\ conns \in 0..MaxConns
  /\ wsq \in Seq(WsMessages)
  /\ sync \in Synchronizers
  /\ book \in Books
  /\ pc \in {"idle", "apply", "publish", "stopped"}
  /\ inflight \in DepthUpdates \cup {NoEvent}
  /\ pc \in {"apply", "publish"} => inflight \in DepthUpdates
  /\ tasks \in [Task -> Tasks]
  /\ evq \in Seq(MarketEvents)
  /\ shadow \in ShadowBooks

Init ==
  /\ published = 0
  /\ connection = "down"
  /\ conns = 0
  /\ wsq = <<>>
  /\ sync = NewSynchronizer
  /\ book = NewBook
  /\ pc = "idle"
  /\ inflight = NoEvent
  /\ tasks = [t \in Task |-> NewTask("none", "initial")]
  /\ evq = <<>>
  /\ shadow = NewShadow

-----------------------------------------------------------------------------
(* Locks and tasks *)

Active(t) == tasks[t].phase \notin {"none", "gaveUp"}

NoTask == \A t \in Task : ~Active(t)

\* Some task holds the write lock of the synchronizer, of the book.
SyncHeld == \E t \in Task : tasks[t].phase \in {"drain", "announce"}
BookHeld == \E t \in Task : tasks[t].phase = "drain"

Spawn(kind) ==
  \E t \in Task : ~Active(t) /\ tasks' = [tasks EXCEPT ![t] = NewTask("fetch", kind)]

\* Whether the numbers of a message parse, under the fault that makes them malformed.
Parsing(fault) == IF fault \in Faults THEN BOOLEAN ELSE {TRUE}

Send(event) == evq' = Append(evq, event)

-----------------------------------------------------------------------------
(* The venue and the WebSocket task (WsClient::run) *)

wsVars == <<published, connection, conns, wsq>>
engineVars == <<sync, book, pc, inflight, tasks, evq, shadow>>

Connect ==
  /\ connection = "down" /\ conns < MaxConns
  /\ connection' = "up"
  /\ conns' = conns + 1
  /\ wsq' = Append(wsq, Connected)
  /\ UNCHANGED <<published, engineVars>>

\* The venue publishes an event and the WebSocket task hands it to the main loop.
Publish ==
  /\ connection = "up"
  /\ \E n \in published + 1 .. MaxId, valid \in Parsing("badUpdate") :
       /\ published' = n
       /\ wsq' = Append(wsq, Depth(DepthUpdate(published, n, valid)))
  /\ UNCHANGED <<connection, conns, engineVars>>

\* The venue publishes an event that does not reach the main loop: nobody is connected, or
\* the frame does not parse, which the WebSocket task only logs.
PublishUnseen ==
  /\ \/ connection = "down"
     \/ "loss" \in Faults
     \/ "liveLoss" \in Faults /\ sync.state = "Ready" /\ wsq = <<>>
  /\ \E n \in published + 1 .. MaxId : published' = n
  /\ UNCHANGED <<connection, conns, wsq, engineVars>>

\* The read loop ends on an error: Disconnected is sent once, after the loop.
LoseConnection ==
  /\ connection = "up"
  /\ connection' = "down"
  /\ wsq' = Append(wsq, Disconnected)
  /\ UNCHANGED <<published, conns, engineVars>>

\* The read loop ends on a Close frame: Disconnected is sent in the loop and again after it.
CloseConnection ==
  /\ connection = "up" /\ "close" \in Faults
  /\ connection' = "down"
  /\ wsq' = Append(Append(wsq, Disconnected), Disconnected)
  /\ UNCHANGED <<published, conns, engineVars>>

-----------------------------------------------------------------------------
(* The main loop: one branch of its select! at a time *)

\* The main loop receives a message of the given type from the WebSocket task and takes the
\* synchronizer's write lock.
Receive(type) ==
  /\ pc = "idle"
  /\ wsq # <<>> /\ Head(wsq).type = type
  /\ ~SyncHeld
  /\ wsq' = Tail(wsq)

MainConnected ==
  /\ Receive("Connected")
  /\ sync' = OnConnected(sync)
  /\ Spawn("initial")
  /\ UNCHANGED <<published, connection, conns, book, pc, inflight, evq, shadow>>

MainDisconnected ==
  /\ Receive("Disconnected")
  /\ "staleTask" \in Faults \/ NoTask
  /\ sync' = OnReconnecting(sync)
  /\ book' = SetInitialized(book, FALSE)
  /\ Send([type |-> "ConnectionLost"])
  /\ UNCHANGED <<published, connection, conns, pc, inflight, tasks, shadow>>

\* A depth event outside Ready: buffer_event, which keeps it only in state Buffering.
MainBuffer ==
  /\ Receive("DepthUpdate")
  /\ sync.state # "Ready"
  /\ sync' = BufferEvent(sync, Head(wsq).update)
  /\ UNCHANGED <<published, connection, conns, book, pc, inflight, tasks, evq, shadow>>

\* Mutant: no snapshot task is spawned for the resync.
MainMismatchAlone ==
  /\ Receive("DepthUpdate")
  /\ sync.state = "Ready" /\ PuMismatch(sync, Head(wsq).update)
  /\ Send([type |-> "ResyncStarted"])
  /\ sync' = TriggerResync(sync)
  /\ UNCHANGED <<published, connection, conns, book, pc, inflight, tasks, shadow>>

\* A live event that does not continue the last one: resync.  The event itself is dropped.
MainMismatch ==
  /\ Receive("DepthUpdate")
  /\ sync.state = "Ready" /\ PuMismatch(sync, Head(wsq).update)
  /\ Send([type |-> "ResyncStarted"])
  /\ sync' = TriggerResync(sync)
  /\ Spawn("resync")
  /\ UNCHANGED <<published, connection, conns, book, pc, inflight, shadow>>

\* A live event that continues the last one.  An event whose final id is not larger would be
\* dropped as stale: the venue numbers no event that way, since prev is smaller than final.
MainAccept ==
  /\ Receive("DepthUpdate")
  /\ sync.state = "Ready"
  /\ ~PuMismatch(sync, Head(wsq).update) /\ ~StaleEvent(sync, Head(wsq).update)
  /\ sync' = AcceptLive(sync, Head(wsq).update)
  /\ inflight' = Head(wsq).update
  /\ pc' = "apply"
  /\ UNCHANGED <<published, connection, conns, book, tasks, evq, shadow>>

\* Mutant: an event that could not be applied is announced all the same.
MainApplyAnnouncesAlways ==
  /\ pc = "apply" /\ ~BookHeld
  /\ book' \in AfterUpdate(book, inflight)
  /\ pc' = "publish"
  /\ UNCHANGED <<wsVars, sync, inflight, tasks, evq, shadow>>

\* The synchronizer's lock is released before the book's is taken.  An error is only logged.
MainApply ==
  /\ pc = "apply" /\ ~BookHeld
  /\ book' \in AfterUpdate(book, inflight)
  /\ IF CanApply(book, inflight)
       THEN pc' = "publish" /\ UNCHANGED inflight
       ELSE pc' = "idle" /\ inflight' = NoEvent
  /\ UNCHANGED <<wsVars, sync, tasks, evq, shadow>>

\* The book's lock is released before OrderBookUpdated is sent.
MainPublish ==
  /\ pc = "publish"
  /\ Send([type |-> "Updated", update |-> inflight])
  /\ pc' = "idle"
  /\ inflight' = NoEvent
  /\ UNCHANGED <<wsVars, sync, book, tasks, shadow>>

\* AnalyticsEngine::process_event, as far as the shadow book s goes.
ProcessEvent(s, ev) ==
  CASE ev.type = "Snapshot" -> ShadowSnapshot(ev.levels)
    [] ev.type = "Updated" -> ShadowUpdate(s, ev.update)
    [] ev.type = "Synchronized" -> SetReady(s, TRUE)
    [] ev.type = "ResyncStarted" -> SetReady(s, FALSE)
    [] OTHER -> s

\* Mutant: the market events wait until the synchronizer is Ready.
MainMarketEventWhenReady ==
  /\ pc = "idle" /\ evq # <<>> /\ sync.state = "Ready"
  /\ evq' = Tail(evq)
  /\ shadow' = ProcessEvent(shadow, Head(evq))
  /\ UNCHANGED <<wsVars, sync, book, pc, inflight, tasks>>

MainMarketEvent ==
  /\ pc = "idle" /\ evq # <<>>
  /\ evq' = Tail(evq)
  /\ shadow' = ProcessEvent(shadow, Head(evq))
  /\ UNCHANGED <<wsVars, sync, book, pc, inflight, tasks>>

\* The duration limit: the loop ends and the synchronizer is shut down.
MainStop ==
  /\ pc = "idle" /\ ~SyncHeld
  /\ pc' = "stopped"
  /\ sync' = Shutdown(sync)
  /\ UNCHANGED <<wsVars, book, inflight, tasks, evq, shadow>>

-----------------------------------------------------------------------------
(* A snapshot task, spawned on Connected ("initial") or on a mismatch ("resync") *)

\* Mutant: one attempt too many.
RetryOnceMore(t) ==
  tasks' = [tasks EXCEPT ![t] =
              IF @.attempt <= MaxAttempts
                THEN [NewTask("fetch", @.kind) EXCEPT !.attempt = tasks[t].attempt + 1]
                ELSE NewTask("gaveUp", "initial")]

\* Mutant: the attempts are not counted.
RetryForever(t) == tasks' = [tasks EXCEPT ![t] = NewTask("fetch", @.kind)]

\* The next attempt after a pause, or the end of the task without a synchronized book.
Retry(t) ==
  tasks' = [tasks EXCEPT ![t] =
              IF @.attempt < MaxAttempts
                THEN [NewTask("fetch", @.kind) EXCEPT !.attempt = tasks[t].attempt + 1]
                ELSE NewTask("gaveUp", "initial")]

\* The REST request fails or times out.
TaskFetchFails(t) ==
  /\ tasks[t].phase = "fetch" /\ "rest" \in Faults /\ ~SyncHeld
  /\ sync' = TriggerResync(sync)
  /\ Retry(t)
  /\ UNCHANGED <<wsVars, book, pc, inflight, evq, shadow>>

\* The REST snapshot arrives: the venue's book at some id (the stream may be ahead or behind).
TaskFetched(t) ==
  /\ tasks[t].phase = "fetch" /\ ~SyncHeld
  /\ sync' = OnSnapshotLoading(sync)
  /\ \E id \in Ids, parses \in Parsing("badSnapshot") :
       tasks' = [tasks EXCEPT ![t] = [@ EXCEPT !.phase = "apply", !.snap = id,
                                               !.parses = parses]]
  /\ UNCHANGED <<wsVars, book, pc, inflight, evq, shadow>>

\* The snapshot replaces the book.  If it does not parse the task returns at once, and leaves
\* the synchronizer in SnapshotLoading.
TaskApply(t) ==
  /\ tasks[t].phase = "apply" /\ ~BookHeld
  /\ IF tasks[t].parses
       THEN /\ book' = ApplySnapshot(BookAt[tasks[t].snap], tasks[t].snap)
            /\ tasks' = [tasks EXCEPT ![t] = [@ EXCEPT !.phase = "reconcile"]]
       ELSE /\ book' \in FailedSnapshots(book, BookAt[tasks[t].snap])
            /\ tasks' = [tasks EXCEPT ![t] = NewTask("gaveUp", "initial")]
  /\ UNCHANGED <<wsVars, sync, pc, inflight, evq, shadow>>

\* reconcile returns NoBridgingEvent.
TaskNoBridge(t) ==
  /\ tasks[t].phase = "reconcile" /\ ~SyncHeld
  /\ NoBridge(sync, tasks[t].snap)
  /\ sync' = TriggerResync(sync)
  /\ Retry(t)
  /\ UNCHANGED <<wsVars, book, pc, inflight, evq, shadow>>

\* reconcile returns the events from the bridge to the end of the chain; the task keeps the
\* synchronizer's lock and takes the book's.
TaskReconcile(t) ==
  /\ tasks[t].phase = "reconcile" /\ ~SyncHeld
  /\ \E b \in DOMAIN sync.buffer : \E e \in b .. Len(sync.buffer) :
       /\ IsBridge(sync, tasks[t].snap, b) /\ IsChainEnd(sync, b, e)
       /\ sync' = Reconciled(sync, e)
       /\ tasks' = [tasks EXCEPT ![t] = [@ EXCEPT !.phase = "drain",
                                                  !.pending = SubSeq(sync.buffer, b, e)]]
  /\ UNCHANGED <<wsVars, book, pc, inflight, evq, shadow>>

\* One reconciled event is applied.  The initial task stops at an error, a resync ignores it.
TaskDrain(t) ==
  /\ tasks[t].phase = "drain" /\ tasks[t].pending # <<>>
  /\ LET e == Head(tasks[t].pending)
         left == Tail(tasks[t].pending)
         halt == tasks[t].kind = "initial" /\ ~CanApply(book, e)
     IN  /\ book' \in AfterUpdate(book, e)
         /\ tasks' = [tasks EXCEPT ![t] =
                        IF halt \/ left = <<>>
                          THEN [@ EXCEPT !.phase = "announce", !.pending = <<>>]
                          ELSE [@ EXCEPT !.pending = left]]
  /\ UNCHANGED <<wsVars, sync, pc, inflight, evq, shadow>>

\* Mutant: the REST snapshot is announced instead of the book.
TaskAnnounceSnapshot(t) ==
  /\ tasks[t].phase = "announce"
  /\ evq' = evq \o <<[type |-> "Snapshot", levels |-> BookAt[tasks[t].snap]],
                     [type |-> IF tasks[t].kind = "initial" THEN "Synchronized"
                               ELSE "ResyncCompleted"]>>
  /\ tasks' = [tasks EXCEPT ![t] = NewTask("none", "initial")]
  /\ UNCHANGED <<wsVars, sync, book, pc, inflight, shadow>>

\* The task reads the book, announces it, and returns, which releases the synchronizer.
TaskAnnounce(t) ==
  /\ tasks[t].phase = "announce"
  /\ evq' = evq \o <<[type |-> "Snapshot", levels |-> book.levels],
                     [type |-> IF tasks[t].kind = "initial" THEN "Synchronized"
                               ELSE "ResyncCompleted"]>>
  /\ tasks' = [tasks EXCEPT ![t] = NewTask("none", "initial")]
  /\ UNCHANGED <<wsVars, sync, book, pc, inflight, shadow>>

-----------------------------------------------------------------------------

WebSocketStep == Connect \/ Publish \/ PublishUnseen \/ LoseConnection \/ CloseConnection

\* The branch of select! that receives from the WebSocket task, to its end.
MainDepthStep ==
  \/ MainConnected \/ MainDisconnected \/ MainBuffer \/ MainMismatch \/ MainAccept
  \/ MainApply \/ MainPublish

TaskStep(t) ==
  \/ TaskFetchFails(t) \/ TaskFetched(t) \/ TaskApply(t) \/ TaskNoBridge(t)
  \/ TaskReconcile(t) \/ TaskDrain(t) \/ TaskAnnounce(t)

\* The engine has been shut down; the process is about to exit.
Terminated == pc = "stopped" /\ UNCHANGED vars

Next ==
  \/ WebSocketStep
  \/ MainDepthStep
  \/ MainMarketEvent
  \/ MainStop
  \/ \E t \in Task : TaskStep(t)
  \/ Terminated

Spec == Init /\ [][Next]_vars

\* The tokio runtime keeps polling a task that is ready, its RwLock serves waiters in order,
\* and select! picks among its ready branches at random.  After the shutdown nothing is
\* guaranteed: the runtime drops the tasks.  The venue guarantees nothing.
Fairness ==
  /\ WF_vars(MainDepthStep)
  /\ WF_vars(MainMarketEvent)
  /\ \A t \in Task : WF_vars(pc # "stopped" /\ TaskStep(t))

FairSpec == Spec /\ Fairness

-----------------------------------------------------------------------------
(* Properties *)

\* The book is published as live: the synchronizer is Ready, nobody is changing it.
Live == sync.state = "Ready" /\ ~SyncHeld /\ pc \in {"idle", "stopped"}

\* A book published as live is exactly the venue's book after the last event the synchronizer
\* accepted.  (SyncState::Ready: "Book is fully synchronized and live".)
BookExact ==
  Live => /\ book.initialized
          /\ book.lastUpdateId = sync.lastAppliedU
          /\ book.levels = BookAt[sync.lastAppliedU]

\* While the book is being synchronized some snapshot task is at work on it, unless the last
\* one ran out of attempts or met a snapshot that does not parse; and no two tasks ever work
\* on it at once.  (main.rs keeps no handle of the tasks it spawns.)
SomeoneSynchronizes ==
  /\ sync.state \in {"Buffering", "SnapshotLoading"} =>
       \E t \in Task : Active(t) \/ tasks[t].phase = "gaveUp"
  /\ \A t, u \in Task : Active(t) /\ Active(u) => t = u

\* Once the analytics engine has consumed the events that were sent, its shadow book is the
\* live book.
ShadowExact == Live /\ evq = <<>> => shadow.ready /\ shadow.levels = book.levels

\* The same when events are lost or a task outlives its connection: if no task is running
\* either, the shadow book agrees with the book, even when the book is wrong.
ShadowAgrees == Live /\ evq = <<>> /\ NoTask => shadow.ready /\ shadow.levels = book.levels

\* A synchronization that has begun ends: with a live book, with a task out of attempts, or
\* because the connection is lost or the engine stops.
SyncSettles ==
  (sync.state \in {"Buffering", "SnapshotLoading"}) ~>
    (Live \/ sync.state = "Reconnecting" \/ pc = "stopped"
       \/ \E t \in Task : tasks[t].phase = "gaveUp")

\* What the engine announces reaches the shadow book.
ShadowCatchesUp ==
  (evq # <<>> /\ pc # "stopped") ~> (pc = "stopped" \/ evq = <<>>)
=============================================================================
