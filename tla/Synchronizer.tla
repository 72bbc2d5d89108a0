---------------------------- MODULE Synchronizer ----------------------------
(***************************************************************************)
(* orderbook/synchronizer.rs: the state machine that ties the depth stream *)
(* to a REST snapshot, one operator per method, on a record that stands for*)
(* `self'.  The counters that nothing reads back (events_received, ...) are*)
(* left out; reconnect_count is kept because it is published.              *)
(***************************************************************************)
EXTENDS Exchange, Sequences

SyncStates == {"Connecting", "Buffering", "SnapshotLoading", "Ready", "Reconnecting",
               "Stopping"}

NoUpdate == 0   \* last_applied_u = None; the final id of an event is at least 1

Synchronizers ==
  [state : SyncStates, buffer : Seq(DepthUpdates), lastAppliedU : Ids, reconnectCount : Nat]

\* Synchronizer::new followed by main's on_connecting, before the WebSocket task starts.
NewSynchronizer ==
  [state |-> "Connecting", buffer |-> <<>>, lastAppliedU |-> NoUpdate, reconnectCount |-> 0]

\* Mutant: the events of an earlier connection stay in the buffer.
OnConnectedKeepsBuffer(s) == [s EXCEPT !.state = "Buffering", !.lastAppliedU = NoUpdate]

OnConnected(s) ==
  [s EXCEPT !.state = "Buffering", !.buffer = <<>>, !.lastAppliedU = NoUpdate]

OnReconnecting(s) ==
  [s EXCEPT !.state = "Reconnecting", !.reconnectCount = @ + 1]

OnSnapshotLoading(s) == [s EXCEPT !.state = "SnapshotLoading"]

\* Mutant: the events buffered before the failed attempt stay in the buffer.
TriggerResyncKeepsBuffer(s) == [s EXCEPT !.state = "Buffering", !.lastAppliedU = NoUpdate]

TriggerResync(s) ==
  [s EXCEPT !.state = "Buffering", !.buffer = <<>>, !.lastAppliedU = NoUpdate]

Shutdown(s) == [s EXCEPT !.state = "Stopping"]

\* buffer_event: outside Buffering the event is dropped without a trace.
BufferEvent(s, e) ==
  IF s.state = "Buffering" THEN [s EXCEPT !.buffer = Append(@, e)] ELSE s

\* Mutant: a gap in the live stream goes unnoticed.
PuNeverMismatches(s, e) == FALSE

\* process_live_event in state Ready.
PuMismatch(s, e) == s.lastAppliedU # NoUpdate /\ e.prev # s.lastAppliedU

StaleEvent(s, e) == s.lastAppliedU # NoUpdate /\ e.final <= s.lastAppliedU

AcceptLive(s, e) == [s EXCEPT !.lastAppliedU = e.final]

-----------------------------------------------------------------------------
(* reconcile(snapshot_last_update_id) *)

\* Step 2: the event's range of ids contains the id of the snapshot.  (Step 1 drops events
\* that end before it from the front: none of them can be a bridge.)
Bridges(e, id) == e.first <= id /\ id <= e.final

\* The index of the event that reconcile takes as the bridge.
IsBridge(s, id, b) ==
  /\ Bridges(s.buffer[b], id)
  /\ \A i \in 1..b - 1 : ~Bridges(s.buffer[i], id)

NoBridge(s, id) == \A i \in DOMAIN s.buffer : ~Bridges(s.buffer[i], id)

\* Step 3: the chain that starts at the bridge ends at index e.  expected_pu is still None
\* when the event after the bridge is examined, so the first link tested is the second.
IsChain(s, b, e) == \A i \in b + 2 .. e : Continues(s.buffer[i - 1], s.buffer[i])

IsChainEnd(s, b, e) ==
  /\ IsChain(s, b, e)
  /\ e # Len(s.buffer) => ~IsChain(s, b, e + 1)

\* The synchronizer after a reconcile that returns the events b .. e of the buffer.
Reconciled(s, e) ==
  [s EXCEPT !.state = "Ready", !.buffer = <<>>, !.lastAppliedU = s.buffer[e].final]
=============================================================================
