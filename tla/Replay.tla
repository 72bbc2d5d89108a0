------------------------------- MODULE Replay -------------------------------
(***************************************************************************)
(* replay/: a recorded session, event by event, through a Synchronizer, an *)
(* OrderBook and a TradeProcessor of its own.  One operator per kind of    *)
(* event, on a record that stands for the local variables of a replay.     *)
(* There are two replays: run_replay (replay/engine.rs, the subcommand     *)
(* `replay') and run_events (server_replay.rs, for the browser), which     *)
(* differ in what a gap does to them.                                      *)
(***************************************************************************)
EXTENDS OrderBook, Synchronizer, TradeProcessor, SequencesExt

\* reader.rs: the events a stored session may hold behind a depth event that ended at `at'.
\* Depth events are stored in the order of their arrival.  Those of a lost connection or of a
\* full queue are missing, and so is every event without a level: an event is stored as one
\* row per level.  A snapshot may be of any age, and may be there twice.
Snapshot(id) == [kind |-> "snapshot", id |-> id]
Depth(e) == [kind |-> "depth", update |-> e]
Trade(id) == [kind |-> "trade", id |-> id]

StoredUpdates(at) ==
  {e \in DepthUpdates : /\ at <= e.prev /\ e.prev < e.final
                        /\ e.first = e.prev + 1 /\ e.valid /\ DOMAIN Changes(e) # {}}

ReplayEvents(at) ==
  {Snapshot(id) : id \in 1..MaxId} \cup {Depth(e) : e \in StoredUpdates(at)}
    \cup {Trade(id) : id \in TradeIds}

-----------------------------------------------------------------------------
\* `at' is the position in the session.  `linked' is a ghost: the event that reconcile took
\* behind the bridge, whose link it does not test (see IsChain), continues the bridge.
Players ==
  [at : Ids, sync : Synchronizers, book : Books, shadow : ShadowBooks, trades : Processors,
   linked : BOOLEAN]

NewPlayer ==
  [at |-> 0, sync |-> OnConnected(NewSynchronizer), book |-> NewBook, shadow |-> NewShadow,
   trades |-> NewProcessor, linked |-> TRUE]

Load(p, id) ==
  [p EXCEPT !.sync = OnSnapshotLoading(@), !.book = ApplySnapshot(BookAt[id], id)]

\* The events of the buffer from index b to index e are applied.
Apply(p, b, e) ==
  [p EXCEPT !.sync = Reconciled(@, e),
            !.book = FoldLeft(ApplyDepthUpdate, @, SubSeq(p.sync.buffer, b, e)),
            !.linked = b = e \/ Continues(p.sync.buffer[b], p.sync.buffer[b + 1])]

\* The analytics engine is given the book of the replay.
Seed(p) == [p EXCEPT !.shadow = ShadowSnapshot(p.book.levels)]

\* What reconcile finds in the buffer: where the bridge is and where the chain behind it ends.
IsFound(s, id, b, e) == b <= e /\ IsBridge(s, id, b) /\ IsChainEnd(s, b, e)

Chains(s, id) ==
  {be \in (DOMAIN s.buffer) \X (DOMAIN s.buffer) : IsFound(s, id, be[1], be[2])}

\* Mutant: they are given the book of the snapshot, before the buffered events.
AfterSnapshotSeedFirst(p, id) ==
  IF NoBridge(p.sync, id)
    THEN {Seed([Load(p, id) EXCEPT !.sync = TriggerResync(@)])}
    ELSE {Apply(Seed(Load(p, id)), be[1], be[2]) : be \in Chains(p.sync, id)}

\* A snapshot of the session: the book is loaded, then reconciled with what was buffered.
AfterSnapshot(p, id) ==
  IF NoBridge(p.sync, id)
    THEN {Seed([Load(p, id) EXCEPT !.sync = TriggerResync(@)])}
    ELSE {Seed(Apply(Load(p, id), be[1], be[2])) : be \in Chains(p.sync, id)}

Live(p, e) ==
  [p EXCEPT !.sync = AcceptLive(@, e), !.book = ApplyDepthUpdate(@, e),
            !.shadow = ShadowUpdate(@, e)]

\* A depth event whose gap leaves the player `onGap'.
AfterDepth(p, e, onGap) ==
  CASE p.sync.state # "Ready" -> [p EXCEPT !.sync = BufferEvent(@, e)]
    [] p.sync.state = "Ready" /\ PuMismatch(p.sync, e) -> onGap
    [] p.sync.state = "Ready" /\ ~PuMismatch(p.sync, e) /\ StaleEvent(p.sync, e) -> p
    [] OTHER -> Live(p, e)

\* run_replay: a gap starts a resynchronisation.
EngineGap(p) == [p EXCEPT !.sync = TriggerResync(@)]

\* run_events: a gap is dropped in silence, and the replay goes on waiting for the lost link.
StreamGap(p) == p

AfterTrade(p, id) == [p EXCEPT !.trades = Process(@, id)]

\* The players that an event may leave, with one of the two answers to a gap.
Played(p, event, onGap) ==
  CASE event.kind = "snapshot" -> AfterSnapshot(p, event.id)
    [] event.kind = "depth" ->
         {[AfterDepth(p, event.update, onGap) EXCEPT !.at = event.update.final]}
    [] event.kind = "trade" -> {AfterTrade(p, event.id)}
=============================================================================
