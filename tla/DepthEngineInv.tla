--------------------------- MODULE DepthEngineInv ---------------------------
(***************************************************************************)
(* The inductive invariant behind BookExact, under the faults that do not  *)
(* break it.  Each part names the facts about one pair of neighbours in the*)
(* data path  venue -> wsq -> buffer -> book.                              *)
(***************************************************************************)
EXTENDS DepthEngine, SequencesExt

\* The faults under which the engine keeps its promise.
Benign == Faults \cap {"loss", "badUpdate", "staleTask"} = {}

NotConnected == sync.state \in {"Connecting", "Reconnecting"}

\* An event as the venue publishes it.
WellFormed(e) == e.valid /\ e.first = e.prev + 1 /\ e.prev < e.final

Chain(s) ==
  /\ \A i \in 1..Len(s) : WellFormed(s[i])
  /\ \A i \in 1..Len(s) - 1 : Continues(s[i], s[i + 1])

\* The book is the venue's book at the id it claims, resp. at the given id.
BookTrue == book.initialized /\ book.levels = BookAt[book.lastUpdateId]
BookTrueAt(id) == BookTrue /\ book.lastUpdateId = id

-----------------------------------------------------------------------------

\* At most one task; its phase, the synchronizer's state and the main loop agree.
OneTask == \A t, u \in Task : Active(t) /\ Active(u) => t = u

PhaseInv ==
  \A t \in Task :
    /\ tasks[t].phase = "fetch" => sync.state \in {"Buffering", "Stopping"}
    /\ tasks[t].phase \in {"apply", "reconcile"} =>
         sync.state \in {"SnapshotLoading", "Stopping"}
    /\ tasks[t].phase \in {"drain", "announce"} => sync.state = "Ready"
    /\ Active(t) => pc \in {"idle", "stopped"}

PcInv == pc \in {"apply", "publish"} => sync.state = "Ready"

\* The channel of the WebSocket task: whole connections, each an unbroken chain of events.
Follows(m, n) ==
  /\ n.type = "DepthUpdate" =>
       \/ m.type = "Connected"
       \/ m.type = "DepthUpdate" /\ Continues(m.update, n.update)
  /\ n.type = "Connected" => m.type = "Disconnected"

Linked(q) ==
  /\ \A i \in 1..Len(q) : q[i].type = "DepthUpdate" => WellFormed(q[i].update)
  /\ \A i \in 1..Len(q) - 1 : Follows(q[i], q[i + 1])

ChannelInv == Linked(wsq)

\* Where the channel ends, the WebSocket is.
LastInv ==
  wsq # <<>> =>
    LET m == wsq[Len(wsq)] IN
    /\ connection = "down" => m.type = "Disconnected"
    /\ connection = "up" => /\ m.type # "Disconnected"
                            /\ m.type = "DepthUpdate" => m.update.final = published

\* Where the channel begins, the synchronizer is.
HeadInv ==
  pc # "stopped" =>
    /\ wsq = <<>> /\ connection = "down" => NotConnected
    /\ wsq # <<>> /\ wsq[1].type = "Connected" => NotConnected

\* The buffer is an unbroken chain, and the channel goes on where it ends.
BufferInv ==
  /\ Chain(sync.buffer)
  /\ sync.state = "Buffering" /\ sync.buffer # <<>> /\ pc # "stopped" =>
       LET e == sync.buffer[Len(sync.buffer)] IN
       /\ wsq = <<>> => published = e.final
       /\ wsq # <<>> /\ wsq[1].type = "DepthUpdate" => Continues(e, wsq[1].update)

\* The book, when nobody is changing it.
ReadyInv ==
  /\ sync.state = "Ready" => sync.lastAppliedU # NoUpdate
  /\ sync.state = "Ready" /\ ~BookHeld /\ pc # "apply" => BookTrueAt(sync.lastAppliedU)

\* The book, while the main loop has accepted an event and not yet applied it.
InflightInv ==
  pc = "apply" => /\ WellFormed(inflight) /\ inflight.final = sync.lastAppliedU
                  /\ BookTrueAt(inflight.prev)

\* The book, while a task has loaded its snapshot, and while it drains the buffer.
ReconcileInv ==
  \A t \in Task : tasks[t].phase = "reconcile" => BookTrueAt(tasks[t].snap)

DrainInv ==
  \A t \in Task : tasks[t].phase = "drain" =>
    LET p == tasks[t].pending IN
    /\ p # <<>> /\ Chain(p)
    /\ p[Len(p)].final = sync.lastAppliedU
    /\ BookTrue
    /\ p[1].prev <= book.lastUpdateId /\ book.lastUpdateId <= p[1].final

IInv ==
  /\ TypeOK
  /\ OneTask /\ PhaseInv /\ PcInv
  /\ ChannelInv /\ LastInv /\ HeadInv
  /\ BufferInv
  /\ ReadyInv /\ InflightInv /\ ReconcileInv /\ DrainInv

-----------------------------------------------------------------------------
(* Why the shadow book follows the book, also under faults that break the book. *)

\* The shadow book once every event that was sent is processed.
HeardOf(s, events) == FoldLeft(ProcessEvent, s, events)
Heard == HeardOf(shadow, evq)

\* The book is Ready and in nobody's hands: no task has replaced it, or is to announce it.
Settled ==
  sync.state = "Ready" /\ \A t \in Task : tasks[t].phase \notin {"reconcile", "drain", "announce"}

\* An update the main loop has applied and not yet announced is missing from it.
HeardInv ==
  Settled =>
    /\ Heard.ready
    /\ book.levels = IF pc = "publish" THEN ShadowUpdate(Heard, inflight).levels ELSE Heard.levels

\* While a task holds the synchronizer, the main loop is between two events.
HoldInv ==
  \A t \in Task : tasks[t].phase \in {"drain", "announce"} =>
    sync.state = "Ready" /\ pc \in {"idle", "stopped"}

\* Nothing is buffered while the main loop handles a live event, so that no task can reconcile.
EmptyInv == sync.state = "Ready" \/ pc \in {"apply", "publish"} => sync.buffer = <<>>

\* Every event parses.
ValidInv ==
  /\ \A i \in 1..Len(wsq) : wsq[i].type = "DepthUpdate" => wsq[i].update.valid
  /\ pc = "apply" => inflight.valid

ShadowInv == HeardInv /\ HoldInv /\ EmptyInv /\ ValidInv

\* No snapshot replaces a live book and then does not parse.
SnapshotsParse ==
  \A t \in Task : tasks[t].phase = "apply" /\ sync.state = "Ready" => tasks[t].parses

-----------------------------------------------------------------------------
(* The engine implements the abstract specification DepthFeed. *)

\* What a reader sees that takes both locks: no book before Ready, while it is uninitialised,
\* or while a task drains the reconciled events into it.
ReaderView ==
  IF sync.state = "Ready" /\ book.initialized /\ ~BookHeld
    THEN [live |-> TRUE, id |-> book.lastUpdateId, levels |-> book.levels]
    ELSE [live |-> FALSE]

Feed == INSTANCE DepthFeed WITH view <- ReaderView

\* To its readers the engine is a DepthFeed: a live book is always the venue's book at some
\* update id, it advances only to later ids, and it changes id in no other way than by being
\* withdrawn and published again.
ImplementsFeed == Feed!Spec
=============================================================================
