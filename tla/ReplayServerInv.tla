--------------------------- MODULE ReplayServerInv --------------------------
(* What the replays and their commands promise. *)
EXTENDS ReplayServer

Waiters == {ClientWaits(c) : c \in Client} \cup {TaskWaits(t) : t \in Tasks}

\* Every variable keeps its type; a client's handler has one command at a time, and a replay
\* remembers no more trades than its window holds.
TypeOK ==
  /\ program \in Programs
  /\ info \in ReplayStates
  /\ queue \in Seq(Waiters)
  /\ client \in [Client -> Commands \cup {"none"}]
  /\ issued \in [Client -> 0..MaxCommands]
  /\ task \in [Tasks -> Phases]
  /\ player \in [Tasks -> Players]
  /\ played \in [Tasks -> Nat]
  /\ halt \in BOOLEAN /\ late \in [Tasks -> Nat]

BookIsVenues(p) ==
  (p.sync.state = "Ready" /\ p.linked) => p.book.levels = BookAt[p.sync.lastAppliedU]

ShadowIsBook(p) == p.shadow.ready => p.shadow.levels = p.book.levels

\* Whatever a stored session misses, a replay that calls itself synchronised has the venue's
\* book of the update it applied last (the link behind the bridge, which reconcile does not
\* test, excepted), and the analytics were given the same book (replay/engine.rs, and the
\* same events in server_replay.rs).
ReplayIsExact == \A t \in Tasks : BookIsVenues(player[t]) /\ ShadowIsBook(player[t])

\* Why: what waits in the buffer are the session's events, each of them ahead of its link, and a
\* replay that calls itself synchronised has applied one.
BufferInv(p) ==
  \A i \in DOMAIN p.sync.buffer :
    p.sync.buffer[i].first = p.sync.buffer[i].prev + 1 /\ p.sync.buffer[i].prev < p.sync.buffer[i].final

PlayerInv(p) ==
  /\ BufferInv(p)
  /\ p.sync.state = "Ready" => p.sync.lastAppliedU # NoUpdate
  /\ BookIsVenues(p) /\ ShadowIsBook(p)

PlayersInv == \A t \in Tasks : PlayerInv(player[t])

\* A pause or a stop is obeyed by every replay of the controller: from the command until a Play
\* or a Load takes it back, a replay plays at most the event it had already looked ahead of,
\* whatever the others do: one that completes, or is commanded again (run_events' loop).  It is
\* not said of a command that meets a replay which is still starting: that replay writes Loading
\* and Playing without a look, and the command is lost, for all of them (load_and_run).
PauseIsObeyed == \A t \in Tasks : late[t] <= 1

\* A Load that waits for a paused replay: every command, the Play too, waits behind it.
HeldByPause == info = "Paused" /\ \E c \in Client : client[c] = "Load"

\* Every command of every browser is served in the end, unless a Load came to wait for a
\* paused replay, which is then paused for ever (server.rs, the arms of ClientMessage).
CommandsServed ==
  <>[]HeldByPause \/ \A c \in Client : client[c] # "none" ~> client[c] = "none"
=============================================================================
