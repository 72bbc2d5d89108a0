---------------------------- MODULE ReplayServer ----------------------------
(***************************************************************************)
(* The replays of the program and the commands of the browsers:            *)
(* server_replay.rs, the commands of server.rs, and replay/engine.rs.      *)
(*                                                                         *)
(* A client's handler and the task of a replay reach the controller        *)
(* through one tokio RwLock.  The lock is fair: whoever waits is served in *)
(* order of arrival, so a reader behind a waiting writer waits too.  A     *)
(* replay reads the lock from its first step to its last, which is why its *)
(* controller is never replaced and `info' is the state of the only one.   *)
(* info's own lock is held within a single step.                           *)
(***************************************************************************)
EXTENDS Replay, FiniteSets

CONSTANTS Client,       \* the browsers
          MaxCommands,  \* bound: commands of a client
          MaxLoads,     \* bound: replays that are started
          MaxEvents,    \* bound: events of a session nobody commands
          MaxServed,    \* bound: events of a session the browsers command
          ServedEvents  \* bound: the events of such a session, the rest being explored without them

ASSUME ServerAssumption ==
  /\ MaxCommands \in Nat /\ MaxLoads \in Nat \ {0} /\ MaxEvents \in Nat /\ MaxServed \in Nat
  /\ \A event \in ServedEvents : event.kind = "trade" /\ event.id \in TradeIds

Tasks == 1..MaxLoads
ReplayStates == {"Idle", "Loading", "Playing", "Paused", "Completed"}
Commands == {"Load", "Play", "Pause", "Speed", "Stop"}
Phases == {"none", "spawned", "queued", "begin", "loading", "next", "check", "play", "done"}

\* How the program was started: the subcommand `replay'; the flag --replay-session, whose
\* controller is its own and gets no commands; or a server that waits for commands.
Programs == {"replay", "session", "serve"}

ClientWaits(c) == [kind |-> "client", who |-> c]
TaskWaits(t) == [kind |-> "task", who |-> t]

VARIABLES program, \* how the program was started
          info,    \* ReplayInfo.state of the controller
          queue,   \* who waits for the controller's lock
          client,  \* the command a client's handler is busy with, or "none"
          issued,  \* ghost: how many commands each client sent
          task,    \* where each replay is
          player,  \* the local variables of each replay
          played,  \* how many events each replay has played
          halt,    \* ghost: whether a pause or a stop is in force
          late     \* ghost: the events each replay has played since

vars == <<program, info, queue, client, issued, task, player, played, halt, late>>

Halted(state) == state \in {"Paused", "Idle", "Completed"}

\* The tasks that hold the lock for reading.
Readers == {t \in Tasks : task[t] \in {"begin", "loading", "next", "check", "play"}}

NoneLate == [t \in Tasks |-> 0]

\* The only task of a program that nobody commands starts behind the loading of its session
\* (the subcommand), or with it (the flag).
FirstPhase(p) ==
  CASE p = "replay" -> "play" [] p = "session" -> "begin" [] p = "serve" -> "none"

Init ==
  /\ program \in Programs
  /\ info = "Idle"
  /\ queue = <<>>
  /\ client = [c \in Client |-> "none"]
  /\ issued = [c \in Client |-> 0]
  /\ task = [t \in Tasks |-> IF t = 1 THEN FirstPhase(program) ELSE "none"]
  /\ player = [t \in Tasks |-> NewPlayer]
  /\ played = [t \in Tasks |-> 0]
  /\ halt = FALSE
  /\ late = NoneLate

-----------------------------------------------------------------------------
(* The replay of a session nobody can reach: cmd_replay. *)

EngineEvent ==
  /\ program = "replay" /\ task[1] = "play" /\ played[1] < MaxEvents
  /\ \E event \in ReplayEvents(player[1].at) :
       \E p \in Played(player[1], event, EngineGap(player[1])) :
         player' = [player EXCEPT ![1] = p]
  /\ played' = [played EXCEPT ![1] = @ + 1]
  /\ UNCHANGED <<program, info, queue, client, issued, task, halt, late>>

EngineEnds ==
  /\ program = "replay" /\ task[1] = "play"
  /\ task' = [task EXCEPT ![1] = "done"]
  /\ UNCHANGED <<program, info, queue, client, issued, player, played, halt, late>>

-----------------------------------------------------------------------------
(* handle_socket: a client's handler waits for the lock, and does nothing else meanwhile. *)

Loads == {t \in Tasks : task[t] # "none"}
LoadsSent == {c \in Client : client[c] = "Load"}

\* A bound, not a guard of the code: the replays that may still be started.
MayLoad == Cardinality(Loads) + Cardinality(LoadsSent) < MaxLoads

ClientSends(c, command) ==
  /\ program = "serve" /\ client[c] = "none" /\ issued[c] < MaxCommands
  /\ command = "Load" => MayLoad
  /\ client' = [client EXCEPT ![c] = command]
  /\ issued' = [issued EXCEPT ![c] = @ + 1]
  /\ queue' = Append(queue, ClientWaits(c))
  /\ UNCHANGED <<program, info, task, player, played, halt, late>>

First(waiter) == queue # <<>> /\ Head(queue) = waiter

\* What pause, play, set_speed and stop leave of info.state.
Commanded(state, command) ==
  CASE command = "Pause" /\ state = "Playing" -> "Paused"
    [] command = "Play" /\ state = "Paused" -> "Playing"
    [] command = "Stop" -> "Idle"
    [] OTHER -> state

\* The replays that will still write Loading or Playing, and take back whatever was commanded.
Starting == {t \in Tasks : task[t] \in {"spawned", "queued", "begin", "loading"}}

\* ghost: a pause or a stop is in force from its command on, if it meets no replay that is
\* starting, until a Play or a Load takes it back.
Halting(command) ==
  /\ halt' = (/\ Halted(Commanded(info, command))
              /\ IF command \in {"Pause", "Stop"} THEN Starting = {} ELSE halt)
  /\ late' = IF halt' THEN late ELSE NoneLate

\* A reader's turn: the command runs and the lock is dropped.
ServeCommand(c) ==
  /\ First(ClientWaits(c)) /\ client[c] \in Commands \ {"Load"}
  /\ info' = Commanded(info, client[c]) /\ Halting(client[c])
  /\ client' = [client EXCEPT ![c] = "none"]
  /\ queue' = Tail(queue)
  /\ UNCHANGED <<program, issued, task, player, played>>

\* The writer's turn: a new controller, idle, and a task that will run it.
ServeLoad(c) ==
  /\ First(ClientWaits(c)) /\ client[c] = "Load" /\ Readers = {}
  /\ \E t \in Tasks :
       /\ task[t] = "none" /\ \A u \in Tasks : u < t => task[u] # "none"
       /\ task' = [task EXCEPT ![t] = "spawned"]
  /\ info' = "Idle" /\ halt' = FALSE /\ late' = NoneLate
  /\ client' = [client EXCEPT ![c] = "none"]
  /\ queue' = Tail(queue)
  /\ UNCHANGED <<program, issued, player, played>>

-----------------------------------------------------------------------------
(* The task of a replay: load_and_run and run_events. *)

Goes(t, from, to) == task[t] = from /\ task' = [task EXCEPT ![t] = to]

TaskQueues(t) ==
  /\ Goes(t, "spawned", "queued")
  /\ queue' = Append(queue, TaskWaits(t))
  /\ UNCHANGED <<program, info, client, issued, player, played, halt, late>>

TaskEnters(t) ==
  /\ First(TaskWaits(t)) /\ Goes(t, "queued", "begin")
  /\ queue' = Tail(queue)
  /\ UNCHANGED <<program, info, client, issued, player, played, halt, late>>

BeginLoad(t) ==
  /\ Goes(t, "begin", "loading") /\ info' = "Loading"
  /\ UNCHANGED <<program, queue, client, issued, player, played, halt, late>>

LoadFails(t) ==
  /\ Goes(t, "loading", "done") /\ info' = "Idle"
  /\ UNCHANGED <<program, queue, client, issued, player, played, halt, late>>

\* The state is set without a look at it: a Stop that came while loading is lost.
LoadSucceeds(t) ==
  /\ Goes(t, "loading", "next") /\ info' = "Playing"
  /\ UNCHANGED <<program, queue, client, issued, player, played, halt, late>>

EventsOf(p) == IF p = "serve" THEN MaxServed ELSE MaxEvents

\* The events that may come next in the session of task t.
SessionEvents(t) ==
  IF program = "serve" THEN ServedEvents ELSE ReplayEvents(player[t].at)

NextEvent(t) ==
  /\ Goes(t, "next", "check") /\ played[t] < EventsOf(program)
  /\ UNCHANGED <<program, info, queue, client, issued, player, played, halt, late>>

\* The session is over, whatever the state of the controller is by then.
Completes(t) ==
  /\ Goes(t, "next", "done") /\ info' = "Completed"
  /\ UNCHANGED <<program, queue, client, issued, player, played, halt, late>>

\* Mutant: the state is looked at once, and not again behind a pause.
SeesRunningAlways(t) ==
  /\ info \notin {"Idle", "Completed"} /\ Goes(t, "check", "play")
  /\ UNCHANGED <<program, info, queue, client, issued, player, played, halt, late>>

\* The loop before an event: a paused replay stays in it, and looks again every 50 ms.
SeesRunning(t) ==
  /\ info \in {"Playing", "Loading"} /\ Goes(t, "check", "play")
  /\ UNCHANGED <<program, info, queue, client, issued, player, played, halt, late>>

\* Mutant: a stopped replay waits in the loop like a paused one.
SeesCompletedOnly(t) ==
  /\ info = "Completed" /\ Goes(t, "check", "done")
  /\ UNCHANGED <<program, info, queue, client, issued, player, played, halt, late>>

SeesStopped(t) ==
  /\ info \in {"Idle", "Completed"} /\ Goes(t, "check", "done")
  /\ UNCHANGED <<program, info, queue, client, issued, player, played, halt, late>>

\* The pacing sleep, the event, the frame and the status: the state was looked at before.
PlayEvent(t) ==
  /\ Goes(t, "play", "next") /\ program # "replay"
  /\ \E event \in SessionEvents(t) :
       \E p \in Played(player[t], event, StreamGap(player[t])) :
         player' = [player EXCEPT ![t] = p]
  /\ played' = [played EXCEPT ![t] = @ + 1]
  /\ late' = IF halt THEN [late EXCEPT ![t] = @ + 1] ELSE late
  /\ UNCHANGED <<program, info, queue, client, issued, halt>>

TaskStep(t) ==
  \/ TaskQueues(t) \/ TaskEnters(t)
  \/ BeginLoad(t) \/ LoadFails(t) \/ LoadSucceeds(t)
  \/ NextEvent(t) \/ Completes(t) \/ SeesRunning(t) \/ SeesStopped(t) \/ PlayEvent(t)

ClientServed(c) == ServeCommand(c) \/ ServeLoad(c)

Next ==
  \/ EngineEvent \/ EngineEnds
  \/ \E c \in Client : ClientServed(c) \/ \E command \in Commands : ClientSends(c, command)
  \/ \E t \in Tasks : TaskStep(t)

Spec == Init /\ [][Next]_vars

\* Tokio runs every task that can run, the lock is fair, storage answers a query, and a pacing
\* sleep ends (it is below ten seconds).  Nothing makes a client send a command.
Fairness ==
  /\ \A t \in Tasks : WF_vars(TaskStep(t))
  /\ \A c \in Client : WF_vars(ClientServed(c))

FairSpec == Spec /\ Fairness
=============================================================================
