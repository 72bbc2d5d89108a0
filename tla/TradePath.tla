----------------------------- MODULE TradePath ------------------------------
(***************************************************************************)
(* The way of a trade through the program: the trade stream's client       *)
(* (binance/ws_trades.rs), the trade and market-event branches of the main *)
(* loop and its shutdown (main.rs), and the analytics sink that stores what*)
(* the engine derives (storage/analytics.rs).                              *)
(*                                                                         *)
(* Concurrency.  The client, the main loop and the sink's worker are tasks *)
(* joined by unbounded channels; one branch of select! runs to its end     *)
(* before the next one starts.  An engine output is only the number of its *)
(* rows per table (module AnalyticsEngine says which); a flush is one step *)
(* with every combination of its four inserts failing.  The program ends:  *)
(* in state "done" no action is enabled.                                   *)
(***************************************************************************)
EXTENDS TradeProcessor

CONSTANTS SinkCapacity,    \* rows of one table that trigger a flush
          MaxPayloads,     \* bound: payloads the stream delivers
          MaxWaiting,      \* bound: messages that wait before the client sends another
          MaxConnections,  \* bound: connections of the trade stream
          MaxDepthEvents,  \* bound: events of the depth engine that the main loop handles
          MaxRows          \* bound: snapshots and events after which the engine derives nothing

ASSUME PathAssumption ==
  /\ SinkCapacity \in Nat \ {0} /\ MaxPayloads \in Nat /\ MaxWaiting \in Nat
  /\ MaxConnections \in Nat /\ MaxDepthEvents \in Nat /\ MaxRows \in Nat

VARIABLES
  online,       \* the client reads from a connection
  connections,  \* how often the client connected
  delivered,    \* how many payloads the client sent on
  wire,         \* trade_ws_tx / trade_ws_rx
  connected,    \* trade_connected
  proc,         \* trade_proc
  seen,         \* ghost: the ids of all trades processed, in the order of arrival
  tape,         \* the trades recorded and sent to event_tx
  taken,        \* how many of them the analytics engine has processed
  depthEvents,  \* how many events of the depth engine it has processed
  main,         \* how far main() is
  channel,      \* the sink's channel: batches of rows
  pending,      \* the worker's buffers
  worker,       \* the worker receives or has returned
  stored,       \* external: rows in the database
  lost,         \* rows whose insert failed
  submitted     \* ghost: rows derived by the engine

clientVars == <<online, connections, delivered>>
tradeVars == <<proc, seen, tape>>
workerVars == <<pending, worker, stored, lost>>
vars == <<online, connections, delivered, wire, connected, proc, seen, tape, taken, depthEvents,
          main, channel, pending, worker, stored, lost, submitted>>

\* The tables; the rows of the session's profile are counted by the trades they add up.
Tables == {"snapshots", "events", "profile", "liquidity"}
Batches == [Tables -> Nat]
NoRows == [t \in Tables |-> 0]
Plus(a, b) == [t \in Tables |-> a[t] + b[t]]

Link == {"Connected", "Disconnected"}
Messages == [kind : {"Trade"}, payload : Payloads] \cup [kind : Link]
Trade(payload) == [kind |-> "Trade", payload |-> payload]
LinkMessage(kind) == [kind |-> kind]

TypeOK ==
  /\ online \in BOOLEAN /\ connections \in Nat /\ delivered \in Nat
  /\ wire \in Seq(Messages) /\ connected \in BOOLEAN
  /\ proc \in Processors
  /\ seen \in Seq(TradeIds) /\ tape \in Seq(TradeIds)
  /\ taken \in 0..Len(tape) /\ depthEvents \in Nat
  /\ main \in {"running", "closing", "joining", "done"}
  /\ channel \in Seq(Batches) /\ pending \in Batches
  /\ worker \in {"receiving", "returned"}
  /\ stored \in Batches /\ lost \in Batches /\ submitted \in Batches

Init ==
  /\ online = FALSE /\ connections = 0 /\ delivered = 0
  /\ wire = <<>> /\ connected = FALSE
  /\ proc = NewProcessor
  /\ seen = <<>> /\ tape = <<>>
  /\ taken = 0 /\ depthEvents = 0
  /\ main = "running"
  /\ channel = <<>> /\ pending = NoRows
  /\ worker = "receiving"
  /\ stored = NoRows /\ lost = NoRows /\ submitted = NoRows

-----------------------------------------------------------------------------
(* The trade WebSocket client.  Its Error messages change nothing. *)

ClientRuns == main = "running" /\ Len(wire) < MaxWaiting

Connect ==
  /\ ClientRuns /\ ~online /\ connections < MaxConnections
  /\ online' = TRUE
  /\ connections' = connections + 1
  /\ wire' = Append(wire, LinkMessage("Connected"))
  /\ UNCHANGED <<delivered, connected, tradeVars, taken, depthEvents, main, channel, workerVars,
                 submitted>>

\* The venue may deliver any trade at any time: again, late, or (not sent on) never.
Deliver ==
  /\ ClientRuns /\ online /\ delivered < MaxPayloads
  /\ delivered' = delivered + 1
  /\ \E payload \in Payloads : wire' = Append(wire, Trade(payload))
  /\ UNCHANGED <<online, connections, connected, tradeVars, taken, depthEvents, main, channel,
                 workerVars, submitted>>

\* A read error ends the read loop; a Close frame says so once more before that.
Disconnect ==
  /\ ClientRuns /\ online
  /\ online' = FALSE
  /\ \/ wire' = Append(wire, LinkMessage("Disconnected"))
     \/ wire' = wire \o <<LinkMessage("Disconnected"), LinkMessage("Disconnected")>>
  /\ UNCHANGED <<connections, delivered, connected, tradeVars, taken, depthEvents, main, channel,
                 workerVars, submitted>>

-----------------------------------------------------------------------------
(* The main loop. *)

Receives(kind) == main = "running" /\ wire # <<>> /\ Head(wire).kind = kind

MainLink ==
  /\ \E kind \in Link : Receives(kind)
  /\ connected' = (Head(wire).kind = "Connected")
  /\ proc' = IF Head(wire).kind = "Disconnected" THEN OnTradeReconnect(proc) ELSE proc
  /\ wire' = Tail(wire)
  /\ UNCHANGED <<clientVars, seen, tape, taken, depthEvents, main, channel, workerVars, submitted>>

\* A processed trade is recorded (record_trade) and sent to event_tx.
MainTrade ==
  /\ Receives("Trade") /\ Head(wire).payload.form = "valid"
  /\ LET id == Head(wire).payload.id
     IN  /\ proc' = Process(proc, id)
         /\ seen' = Append(seen, id)
         /\ tape' = IF Processed(proc, id) THEN Append(tape, id) ELSE tape
  /\ wire' = Tail(wire)
  /\ UNCHANGED <<clientVars, connected, taken, depthEvents, main, channel, workerVars, submitted>>

MainRejected ==
  /\ Receives("Trade") /\ Head(wire).payload.form # "valid"
  /\ proc' = IF Head(wire).payload.form = "marker" THEN RecordMarkerRejected(proc)
                                                   ELSE RecordMalformed(proc)
  /\ wire' = Tail(wire)
  /\ UNCHANGED <<clientVars, connected, seen, tape, taken, depthEvents, main, channel, workerVars,
                 submitted>>

\* AnalyticsSink::submit: an empty batch is not sent; a closed channel loses the batch.
Submit(batch) ==
  /\ submitted' = Plus(submitted, batch)
  /\ IF batch = NoRows \/ worker = "returned"
     THEN channel' = channel
     ELSE channel' = Append(channel, batch)

\* What analytics_batch_from_output keeps of an output: a snapshot when the interval is over,
\* some events, and one more row for each event about liquidity.
Outputs == {b \in [Tables -> 0..1] : b["profile"] = 0 /\ b["liquidity"] <= b["events"]}
RowsLeft(batch) == batch = NoRows \/ submitted["snapshots"] + submitted["events"] < MaxRows

\* Mutant: events wait until the trade stream is connected again.
MainTradeEventWhenConnected ==
  /\ main = "running" /\ taken < Len(tape) /\ connected
  /\ taken' = taken + 1
  /\ \E output \in Outputs :
       output["liquidity"] = 0 /\ RowsLeft(output) /\ Submit(output)
  /\ UNCHANGED <<clientVars, wire, connected, tradeVars, depthEvents, main, workerVars>>

MainTradeEvent ==
  /\ main = "running" /\ taken < Len(tape)
  /\ taken' = taken + 1
  /\ \E output \in Outputs :
       output["liquidity"] = 0 /\ RowsLeft(output) /\ Submit(output)
  /\ UNCHANGED <<clientVars, wire, connected, tradeVars, depthEvents, main, workerVars>>

MainDepthEvent ==
  /\ main = "running" /\ depthEvents < MaxDepthEvents
  /\ depthEvents' = depthEvents + 1
  /\ \E output \in Outputs : RowsLeft(output) /\ Submit(output)
  /\ UNCHANGED <<clientVars, wire, connected, tradeVars, taken, main, workerVars>>

-----------------------------------------------------------------------------
(* Shutdown. *)

\* The duration limit ends the loop; the client is aborted, what the channels hold is not read.
MainStop ==
  /\ main = "running"
  /\ main' = "closing"
  /\ online' = FALSE
  /\ UNCHANGED <<connections, delivered, wire, connected, tradeVars, taken, depthEvents, channel,
                 workerVars, submitted>>

\* force_snapshot and volume_by_price; then the sender is dropped.
MainFinalize ==
  /\ main = "closing"
  /\ main' = "joining"
  /\ Submit([NoRows EXCEPT !["snapshots"] = IF taken + depthEvents > 0 THEN 1 ELSE 0,
                           !["profile"] = taken])
  /\ UNCHANGED <<clientVars, wire, connected, tradeVars, taken, depthEvents, workerVars>>

MainJoin ==
  /\ main = "joining" /\ worker = "returned"
  /\ main' = "done"
  /\ UNCHANGED <<clientVars, wire, connected, tradeVars, taken, depthEvents, channel, workerVars,
                 submitted>>

-----------------------------------------------------------------------------
(* The sink's worker. *)

SinkClosedAfterJoin == main = "done"   \* mutant: main() keeps the sender while it joins

SinkClosed == main \in {"joining", "done"}

FlushDue(rows) == \E t \in Tables \ {"profile"} : rows[t] >= SinkCapacity

\* Mutant: the buffers are kept when an insert failed.
FlushBatchKeeps(rows) ==
  \E failed \in SUBSET {t \in Tables : rows[t] > 0} :
    /\ stored' = [t \in Tables |-> stored[t] + IF t \in failed THEN 0 ELSE rows[t]]
    /\ pending' = IF failed = {} THEN NoRows ELSE rows
    /\ UNCHANGED lost

\* flush_batch: every insert is tried, and the buffers are cleared whatever became of it.
FlushBatch(rows) ==
  \E failed \in SUBSET {t \in Tables : rows[t] > 0} :
    /\ stored' = [t \in Tables |-> stored[t] + IF t \in failed THEN 0 ELSE rows[t]]
    /\ lost' = [t \in Tables |-> lost[t] + IF t \in failed THEN rows[t] ELSE 0]
    /\ pending' = NoRows

Buffer(rows) ==
  \/ FlushDue(rows) /\ FlushBatch(rows)
  \/ ~FlushDue(rows) /\ pending' = rows /\ UNCHANGED <<stored, lost>>

WorkerReceive ==
  /\ worker = "receiving" /\ channel # <<>>
  /\ channel' = Tail(channel)
  /\ Buffer(Plus(pending, Head(channel)))
  /\ UNCHANGED <<clientVars, wire, connected, tradeVars, taken, depthEvents, main, worker, submitted>>

\* Mutant: no final flush.
WorkerReturns ==
  /\ worker = "receiving" /\ channel = <<>> /\ SinkClosed
  /\ worker' = "returned"
  /\ UNCHANGED <<clientVars, wire, connected, tradeVars, taken, depthEvents, main, channel, pending,
                 stored, lost, submitted>>

WorkerFinalFlush ==
  /\ worker = "receiving" /\ channel = <<>> /\ SinkClosed
  /\ FlushBatch(pending)
  /\ worker' = "returned"
  /\ UNCHANGED <<clientVars, wire, connected, tradeVars, taken, depthEvents, main, channel, submitted>>

-----------------------------------------------------------------------------

ClientStep == Connect \/ Deliver \/ Disconnect
MainLoopStep == MainLink \/ MainTrade \/ MainRejected \/ MainTradeEvent \/ MainDepthEvent
MainCloses == MainFinalize \/ MainJoin
WorkerStep == WorkerReceive \/ WorkerFinalFlush

Next == ClientStep \/ MainLoopStep \/ MainStop \/ MainCloses \/ WorkerStep

Spec == Init /\ [][Next]_vars

\* select! serves each ready channel, main() goes on to its end, and inserts return.
Fairness ==
  /\ WF_vars(MainLink \/ MainTrade \/ MainRejected) /\ WF_vars(MainTradeEvent)
  /\ WF_vars(MainCloses) /\ WF_vars(WorkerStep)

FairSpec == Spec /\ Fairness
=============================================================================
