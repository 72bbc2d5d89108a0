-------------------------- MODULE TradePath_proofs --------------------------
(***************************************************************************)
(* The trade path, for every value of its constants: its types; that the   *)
(* tape of trades is exact, whatever the stream delivers and however small *)
(* the window for duplicates is; the refinement of TradeTape; and that no  *)
(* payload, no row and no part of the profile is ever forgotten.           *)
(***************************************************************************)
EXTENDS TradePathInv, ComponentTheorems

-----------------------------------------------------------------------------
(* Types. *)

LEMMA BatchType ==
  /\ NoRows \in Batches
  /\ \A a, b \in Batches : Plus(a, b) \in Batches
  /\ Outputs \subseteq Batches
  /\ \A n, s \in Nat : [NoRows EXCEPT !["snapshots"] = s, !["profile"] = n] \in Batches
<1>1. NoRows \in Batches
  BY DEF NoRows, Batches
<1>2. \A a, b \in Batches : Plus(a, b) \in Batches
  BY DEF Plus, Batches
<1>3. Outputs \subseteq Batches
  BY DEF Outputs, Batches
<1>4. \A n, s \in Nat : [NoRows EXCEPT !["snapshots"] = s, !["profile"] = n] \in Batches
  BY DEF NoRows, Batches
<1> QED
  BY <1>1, <1>2, <1>3, <1>4

LEMMA SubmitType ==
  ASSUME TypeOK, NEW batch \in Batches, Submit(batch)
  PROVE  channel' \in Seq(Batches) /\ submitted' \in Batches
<1>1. channel \in Seq(Batches) /\ submitted \in Batches
  BY DEF TypeOK
<1>2. submitted' \in Batches
  BY <1>1, BatchType DEF Submit
<1>3. Append(channel, batch) \in Seq(Batches)
  BY <1>1
<1> QED
  BY <1>1, <1>2, <1>3 DEF Submit

LEMMA FlushType ==
  ASSUME TypeOK, NEW rows \in Batches, FlushBatch(rows)
  PROVE  pending' \in Batches /\ stored' \in Batches /\ lost' \in Batches
<1> PICK failed \in SUBSET {t \in Tables : rows[t] > 0} :
      /\ stored' = [t \in Tables |-> stored[t] + IF t \in failed THEN 0 ELSE rows[t]]
      /\ lost' = [t \in Tables |-> lost[t] + IF t \in failed THEN rows[t] ELSE 0]
      /\ pending' = NoRows
  BY DEF FlushBatch
<1> QED
  BY BatchType DEF TypeOK, Batches

LEMMA MessageTypes ==
  /\ \A kind \in Link : LinkMessage(kind) \in Messages
  /\ \A payload \in Payloads : Trade(payload) \in Messages
  /\ \A message \in Messages : message.kind = "Trade" => message.payload \in Payloads
  /\ \A payload \in Payloads : payload.form = "valid" => payload.id \in TradeIds
BY DEF LinkMessage, Trade, Messages, Link, Payloads, Valid

LEMMA InitType == Init => TypeOK
<1> SUFFICES ASSUME Init PROVE TypeOK
  OBVIOUS
<1>1. NewProcessor \in Processors
  <2>1. <<>> \in Windows
    BY ProcessorAssumption DEF Windows
  <2> QED
    BY <2>1 DEF NewProcessor, Processors
<1>2. Len(<<>>) = 0 /\ <<>> \in Seq(Messages) /\ <<>> \in Seq(TradeIds) /\ <<>> \in Seq(Batches)
  OBVIOUS
<1>3. NoRows \in Batches
  BY BatchType
<1>4. taken \in 0..Len(tape)
  BY <1>2 DEF Init
<1> QED
  BY <1>1, <1>2, <1>3, <1>4 DEF Init, TypeOK

LEMMA ClientType == TypeOK /\ ClientStep => TypeOK'
<1> SUFFICES ASSUME TypeOK, ClientStep PROVE TypeOK'
  OBVIOUS
<1>1. "Connected" \in Link /\ "Disconnected" \in Link
  BY DEF Link
<1>2. wire' \in Seq(Messages)
  <2>1. LinkMessage("Connected") \in Messages /\ LinkMessage("Disconnected") \in Messages
    BY <1>1, MessageTypes
  <2>2. CASE Connect
    BY <2>1, <2>2 DEF Connect, TypeOK
  <2>3. CASE Deliver
    BY <2>3, MessageTypes DEF Deliver, TypeOK
  <2>4. CASE Disconnect
    <3> DEFINE m == LinkMessage("Disconnected")
    <3>1. wire' = Append(wire, m) \/ wire' = wire \o <<m, m>>
      BY <2>4 DEF Disconnect
    <3> HIDE DEF m
    <3>2. m \in Messages /\ wire \in Seq(Messages)
      BY <2>1 DEF m, TypeOK
    <3>3. <<m, m>> \in Seq(Messages)
      BY <3>2
    <3>4. wire \o <<m, m>> \in Seq(Messages)
      BY <3>2, <3>3, ConcatProperties
    <3>5. Append(wire, m) \in Seq(Messages)
      BY <3>2, AppendProperties
    <3> QED
      BY <3>1, <3>4, <3>5
  <2> QED
    BY <2>2, <2>3, <2>4 DEF ClientStep
<1>3. online' \in BOOLEAN /\ connections' \in Nat /\ delivered' \in Nat
  <2>1. online \in BOOLEAN /\ connections \in Nat /\ delivered \in Nat
    BY DEF TypeOK
  <2>2. CASE Connect
    BY <2>1, <2>2 DEF Connect
  <2>3. CASE Deliver
    BY <2>1, <2>3 DEF Deliver
  <2>4. CASE Disconnect
    BY <2>1, <2>4 DEF Disconnect
  <2> QED
    BY <2>2, <2>3, <2>4 DEF ClientStep
<1>4. UNCHANGED <<connected, tradeVars, taken, depthEvents, main, channel, workerVars, submitted>>
  BY DEF ClientStep, Connect, Deliver, Disconnect
<1> QED
  BY <1>2, <1>3, <1>4 DEF TypeOK, tradeVars, workerVars

LEMMA MainLoopType == TypeOK /\ MainLoopStep => TypeOK'
<1> SUFFICES ASSUME TypeOK, MainLoopStep PROVE TypeOK'
  OBVIOUS
<1>1. CASE MainLink
  <2>1. wire # <<>> /\ wire' = Tail(wire) /\ wire' \in Seq(Messages)
    BY <1>1 DEF MainLink, Receives, TypeOK
  <2>2. proc' \in Processors /\ connected' \in BOOLEAN
    BY <1>1, CountersType DEF MainLink, TypeOK
  <2> QED
    BY <1>1, <2>1, <2>2 DEF MainLink, TypeOK, clientVars, workerVars
<1>2. CASE MainTrade
  <2>1. wire # <<>> /\ wire' \in Seq(Messages) /\ Head(wire) \in Messages
    BY <1>2 DEF MainTrade, Receives, TypeOK
  <2> DEFINE id == Head(wire).payload.id
  <2>2. id \in TradeIds
    BY <1>2, <2>1, MessageTypes DEF MainTrade, Receives
  <2>3. proc' = Process(proc, id) /\ seen' = Append(seen, id)
        /\ tape' = IF Processed(proc, id) THEN Append(tape, id) ELSE tape
    BY <1>2 DEF MainTrade
  <2> HIDE DEF id
  <2>4. proc' \in Processors
    BY <2>2, <2>3, ProcessType DEF TypeOK
  <2>5. seen' \in Seq(TradeIds) /\ tape' \in Seq(TradeIds) /\ Len(tape') \in Nat
        /\ Len(tape) \in Nat /\ Len(tape') >= Len(tape)
    BY <2>2, <2>3 DEF TypeOK
  <2>6. taken' \in 0..Len(tape')
    BY <1>2, <2>5 DEF MainTrade, TypeOK
  <2> QED
    BY <1>2, <2>1, <2>4, <2>5, <2>6 DEF MainTrade, TypeOK, clientVars, workerVars
<1>3. CASE MainRejected
  <2>1. wire # <<>> /\ wire' \in Seq(Messages)
    BY <1>3 DEF MainRejected, Receives, TypeOK
  <2>2. proc' \in Processors
    BY <1>3, CountersType DEF MainRejected, TypeOK
  <2> QED
    BY <1>3, <2>1, <2>2 DEF MainRejected, TypeOK, clientVars, workerVars
<1>4. CASE MainTradeEvent
  <2>1. channel' \in Seq(Batches) /\ submitted' \in Batches
    BY <1>4, BatchType, SubmitType DEF MainTradeEvent
  <2>2. taken' \in 0..Len(tape)
    BY <1>4 DEF MainTradeEvent, TypeOK
  <2> QED
    BY <1>4, <2>1, <2>2 DEF MainTradeEvent, TypeOK, clientVars, tradeVars, workerVars
<1>5. CASE MainDepthEvent
  <2>1. channel' \in Seq(Batches) /\ submitted' \in Batches
    BY <1>5, BatchType, SubmitType DEF MainDepthEvent
  <2> QED
    BY <1>5, <2>1 DEF MainDepthEvent, TypeOK, clientVars, tradeVars, workerVars
<1> QED
  BY <1>1, <1>2, <1>3, <1>4, <1>5 DEF MainLoopStep

LEMMA ClosingType == TypeOK /\ (MainStop \/ MainCloses) => TypeOK'
<1> SUFFICES ASSUME TypeOK, MainStop \/ MainCloses PROVE TypeOK'
  OBVIOUS
<1>1. CASE MainStop
  BY <1>1 DEF MainStop, TypeOK, tradeVars, workerVars
<1>2. CASE MainFinalize
  <2> DEFINE last == [NoRows EXCEPT !["snapshots"] = IF taken + depthEvents > 0 THEN 1 ELSE 0,
                                    !["profile"] = taken]
  <2>1. last \in Batches
    <3>1. Len(tape) \in Nat
      BY DEF TypeOK
    <3>2. taken \in Nat /\ (IF taken + depthEvents > 0 THEN 1 ELSE 0) \in Nat
      BY <3>1 DEF TypeOK
    <3> QED
      BY <3>2, BatchType
  <2>2. Submit(last)
    BY <1>2 DEF MainFinalize
  <2> HIDE DEF last
  <2>3. channel' \in Seq(Batches) /\ submitted' \in Batches
    BY <2>1, <2>2, SubmitType
  <2> QED
    BY <1>2, <2>3 DEF MainFinalize, TypeOK, clientVars, tradeVars, workerVars
<1>3. CASE MainJoin
  BY <1>3 DEF MainJoin, TypeOK, clientVars, tradeVars, workerVars
<1> QED
  BY <1>1, <1>2, <1>3 DEF MainCloses

LEMMA WorkerType == TypeOK /\ WorkerStep => TypeOK'
<1> SUFFICES ASSUME TypeOK, WorkerStep PROVE TypeOK'
  OBVIOUS
<1>1. CASE WorkerReceive
  <2> DEFINE rows == Plus(pending, Head(channel))
  <2>1. channel # <<>> /\ channel' \in Seq(Batches) /\ Head(channel) \in Batches
    BY <1>1 DEF WorkerReceive, TypeOK
  <2>2. rows \in Batches
    BY <2>1, BatchType DEF TypeOK
  <2>3. Buffer(rows)
    BY <1>1 DEF WorkerReceive
  <2> HIDE DEF rows
  <2>4. pending' \in Batches /\ stored' \in Batches /\ lost' \in Batches
    BY <2>2, <2>3, FlushType DEF Buffer, TypeOK
  <2> QED
    BY <1>1, <2>1, <2>4 DEF WorkerReceive, TypeOK, clientVars, tradeVars
<1>2. CASE WorkerFinalFlush
  <2>1. pending' \in Batches /\ stored' \in Batches /\ lost' \in Batches
    BY <1>2, FlushType DEF WorkerFinalFlush, TypeOK
  <2> QED
    BY <1>2, <2>1 DEF WorkerFinalFlush, TypeOK, clientVars, tradeVars
<1> QED
  BY <1>1, <1>2 DEF WorkerStep

LEMMA NextType == TypeOK /\ [Next]_vars => TypeOK'
<1>1. ASSUME TypeOK, UNCHANGED vars PROVE TypeOK'
  BY <1>1 DEF vars, TypeOK
<1> QED
  BY <1>1, ClientType, MainLoopType, ClosingType, WorkerType DEF Next

\* Every variable keeps its type: the window holds at most Window ids, the engine never takes more
\* trades than there are, and the rows of every table are counted in natural numbers.
THEOREM TypeCorrect == Spec => []TypeOK
BY InitType, NextType, PTL DEF Spec

-----------------------------------------------------------------------------
(* The tape. *)

TapeInv == TapeIsRecords /\ WindowInv /\ CountsInv

\* What the trade branch does, in terms of the elements of the two sequences.
LEMMA TradeStep ==
  ASSUME TypeOK, MainTrade
  PROVE  \E id \in TradeIds :
           /\ proc' = Process(proc, id)
           /\ Len(seen') = Len(seen) + 1 /\ seen'[Len(seen) + 1] = id
           /\ \A i \in 1..Len(seen) : seen'[i] = seen[i]
           /\ IF Processed(proc, id)
              THEN /\ tape' = Append(tape, id)
                   /\ Len(tape') = Len(tape) + 1 /\ tape'[Len(tape) + 1] = id
                   /\ \A k \in 1..Len(tape) : tape'[k] = tape[k]
              ELSE tape' = tape
<1> DEFINE id == Head(wire).payload.id
<1>1. Head(wire) \in Messages
  BY DEF MainTrade, Receives, TypeOK
<1>2. id \in TradeIds
  BY <1>1, MessageTypes DEF MainTrade, Receives
<1>3. /\ proc' = Process(proc, id) /\ seen' = Append(seen, id)
      /\ tape' = IF Processed(proc, id) THEN Append(tape, id) ELSE tape
  BY DEF MainTrade
<1> HIDE DEF id
<1>4. /\ Len(Append(seen, id)) = Len(seen) + 1 /\ Append(seen, id)[Len(seen) + 1] = id
      /\ \A i \in 1..Len(seen) : Append(seen, id)[i] = seen[i]
  BY <1>2, AppendProperties DEF TypeOK
<1>5. /\ Len(Append(tape, id)) = Len(tape) + 1 /\ Append(tape, id)[Len(tape) + 1] = id
      /\ \A k \in 1..Len(tape) : Append(tape, id)[k] = tape[k]
  BY <1>2, AppendProperties DEF TypeOK
<1> QED
  BY <1>2, <1>3, <1>4, <1>5

LEMMA SeenAreNumbers == TypeOK => \A i \in 1..Len(seen) : seen[i] \in Nat
<1> SUFFICES ASSUME TypeOK, NEW i \in 1..Len(seen) PROVE seen[i] \in Nat
  OBVIOUS
<1>1. seen[i] \in TradeIds
  BY DEF TypeOK
<1> QED
  BY <1>1, ProcessorAssumption

\* A trade that is processed is later than every one that arrived before it.
LEMMA ProcessedIsLater ==
  ASSUME TypeOK, TapeInv, NEW id \in TradeIds, Processed(proc, id)
  PROVE  /\ \A i \in 1..Len(seen) : seen[i] < id
         /\ \A k \in 1..Len(tape) : tape[k] < id
<1>1. \A i \in 1..Len(seen) : seen[i] \in Nat /\ seen[i] <= proc.last
  BY SeenAreNumbers DEF TapeInv, WindowInv
<1>2. CASE seen = <<>>
  BY <1>2 DEF TapeInv, WindowInv
<1>3. CASE seen # <<>>
  <2>1. proc.last # NoTrade /\ proc.last \in Range(proc.recent)
    BY <1>3 DEF TapeInv, WindowInv
  <2>2. proc.last \in TradeIds /\ proc.last \in Nat /\ id \in Nat
    BY <2>1, ProcessorAssumption DEF TypeOK, Processors
  <2>3. proc.last < id
    BY <2>1, <2>2 DEF Processed, Duplicate, Stale
  <2>4. \A i \in 1..Len(seen) : seen[i] < id
    BY <1>1, <2>2, <2>3
  <2>5. \A k \in 1..Len(tape) : \E i \in 1..Len(seen) : tape[k] = seen[i]
    BY DEF TapeInv, TapeIsRecords
  <2> QED
    BY <2>4, <2>5
<1> QED
  BY <1>2, <1>3

\* A trade that is not processed is no later than one that arrived before it.
LEMMA RejectedIsNotLater ==
  ASSUME TypeOK, TapeInv, NEW id \in TradeIds, ~Processed(proc, id)
  PROVE  id <= proc.last /\ \E i \in 1..Len(seen) : id <= seen[i]
<1>1. \A k \in 1..Len(tape) : \E i \in 1..Len(seen) : tape[k] = seen[i]
  BY DEF TapeInv, TapeIsRecords
<1>2. \A i \in 1..Len(seen) : seen[i] \in Nat /\ seen[i] <= proc.last
  BY SeenAreNumbers DEF TapeInv, WindowInv
<1>3. id \in Nat
  BY ProcessorAssumption
<1>4. CASE Duplicate(proc, id)
  <2>1. id \in Range(tape)
    BY <1>4 DEF Duplicate, TapeInv, WindowInv
  <2>2. PICK k \in 1..Len(tape) : tape[k] = id
    BY <2>1 DEF Range, TypeOK
  <2> QED
    BY <1>1, <1>2, <1>3, <2>2
<1>5. CASE Stale(proc, id)
  <2>1. proc.last # NoTrade /\ id < proc.last
    BY <1>5 DEF Stale
  <2>2. tape # <<>> /\ proc.last = tape[Len(tape)]
    BY <2>1 DEF TapeInv, WindowInv
  <2>3. Len(tape) \in 1..Len(tape)
    BY <2>2 DEF TypeOK
  <2>4. PICK i \in 1..Len(seen) : proc.last = seen[i]
    BY <1>1, <2>2, <2>3
  <2> QED
    BY <1>2, <1>3, <2>1, <2>4
<1> QED
  BY <1>4, <1>5 DEF Processed

LEMMA ProcessedFields ==
  ASSUME NEW p \in Processors, NEW id \in TradeIds
  PROVE  LET q == Process(p, id)
         IN  /\ q.received = p.received + 1
             /\ Processed(p, id) =>
                  /\ q.last = id /\ q.recent = Remember(p.recent, id)
                  /\ q.processed = p.processed + 1
                  /\ q.duplicates = p.duplicates /\ q.stale = p.stale
             /\ ~Processed(p, id) =>
                  /\ q.last = p.last /\ q.recent = p.recent /\ q.processed = p.processed
                  /\ q.duplicates + q.stale = p.duplicates + p.stale + 1
<1> DEFINE r == CountReceived(p)
<1>1. r \in Processors /\ r.received = p.received + 1 /\ r.last = p.last /\ r.recent = p.recent
      /\ r.processed = p.processed /\ r.duplicates = p.duplicates /\ r.stale = p.stale
  BY DEF CountReceived, Processors
<1>2. CASE Duplicate(p, id)
  <2>1. Process(p, id) = CountDuplicate(r)
    BY <1>2 DEF Process, Processed
  <2> HIDE DEF r
  <2> QED
    BY <1>1, <1>2, <2>1 DEF CountDuplicate, Processed, Processors
<1>3. CASE ~Duplicate(p, id) /\ Stale(p, id)
  <2>1. Process(p, id) = CountStale(r)
    BY <1>3 DEF Process, Processed
  <2> HIDE DEF r
  <2> QED
    BY <1>1, <1>3, <2>1 DEF CountStale, Processed, Processors
<1>4. CASE Processed(p, id)
  <2>1. Process(p, id) = Accept(r, id)
    BY <1>4 DEF Process, Processed
  <2> HIDE DEF r
  <2> QED
    BY <1>1, <1>4, <2>1 DEF Accept, Processors
<1> QED
  BY <1>2, <1>3, <1>4 DEF Processed

LEMMA OneMore ==
  ASSUME NEW r \in Nat, NEW p \in Nat, NEW d \in Nat, NEW s \in Nat, r = p + d + s
  PROVE  /\ r + 1 = (p + 1) + d + s
         /\ \A e, t \in Nat : e + t = d + s + 1 => r + 1 = p + e + t
OBVIOUS

LEMMA TradeKeepsTape == TypeOK /\ TapeInv /\ MainTrade => TapeInv'
<1> SUFFICES ASSUME TypeOK, TapeInv, MainTrade PROVE TapeInv'
  OBVIOUS
<1> PICK id \in TradeIds :
      /\ proc' = Process(proc, id)
      /\ Len(seen') = Len(seen) + 1 /\ seen'[Len(seen) + 1] = id
      /\ \A i \in 1..Len(seen) : seen'[i] = seen[i]
      /\ IF Processed(proc, id)
         THEN /\ tape' = Append(tape, id)
              /\ Len(tape') = Len(tape) + 1 /\ tape'[Len(tape) + 1] = id
              /\ \A k \in 1..Len(tape) : tape'[k] = tape[k]
         ELSE tape' = tape
  BY TradeStep
<1> DEFINE m == Len(tape)
<1>0. Len(seen) \in Nat
  BY DEF TypeOK
<1> PICK n \in Nat : n = Len(seen)
  BY <1>0
<1>1. n \in Nat /\ m \in Nat /\ id \in Nat /\ id # NoTrade
      /\ seen' \in Seq(TradeIds) /\ tape' \in Seq(TradeIds) /\ proc \in Processors /\ proc' \in Processors
  <2>1. TypeOK'
    BY MainLoopType DEF MainLoopStep
  <2> QED
    BY <2>1, ProcessorAssumption DEF TypeOK, NoTrade
<1>2. \A i \in 1..n : HighestYet(i)' <=> HighestYet(i)
  <2>1. \A i \in 1..n : \A j \in 1..i - 1 : j \in 1..n
    BY <1>1
  <2>2. \A i \in 1..n : seen'[i] = seen[i]
    OBVIOUS
  <2> QED
    BY <2>1, <2>2 DEF HighestYet
<1>3. HighestYet(n + 1)' <=> \A j \in 1..n : seen[j] < id
  <2>1. (n + 1) - 1 = n
    BY <1>1
  <2>2. seen'[n + 1] = id /\ \A i \in 1..n : seen'[i] = seen[i]
    OBVIOUS
  <2> QED
    BY <2>1, <2>2 DEF HighestYet
<1>4. /\ \A i \in 1..n + 1 : i \in 1..n \/ i = n + 1
      /\ \A i \in 1..n : i \in 1..n + 1 /\ i # n + 1
      /\ n + 1 \in 1..n + 1
  BY <1>1
<1>5. seen' # <<>>
  BY <1>1
<1>6. CASE Processed(proc, id)
  <2>1. /\ \A i \in 1..n : seen[i] < id
        /\ \A k \in 1..m : tape[k] < id
    BY <1>6, ProcessedIsLater
  <2>2. /\ proc'.last = id /\ proc'.recent = Remember(proc.recent, id)
        /\ proc'.processed = proc.processed + 1 /\ proc'.received = proc.received + 1
        /\ proc'.duplicates = proc.duplicates /\ proc'.stale = proc.stale
    BY <1>1, <1>6, ProcessedFields
  <2>3. /\ Len(tape') = m + 1 /\ tape'[m + 1] = id
        /\ \A k \in 1..m : tape'[k] = tape[k]
    BY <1>6
  <2>4. \A k \in 1..m + 1 : k \in 1..m \/ k = m + 1
    BY <1>1
  <2>5. TapeIsRecords'
    <3>1. \A i, j \in 1..m + 1 : i < j => tape'[i] < tape'[j]
      <4> SUFFICES ASSUME NEW i \in 1..m + 1, NEW j \in 1..m + 1, i < j PROVE tape'[i] < tape'[j]
        OBVIOUS
      <4>1. i \in 1..m
        BY <1>1
      <4>2. CASE j \in 1..m
        BY <2>3, <4>1, <4>2 DEF TapeInv, TapeIsRecords
      <4>3. CASE j = m + 1
        BY <2>1, <2>3, <4>1, <4>3
      <4> QED
        BY <2>4, <4>2, <4>3
    <3>2. ASSUME NEW i \in 1..n + 1, HighestYet(i)'
          PROVE  \E k \in 1..m + 1 : tape'[k] = seen'[i]
      <4>1. CASE i \in 1..n
        <5>1. PICK k \in 1..m : tape[k] = seen[i]
          BY <1>2, <3>2, <4>1 DEF TapeInv, TapeIsRecords
        <5> QED
          BY <1>1, <2>3, <4>1, <5>1
      <4>2. CASE i = n + 1
        BY <1>1, <2>3, <4>2
      <4> QED
        BY <1>4, <4>1, <4>2
    <3>3. ASSUME NEW k \in 1..m + 1
          PROVE  \E i \in 1..n + 1 : HighestYet(i)' /\ tape'[k] = seen'[i]
      <4>1. CASE k \in 1..m
        <5>1. PICK i \in 1..n : HighestYet(i) /\ tape[k] = seen[i]
          BY <4>1 DEF TapeInv, TapeIsRecords
        <5>2. i \in 1..n + 1
          BY <1>1
        <5> QED
          BY <1>2, <2>3, <4>1, <5>1, <5>2
      <4>2. CASE k = m + 1
        <5>1. HighestYet(n + 1)'
          BY <1>3, <2>1
        <5>2. tape'[k] = seen'[n + 1]
          BY <2>3, <4>2
        <5> QED
          BY <1>4, <5>1, <5>2
      <4> QED
        BY <2>4, <4>1, <4>2
    <3> QED
      BY <2>3, <3>1, <3>2, <3>3 DEF TapeIsRecords
  <2>6. WindowInv'
    <3>1. proc.recent \in Seq(TradeIds) /\ Len(proc.recent) <= Window
      BY <1>1 DEF Processors, Windows
    <3>2. id \in Range(proc'.recent) /\ Range(proc'.recent) \subseteq Range(proc.recent) \cup {id}
      BY <2>2, <3>1, RememberIs
    <3>3. Range(tape) \subseteq Range(tape') /\ id \in Range(tape')
      <4>1. DOMAIN tape = 1..m /\ DOMAIN tape' = 1..m + 1
        BY <1>1, <2>3 DEF TypeOK
      <4>2. \A k \in 1..m : k \in 1..m + 1
        BY <1>1
      <4>3. m + 1 \in 1..m + 1
        BY <1>1
      <4> QED
        BY <2>3, <4>1, <4>2, <4>3 DEF Range
    <3>4. Range(proc'.recent) \subseteq Range(tape')
      BY <3>2, <3>3 DEF TapeInv, WindowInv
    <3>5. tape' # <<>>
      BY <1>1, <2>3
    <3>6. \A i \in 1..n + 1 : seen'[i] <= id
      <4>1. \A i \in 1..n : seen[i] \in Nat /\ seen[i] <= id
        BY <1>1, <2>1, SeenAreNumbers
      <4> QED
        BY <1>1, <1>4, <4>1
    <3>7. \A i \in 1..Len(seen)' : seen'[i] <= proc'.last
      BY <2>2, <3>6
    <3>8. proc'.last = tape'[Len(tape)']
      BY <2>2, <2>3
    <3> QED
      BY <1>1, <1>5, <2>2, <3>2, <3>4, <3>5, <3>7, <3>8 DEF WindowInv
  <2>7. CountsInv'
    <3>1. /\ proc.processed \in Nat /\ proc.received \in Nat
          /\ proc.duplicates \in Nat /\ proc.stale \in Nat
          /\ proc'.duplicates \in Nat /\ proc'.stale \in Nat
      BY <1>1 DEF Processors
    <3>2. /\ proc.processed = m /\ proc.received = n
          /\ proc.received = proc.processed + proc.duplicates + proc.stale
      BY DEF TapeInv, CountsInv
    <3>3. proc'.processed = Len(tape') /\ proc'.received = Len(seen')
      BY <1>1, <2>2, <2>3, <3>2
    <3>4. proc'.received = proc'.processed + proc'.duplicates + proc'.stale
      <4> DEFINE d == proc.duplicates
                 s == proc.stale
                 e == proc'.duplicates
                 t == proc'.stale
      <4>1. d \in Nat /\ s \in Nat /\ e \in Nat /\ t \in Nat
        BY <3>1
      <4>2. n = m + d + s
        BY <3>2
      <4>3. proc'.received = n + 1
        BY <2>2, <3>2
      <4>4. proc'.processed = m + 1 /\ e = d /\ t = s
        BY <2>2, <3>2
      <4> HIDE DEF d, s, e, t, m
      <4>5. n + 1 = (m + 1) + e + t
        BY <1>1, <4>1, <4>2, <4>4, OneMore
      <4> QED
        BY <4>3, <4>4, <4>5 DEF e, t
    <3> QED
      BY <3>3, <3>4 DEF CountsInv
  <2> QED
    BY <2>5, <2>6, <2>7 DEF TapeInv
<1>7. CASE ~Processed(proc, id)
  <2>1. id <= proc.last /\ \E i \in 1..n : id <= seen[i]
    BY <1>7, RejectedIsNotLater
  <2>2. /\ proc'.last = proc.last /\ proc'.recent = proc.recent
        /\ proc'.processed = proc.processed /\ proc'.received = proc.received + 1
        /\ proc'.duplicates + proc'.stale = proc.duplicates + proc.stale + 1
    BY <1>1, <1>7, ProcessedFields
  <2>3. tape' = tape
    BY <1>7
  <2>4. ~HighestYet(n + 1)'
    <3>1. \A i \in 1..n : seen[i] \in Nat
      BY SeenAreNumbers
    <3> QED
      BY <1>1, <1>3, <2>1, <3>1
  <2>5. TapeIsRecords'
    <3>1. ASSUME NEW i \in 1..n + 1, HighestYet(i)'
          PROVE  \E k \in 1..m : tape'[k] = seen'[i]
      <4>1. i \in 1..n
        <5>1. i # n + 1
          BY <2>4, <3>1
        <5> QED
          BY <1>4, <5>1
      <4>2. HighestYet(i)
        BY <1>2, <3>1, <4>1
      <4>3. seen'[i] = seen[i]
        BY <4>1
      <4> QED
        BY <2>3, <4>1, <4>2, <4>3 DEF TapeInv, TapeIsRecords
    <3>2. ASSUME NEW k \in 1..m
          PROVE  \E i \in 1..n + 1 : HighestYet(i)' /\ tape'[k] = seen'[i]
      <4>1. PICK i \in 1..n : HighestYet(i) /\ tape[k] = seen[i]
        BY DEF TapeInv, TapeIsRecords
      <4>2. i \in 1..n + 1
        BY <1>1
      <4> QED
        BY <1>2, <2>3, <4>1, <4>2
    <3> QED
      BY <2>3, <3>1, <3>2 DEF TapeInv, TapeIsRecords
  <2>6. WindowInv'
    <3>1. tape # <<>>
      BY <1>1, <2>1 DEF TapeInv, WindowInv
    <3>2. \A i \in 1..n + 1 : seen'[i] <= proc.last
      BY <1>4, <2>1 DEF TapeInv, WindowInv
    <3>3. \A i \in 1..Len(seen)' : seen'[i] <= proc'.last
      BY <2>2, <3>2
    <3> QED
      BY <1>5, <2>2, <2>3, <3>1, <3>3 DEF TapeInv, WindowInv
  <2>7. CountsInv'
    <3>1. /\ proc.processed \in Nat /\ proc.received \in Nat
          /\ proc.duplicates \in Nat /\ proc.stale \in Nat
          /\ proc'.duplicates \in Nat /\ proc'.stale \in Nat
      BY <1>1 DEF Processors
    <3>2. /\ proc.processed = m /\ proc.received = n
          /\ proc.received = proc.processed + proc.duplicates + proc.stale
      BY DEF TapeInv, CountsInv
    <3>3. proc'.processed = Len(tape') /\ proc'.received = Len(seen')
      BY <1>1, <2>2, <2>3, <3>2
    <3>4. proc'.received = proc'.processed + proc'.duplicates + proc'.stale
      <4> DEFINE d == proc.duplicates
                 s == proc.stale
                 e == proc'.duplicates
                 t == proc'.stale
      <4>1. d \in Nat /\ s \in Nat /\ e \in Nat /\ t \in Nat
        BY <3>1
      <4>2. n = m + d + s
        BY <3>2
      <4>3. proc'.received = n + 1
        BY <2>2, <3>2
      <4>4. proc'.processed = m /\ e + t = d + s + 1
        BY <2>2, <3>2
      <4> HIDE DEF d, s, e, t, m
      <4>5. n + 1 = m + e + t
        BY <1>1, <4>1, <4>2, <4>4, OneMore
      <4> QED
        BY <4>3, <4>4, <4>5 DEF e, t
    <3> QED
      BY <3>3, <3>4 DEF CountsInv
  <2> QED
    BY <2>5, <2>6, <2>7 DEF TapeInv
<1> QED
  BY <1>6, <1>7

\* Every other step leaves the tape, the window and the counts alone.
LEMMA OthersKeepTape ==
  ASSUME TypeOK, TapeInv, seen' = seen, tape' = tape,
         proc' \in {proc, OnTradeReconnect(proc), RecordMalformed(proc), RecordMarkerRejected(proc)}
  PROVE  TapeInv'
<1>1. /\ proc'.last = proc.last /\ proc'.recent = proc.recent
      /\ proc'.processed = proc.processed /\ proc'.received = proc.received
      /\ proc'.duplicates = proc.duplicates /\ proc'.stale = proc.stale
  BY DEF OnTradeReconnect, RecordMalformed, RecordMarkerRejected, TypeOK, Processors
<1>2. \A i : HighestYet(i)' <=> HighestYet(i)
  BY DEF HighestYet
<1>3. TapeIsRecords'
  BY <1>2 DEF TapeInv, TapeIsRecords
<1>4. WindowInv'
  BY <1>1 DEF TapeInv, WindowInv
<1>5. CountsInv'
  BY <1>1 DEF TapeInv, CountsInv
<1> QED
  BY <1>3, <1>4, <1>5 DEF TapeInv

LEMMA OtherSteps ==
  ASSUME [Next]_vars, ~MainTrade
  PROVE  /\ seen' = seen /\ tape' = tape
         /\ proc' \in {proc, OnTradeReconnect(proc), RecordMalformed(proc), RecordMarkerRejected(proc)}
<1>1. CASE ClientStep
  BY <1>1 DEF ClientStep, Connect, Deliver, Disconnect, tradeVars
<1>2. CASE MainLink \/ MainRejected
  BY <1>2 DEF MainLink, MainRejected
<1>3. CASE MainTradeEvent \/ MainDepthEvent
  BY <1>3 DEF MainTradeEvent, MainDepthEvent, tradeVars
<1>4. CASE MainStop \/ MainCloses
  BY <1>4 DEF MainStop, MainCloses, MainFinalize, MainJoin, tradeVars
<1>5. CASE WorkerStep
  BY <1>5 DEF WorkerStep, WorkerReceive, WorkerFinalFlush, tradeVars
<1>6. CASE UNCHANGED vars
  BY <1>6 DEF vars
<1> QED
  BY <1>1, <1>2, <1>3, <1>4, <1>5, <1>6 DEF Next, MainLoopStep

\* The inductive invariant: the last processed id is the highest one seen, and it is in the window.
THEOREM PathSafe == Spec => []IInv
<1>1. Init => IInv
  <2> SUFFICES ASSUME Init PROVE IInv
    OBVIOUS
  <2>1. Len(seen) = 0 /\ Len(tape) = 0 /\ seen = <<>> /\ tape = <<>>
    BY DEF Init
  <2>2. TapeIsRecords
    BY <2>1 DEF TapeIsRecords
  <2>3. WindowInv
    BY <2>1 DEF WindowInv, Init, NewProcessor, Range
  <2>4. CountsInv
    BY <2>1 DEF CountsInv, Init, NewProcessor
  <2> QED
    BY <2>2, <2>3, <2>4, InitType DEF IInv
<1>2. IInv /\ [Next]_vars => IInv'
  <2> SUFFICES ASSUME IInv, [Next]_vars PROVE IInv'
    OBVIOUS
  <2>1. TypeOK /\ TapeInv
    BY DEF IInv, TapeInv
  <2>2. TypeOK'
    BY <2>1, NextType
  <2>3. TapeInv'
    BY <2>1, TradeKeepsTape, OthersKeepTape, OtherSteps
  <2> QED
    BY <2>2, <2>3 DEF IInv, TapeInv
<1> QED
  BY <1>1, <1>2, PTL DEF Spec

\* The tape has exactly the trades that arrived with the highest id yet, each once and in order.
THEOREM TapeIsExact == Spec => []TapeIsRecords
<1>1. IInv => TapeIsRecords
  BY DEF IInv
<1> QED
  BY <1>1, PathSafe, PTL

-----------------------------------------------------------------------------
(* The refinement. *)

LEMMA StepImplements == IInv /\ [Next]_vars => [Tape!Next]_tape
<1> SUFFICES ASSUME IInv, [Next]_vars, tape' # tape PROVE Tape!Next
  OBVIOUS
<1>1. TypeOK /\ TapeInv
  BY DEF IInv, TapeInv
<1>2. MainTrade
  BY OtherSteps
<1>3. PICK id \in TradeIds : IF Processed(proc, id) THEN tape' = Append(tape, id) ELSE tape' = tape
  BY <1>1, <1>2, TradeStep
<1>4. Processed(proc, id) /\ tape' = Append(tape, id)
  BY <1>3
<1>5. \A k \in 1..Len(tape) : tape[k] < id
  BY <1>1, <1>4, ProcessedIsLater
<1> QED
  BY <1>4, <1>5 DEF Tape!Next, Tape!Execute, Tape!Later

\* The trade path implements TradeTape: every step appends one later trade, or leaves the tape alone.
THEOREM PathImplements == Spec => ImplementsTape
<1>1. Init => Tape!Init
  BY DEF Init, Tape!Init
<1> QED
  BY <1>1, StepImplements, PathSafe, PTL DEF Spec, ImplementsTape, Tape!Spec

-----------------------------------------------------------------------------
(* Counting: what a message or a batch adds to those that wait. *)

Counting == INSTANCE FoldTheorems WITH Op <- CountTrade
Adding == INSTANCE FoldTheorems WITH Op <- Plus

LEMMA TradesInIsFold == \A s : TradesIn(s) = Counting!Fold(0, s)
BY DEF TradesIn, Counting!Fold, FoldLeft, MapThenFoldSet, Max, Counting!FoldLeft,
       Counting!MapThenFoldSet, Counting!Max

LEMMA RowsInIsFold == \A s : RowsIn(s) = Adding!Fold(NoRows, s)
BY DEF RowsIn, Adding!Fold, FoldLeft, MapThenFoldSet, Max, Adding!FoldLeft,
       Adding!MapThenFoldSet, Adding!Max

LEMMA TradesInAppend ==
  ASSUME NEW s \in Seq(Messages), NEW m \in Messages
  PROVE  TradesIn(Append(s, m)) = IF m.kind = "Trade" THEN TradesIn(s) + 1 ELSE TradesIn(s)
<1>1. Counting!Fold(0, Append(s, m)) = CountTrade(Counting!Fold(0, s), m)
  BY Counting!FoldAppend
<1> QED BY <1>1, TradesInIsFold DEF CountTrade

LEMMA TradesInTail ==
  ASSUME NEW s \in Seq(Messages), s # <<>>
  PROVE  /\ TradesIn(Tail(s)) = IF Head(s).kind = "Trade" THEN TradesIn(s) - 1 ELSE TradesIn(s)
         /\ TradesIn(s) \in Int
<1>1. Head(s) \in Messages /\ Tail(s) \in Seq(Messages)
  BY HeadTailProperties
<1>2. \A x \in Int : \A c \in Int : \A e \in Messages :
         CountTrade(x, e) \in Int /\ CountTrade(c + x, e) = c + CountTrade(x, e)
  BY DEF CountTrade
<1>3. TradesIn(s) = Counting!Fold(CountTrade(0, Head(s)), Tail(s))
  BY TradesInIsFold, Counting!FoldHead
<1>4. /\ Counting!Fold(1 + 0, Tail(s)) = 1 + Counting!Fold(0, Tail(s))
      /\ Counting!Fold(0, Tail(s)) \in Int
  <2>1. ASSUME NEW b \in Int, NEW c \in Int
        PROVE  /\ Counting!Fold(c + b, Tail(s)) = c + Counting!Fold(b, Tail(s))
               /\ Counting!Fold(b, Tail(s)) \in Int
    BY <1>1, <1>2, Counting!FoldShift
  <2>2. 0 \in Int /\ 1 \in Int
    OBVIOUS
  <2> QED BY <2>1, <2>2, Zenon
<1>5. CASE Head(s).kind = "Trade"
  <2>1. CountTrade(0, Head(s)) = 1 + 0
    BY <1>5 DEF CountTrade
  <2> QED BY <1>3, <1>4, <1>5, <2>1, TradesInIsFold
<1>6. CASE Head(s).kind # "Trade"
  <2>1. CountTrade(0, Head(s)) = 0
    BY <1>6 DEF CountTrade
  <2> QED BY <1>3, <1>4, <1>6, <2>1, TradesInIsFold
<1> QED BY <1>5, <1>6

LEMMA PlusLaws ==
  /\ \A a \in Batches : Plus(a, NoRows) = a /\ Plus(NoRows, a) = a
  /\ \A a, b, c \in Batches : Plus(a, Plus(b, c)) = Plus(Plus(a, b), c)
<1>1. \A a \in Batches : Plus(a, NoRows) = a /\ Plus(NoRows, a) = a
  BY DEF Batches, Plus, NoRows
<1>2. ASSUME NEW a \in Batches, NEW b \in Batches, NEW c \in Batches
      PROVE  Plus(a, Plus(b, c)) = Plus(Plus(a, b), c)
  <2>1. \A t \in Tables : a[t] + (b[t] + c[t]) = (a[t] + b[t]) + c[t]
    BY DEF Batches
  <2> QED BY <2>1 DEF Plus
<1> QED BY <1>1, <1>2

LEMMA RowsFromBase ==
  ASSUME NEW s \in Seq(Batches), NEW b \in Batches
  PROVE  /\ Adding!Fold(b, s) = Plus(b, Adding!Fold(NoRows, s))
         /\ Adding!Fold(NoRows, s) \in Batches
<1>1. NoRows \in Batches
  BY BatchType
<1>2. \A x, y \in Batches : Plus(x, y) \in Batches
  BY BatchType
<1>3. \A x \in Batches : Plus(x, NoRows) = x
  BY PlusLaws
<1>4. \A x, y, z \in Batches : Plus(x, Plus(y, z)) = Plus(Plus(x, y), z)
  BY PlusLaws
<1> DEFINE T == Batches
           z == NoRows
<1> HIDE DEF T, z
<1>5. z \in T /\ b \in T /\ s \in Seq(T)
  BY <1>1 DEF T, z
<1>6. /\ \A x, y \in T : Plus(x, y) \in T
      /\ \A x \in T : Plus(x, z) = x
      /\ \A x, y, w \in T : Plus(x, Plus(y, w)) = Plus(Plus(x, y), w)
  BY <1>2, <1>3, <1>4 DEF T, z
<1>7. Adding!Fold(b, s) = Plus(b, Adding!Fold(z, s)) /\ Adding!Fold(z, s) \in T
  BY <1>5, <1>6, Adding!FoldFromZero
<1> QED BY <1>7 DEF T, z

LEMMA RowsInAppend ==
  ASSUME NEW s \in Seq(Batches), NEW b \in Batches
  PROVE  RowsIn(Append(s, b)) = Plus(RowsIn(s), b)
BY RowsInIsFold, Adding!FoldAppend

LEMMA RowsInTail ==
  ASSUME NEW s \in Seq(Batches), s # <<>>
  PROVE  RowsIn(s) = Plus(Head(s), RowsIn(Tail(s)))
<1>1. Head(s) \in Batches /\ Tail(s) \in Seq(Batches)
  BY HeadTailProperties
<1>2. RowsIn(s) = Adding!Fold(Plus(NoRows, Head(s)), Tail(s))
  BY RowsInIsFold, Adding!FoldHead
<1>3. Plus(NoRows, Head(s)) = Head(s)
  BY <1>1, PlusLaws
<1>4. Adding!Fold(Head(s), Tail(s)) = Plus(Head(s), Adding!Fold(NoRows, Tail(s)))
  BY <1>1, RowsFromBase
<1> QED BY <1>2, <1>3, <1>4, RowsInIsFold

LEMMA RowsInType == ASSUME NEW s \in Seq(Batches) PROVE RowsIn(s) \in Batches
BY RowsInIsFold, RowsFromBase, BatchType

LEMMA RowsInEmpty == TradesIn(<<>>) = 0 /\ RowsIn(<<>>) = NoRows
BY TradesInIsFold, RowsInIsFold, Counting!FoldEmpty, Adding!FoldEmpty

-----------------------------------------------------------------------------
(* No payload is forgotten. *)

LEMMA ClientPayloads ==
  ASSUME TypeOK, PayloadsAccounted, ClientStep
  PROVE  delivered' = TradesIn(wire') + proc.received + proc.malformed + proc.markers
<1>1. /\ wire \in Seq(Messages)
      /\ TradesIn(wire) \in Int
      /\ delivered \in Nat /\ proc.received \in Nat /\ proc.malformed \in Nat /\ proc.markers \in Nat
  <2>1. wire = <<>> \/ TradesIn(wire) \in Int
    BY TradesInTail DEF TypeOK
  <2> QED BY <2>1, RowsInEmpty DEF TypeOK, Processors
<1>2. delivered = TradesIn(wire) + proc.received + proc.malformed + proc.markers
  BY DEF PayloadsAccounted
<1>3. ASSUME NEW kind \in Link, NEW s \in Seq(Messages)
      PROVE  /\ TradesIn(Append(s, LinkMessage(kind))) = TradesIn(s)
             /\ Append(s, LinkMessage(kind)) \in Seq(Messages)
  <2>1. LinkMessage(kind) \in Messages /\ LinkMessage(kind).kind # "Trade"
    BY MessageTypes DEF LinkMessage, Link
  <2> QED BY <2>1, TradesInAppend, AppendProperties
<1>4. CASE Connect
  <2>1. TradesIn(wire') = TradesIn(wire) /\ delivered' = delivered
    BY <1>1, <1>3, <1>4 DEF Connect, Link
  <2> QED BY <1>2, <2>1
<1>5. CASE Deliver
  <2>1. PICK payload \in Payloads : wire' = Append(wire, Trade(payload))
    BY <1>5 DEF Deliver
  <2>2. Trade(payload) \in Messages /\ Trade(payload).kind = "Trade"
    BY MessageTypes DEF Trade
  <2> DEFINE m == Trade(payload)
  <2>3. m \in Messages /\ m.kind = "Trade" /\ wire' = Append(wire, m)
    BY <2>1, <2>2
  <2> HIDE DEF m
  <2>4. TradesIn(Append(wire, m)) = TradesIn(wire) + 1
    BY <1>1, <2>3, TradesInAppend
  <2>5. delivered' = delivered + 1
    BY <1>5 DEF Deliver
  <2>6. TradesIn(wire') = TradesIn(wire) + 1
    BY <2>3, <2>4
  <2> QED
    <3> DEFINE before == TradesIn(wire)
               after == TradesIn(wire')
               x == proc.received
               y == proc.malformed
               z == proc.markers
    <3>1. /\ after = before + 1 /\ before \in Int /\ delivered = before + x + y + z
          /\ x \in Nat /\ y \in Nat /\ z \in Nat
      BY <1>1, <1>2, <2>6
    <3> SUFFICES delivered' = after + x + y + z
      OBVIOUS
    <3> HIDE DEF before, after, x, y, z
    <3> QED BY <2>5, <3>1
<1>6. CASE Disconnect
  <2> DEFINE m == LinkMessage("Disconnected")
  <2>1. wire' = Append(wire, m) \/ wire' = wire \o <<m, m>>
    BY <1>6 DEF Disconnect
  <2>2. m \in Messages /\ "Disconnected" \in Link
    BY MessageTypes DEF Link
  <2>3. wire \o <<m, m>> = Append(Append(wire, m), m)
    <3> HIDE DEF m
    <3> QED BY <1>1, <2>2
  <2>4. TradesIn(wire') = TradesIn(wire) /\ delivered' = delivered
    BY <1>1, <1>3, <1>6, <2>1, <2>2, <2>3 DEF Disconnect
  <2> QED BY <1>2, <2>4
<1> QED BY <1>4, <1>5, <1>6 DEF ClientStep

\* What the processor makes of the message it receives is counted under one heading.
LEMMA MainPayloads ==
  ASSUME TypeOK, PayloadsAccounted, MainLink \/ MainTrade \/ MainRejected
  PROVE  delivered' = TradesIn(wire') + proc'.received + proc'.malformed + proc'.markers
<1>1. /\ wire # <<>> /\ wire \in Seq(Messages) /\ wire' = Tail(wire) /\ delivered' = delivered
      /\ Head(wire) \in Messages
  BY DEF MainLink, MainTrade, MainRejected, Receives, TypeOK, clientVars
<1>2. /\ TradesIn(wire') = IF Head(wire).kind = "Trade" THEN TradesIn(wire) - 1 ELSE TradesIn(wire)
      /\ TradesIn(wire) \in Int
  BY <1>1, TradesInTail
<1>3. proc \in Processors /\ proc.received \in Nat /\ proc.malformed \in Nat /\ proc.markers \in Nat
  BY DEF TypeOK, Processors
<1>4. delivered = TradesIn(wire) + proc.received + proc.malformed + proc.markers
  BY DEF PayloadsAccounted
<1>5. CASE MainLink
  <2>1. Head(wire).kind # "Trade"
    BY <1>5 DEF MainLink, Receives, Link
  <2>2. proc'.received = proc.received /\ proc'.malformed = proc.malformed /\ proc'.markers = proc.markers
    BY <1>3, <1>5 DEF MainLink, OnTradeReconnect, Processors
  <2> QED BY <1>1, <1>2, <1>4, <2>1, <2>2
<1>6. CASE MainTrade
  <2> DEFINE id == Head(wire).payload.id
  <2>1. Head(wire).kind = "Trade" /\ id \in TradeIds /\ proc' = Process(proc, id)
    BY <1>1, <1>6, MessageTypes DEF MainTrade, Receives
  <2> HIDE DEF id
  <2>2. proc'.received = proc.received + 1
    BY <1>3, <2>1, ProcessedFields
  <2>3. proc'.malformed = proc.malformed /\ proc'.markers = proc.markers
    <3> DEFINE r == CountReceived(proc)
    <3>1. r \in Processors /\ r.malformed = proc.malformed /\ r.markers = proc.markers
      BY <1>3 DEF CountReceived, Processors
    <3>2. proc' \in {CountDuplicate(r), CountStale(r), Accept(r, id)}
      BY <2>1 DEF Process, Processed
    <3> HIDE DEF r
    <3> QED BY <3>1, <3>2 DEF CountDuplicate, CountStale, Accept, Processors
  <2> QED
    <3> DEFINE before == TradesIn(wire)
               after == TradesIn(wire')
    <3>1. /\ after = before - 1 /\ before \in Int
          /\ delivered' = before + proc.received + proc.malformed + proc.markers
      BY <1>1, <1>2, <1>4, <2>1
    <3> SUFFICES delivered' = after + proc'.received + proc'.malformed + proc'.markers
      OBVIOUS
    <3> HIDE DEF before, after
    <3> QED BY <1>3, <2>2, <2>3, <3>1
<1>7. CASE MainRejected
  <2>1. Head(wire).kind = "Trade"
    BY <1>7 DEF MainRejected, Receives
  <2>2. /\ proc'.received = proc.received
        /\ \/ proc'.malformed = proc.malformed + 1 /\ proc'.markers = proc.markers
           \/ proc'.malformed = proc.malformed /\ proc'.markers = proc.markers + 1
    BY <1>3, <1>7 DEF MainRejected, RecordMarkerRejected, RecordMalformed, Processors
  <2>3. delivered' = TradesIn(wire') + 1 + proc.received + proc.malformed + proc.markers
    BY <1>1, <1>2, <1>3, <1>4, <2>1
  <2>4. TradesIn(wire') \in Int
    BY <1>2, <2>1
  <2>5. CASE proc'.malformed = proc.malformed + 1 /\ proc'.markers = proc.markers
    BY <1>3, <2>2, <2>3, <2>4, <2>5
  <2>6. CASE proc'.malformed = proc.malformed /\ proc'.markers = proc.markers + 1
    BY <1>3, <2>2, <2>3, <2>4, <2>6
  <2> QED BY <2>2, <2>5, <2>6
<1> QED BY <1>5, <1>6, <1>7

LEMMA NextPayloads == TypeOK /\ PayloadsAccounted /\ CountsInv' /\ [Next]_vars => PayloadsAccounted'
<1> SUFFICES ASSUME TypeOK, PayloadsAccounted, CountsInv', [Next]_vars PROVE PayloadsAccounted'
  OBVIOUS
<1>1. CASE ClientStep
  <2>1. proc' = proc
    BY <1>1 DEF ClientStep, Connect, Deliver, Disconnect, tradeVars
  <2> QED BY <1>1, <2>1, ClientPayloads DEF PayloadsAccounted
<1>2. CASE MainLink \/ MainTrade \/ MainRejected
  BY <1>2, MainPayloads DEF PayloadsAccounted
<1>3. CASE ~ClientStep /\ ~(MainLink \/ MainTrade \/ MainRejected)
  <2>1. delivered' = delivered /\ wire' = wire /\ proc' = proc
    BY <1>3 DEF Next, MainLoopStep, MainTradeEvent, MainDepthEvent, MainStop, MainCloses, MainFinalize,
                MainJoin, WorkerStep, WorkerReceive, WorkerFinalFlush, vars, clientVars, tradeVars
  <2> QED BY <2>1 DEF PayloadsAccounted
<1> QED BY <1>1, <1>2, <1>3

-----------------------------------------------------------------------------
(* No row is forgotten, and the profile travels whole. *)

\* The engine's side: a batch that is sent is in the channel.
LEMMA SubmitRows ==
  ASSUME TypeOK, RowsAccounted, worker = "receiving", NEW batch \in Batches, Submit(batch),
         pending' = pending, stored' = stored, lost' = lost
  PROVE  /\ RowsAccounted'
         /\ submitted'["profile"] = submitted["profile"] + batch["profile"]
         /\ Range(channel') \subseteq Range(channel) \cup {batch}
<1>1. channel \in Seq(Batches) /\ submitted \in Batches
  BY DEF TypeOK
<1>2. RowsIn(channel) \in Batches
  BY <1>1, RowsInType
<1>3. submitted' = Plus(submitted, batch)
  BY DEF Submit
<1>4. RowsIn(channel') = Plus(RowsIn(channel), batch)
  <2>1. CASE batch = NoRows
    BY <1>2, <2>1, PlusLaws DEF Submit
  <2>2. CASE batch # NoRows
    <3>1. channel' = Append(channel, batch)
      BY <2>2 DEF Submit
    <3> QED BY <1>1, <3>1, RowsInAppend
  <2> QED BY <2>1, <2>2
<1>5. RowsAccounted'
  <2> SUFFICES ASSUME NEW t \in Tables
               PROVE  submitted'[t] = RowsIn(channel')[t] + pending[t] + stored[t] + lost[t]
    BY DEF RowsAccounted
  <2>1. submitted'[t] = submitted[t] + batch[t] /\ RowsIn(channel')[t] = RowsIn(channel)[t] + batch[t]
    BY <1>3, <1>4 DEF Plus
  <2>2. submitted[t] = RowsIn(channel)[t] + pending[t] + stored[t] + lost[t]
    BY DEF RowsAccounted
  <2>3. /\ submitted[t] \in Nat /\ batch[t] \in Nat /\ RowsIn(channel)[t] \in Nat
        /\ pending[t] \in Nat /\ stored[t] \in Nat /\ lost[t] \in Nat
    BY <1>2 DEF TypeOK, Batches
  <2> QED BY <2>1, <2>2, <2>3
<1>6. submitted'["profile"] = submitted["profile"] + batch["profile"]
  BY <1>3 DEF Plus, Tables
<1>7. Range(channel') \subseteq Range(channel) \cup {batch}
  <2>1. CASE channel' = Append(channel, batch)
    BY <1>1, <2>1 DEF Range
  <2> QED BY <2>1 DEF Submit
<1> QED BY <1>5, <1>6, <1>7

\* The worker's side: what it flushes is in the database, or lost.
LEMMA FlushRows ==
  ASSUME TypeOK, NEW rows \in Batches, Buffer(rows) \/ FlushBatch(rows)
  PROVE  \A t \in Tables :
           /\ pending'[t] + stored'[t] + lost'[t] = rows[t] + stored[t] + lost[t]
           /\ pending'[t] \in {0, rows[t]}
           /\ stored'[t] \in {stored[t], stored[t] + rows[t]}
           /\ lost'[t] \in {lost[t], lost[t] + rows[t]}
<1>1. CASE FlushBatch(rows)
  <2> PICK failed \in SUBSET {t \in Tables : rows[t] > 0} :
        /\ stored' = [t \in Tables |-> stored[t] + IF t \in failed THEN 0 ELSE rows[t]]
        /\ lost' = [t \in Tables |-> lost[t] + IF t \in failed THEN rows[t] ELSE 0]
        /\ pending' = NoRows
    BY <1>1 DEF FlushBatch
  <2> TAKE t \in Tables
  <2>1. stored[t] \in Nat /\ lost[t] \in Nat /\ rows[t] \in Nat
    BY DEF TypeOK, Batches
  <2> QED BY <2>1 DEF NoRows
<1>2. CASE pending' = rows /\ UNCHANGED <<stored, lost>>
  BY <1>2
<1> QED BY <1>1, <1>2 DEF Buffer

LEMMA WorkerRows == TypeOK /\ RowsAccounted /\ WorkerStep => RowsAccounted'
<1> SUFFICES ASSUME TypeOK, RowsAccounted, WorkerStep PROVE RowsAccounted'
  OBVIOUS
<1>0. submitted' = submitted
  BY DEF WorkerStep, WorkerReceive, WorkerFinalFlush
<1> SUFFICES ASSUME NEW t \in Tables
             PROVE  submitted[t] = RowsIn(channel')[t] + pending'[t] + stored'[t] + lost'[t]
  BY <1>0 DEF RowsAccounted
<1>1. submitted[t] = RowsIn(channel)[t] + pending[t] + stored[t] + lost[t]
  BY DEF RowsAccounted
<1>2. TypeOK'
  BY WorkerType
<1>3. RowsIn(channel) \in Batches /\ RowsIn(channel') \in Batches
  BY <1>2, RowsInType DEF TypeOK
<1>4. /\ RowsIn(channel)[t] \in Nat /\ pending[t] \in Nat /\ stored[t] \in Nat /\ lost[t] \in Nat
      /\ RowsIn(channel')[t] \in Nat /\ pending'[t] \in Nat /\ stored'[t] \in Nat /\ lost'[t] \in Nat
  BY <1>2, <1>3 DEF TypeOK, Batches
<1>5. CASE WorkerReceive
  <2> DEFINE head == Head(channel)
             rows == Plus(pending, head)
  <2>1. channel # <<>> /\ channel \in Seq(Batches) /\ channel' = Tail(channel) /\ head \in Batches
    BY <1>5 DEF WorkerReceive, TypeOK
  <2>2. RowsIn(channel) = Plus(head, RowsIn(channel'))
    BY <2>1, RowsInTail
  <2>3. rows \in Batches /\ rows[t] = pending[t] + head[t] /\ head[t] \in Nat
    BY <2>1, BatchType DEF TypeOK, Plus, Batches
  <2>4. Buffer(rows)
    BY <1>5 DEF WorkerReceive
  <2> HIDE DEF rows, head
  <2>5. pending'[t] + stored'[t] + lost'[t] = rows[t] + stored[t] + lost[t]
    BY <2>3, <2>4, FlushRows
  <2>6. RowsIn(channel)[t] = head[t] + RowsIn(channel')[t]
    BY <2>2 DEF Plus
  <2> QED BY <1>1, <1>4, <2>3, <2>5, <2>6
<1>6. CASE WorkerFinalFlush
  <2>1. pending'[t] + stored'[t] + lost'[t] = pending[t] + stored[t] + lost[t]
    BY <1>6, FlushRows DEF WorkerFinalFlush, TypeOK
  <2>2. channel' = channel
    BY <1>6 DEF WorkerFinalFlush
  <2> QED BY <1>1, <1>4, <2>1, <2>2
<1> QED BY <1>5, <1>6 DEF WorkerStep

LEMMA Whole ==
  ASSUME NEW s \in Nat, NEW a \in {0, s}, NEW b \in {0, s}, a + b <= s
  PROVE  a + b \in {0, s}
OBVIOUS

LEMMA WorkerProfile == TypeOK /\ RowsAccounted /\ RowsAccounted' /\ ProfileInv /\ WorkerStep => ProfileInv'
<1> SUFFICES ASSUME TypeOK, RowsAccounted, RowsAccounted', ProfileInv, WorkerStep PROVE ProfileInv'
  OBVIOUS
<1> DEFINE t == "profile"
           s == submitted[t]
<1>0. t \in Tables
  BY DEF Tables
<1>1. /\ submitted' = submitted /\ taken' = taken /\ main' = main
      /\ submitted[t] \in Nat /\ submitted'[t] = s
  BY <1>0 DEF WorkerStep, WorkerReceive, WorkerFinalFlush, TypeOK, Batches
<1>2. pending[t] \in {0, s} /\ stored[t] \in {0, s} /\ lost[t] \in {0, s}
  BY DEF ProfileInv
<1>3. TypeOK'
  BY WorkerType
<1>4. \A batch \in Range(channel') : batch[t] \in {0, s}
  <2>1. Range(channel') \subseteq Range(channel)
    <3>1. CASE channel' = channel
      BY <3>1
    <3>2. CASE channel # <<>> /\ channel' = Tail(channel)
      <4>1. /\ Len(channel) \in Nat \ {0} /\ Len(channel') = Len(channel) - 1
            /\ channel' \in Seq(Batches) /\ channel \in Seq(Batches)
            /\ \A i \in 1..Len(channel') : channel'[i] = channel[i + 1]
        BY <3>2 DEF TypeOK
      <4> QED BY <4>1 DEF Range
    <3> QED BY <3>1, <3>2 DEF WorkerStep, WorkerReceive, WorkerFinalFlush
  <2> QED BY <2>1 DEF ProfileInv
<1>5. \A batch \in {pending', stored', lost'} : batch[t] \in {0, s}
  <2> DEFINE rows == IF channel = <<>> THEN pending ELSE Plus(pending, Head(channel))
             r == rows[t]
  <2>1. /\ rows \in Batches /\ (Buffer(rows) \/ FlushBatch(rows))
        /\ r \in {0, s}
    <3>1. CASE WorkerFinalFlush
      BY <1>2, <3>1 DEF WorkerFinalFlush, TypeOK
    <3>2. CASE WorkerReceive
      <4> DEFINE head == Head(channel)
                 h == head[t]
      <4>1. channel # <<>> /\ channel \in Seq(Batches) /\ head \in Batches /\ head \in Range(channel)
        BY <3>2 DEF WorkerReceive, TypeOK, Range
      <4>2. h \in {0, s}
        BY <4>1 DEF ProfileInv
      <4>3. RowsIn(channel) = Plus(head, RowsIn(Tail(channel))) /\ RowsIn(Tail(channel)) \in Batches
        <5>1. Tail(channel) \in Seq(Batches)
          BY <4>1
        <5> HIDE DEF head
        <5>2. RowsIn(Tail(channel)) \in Batches
          BY <5>1, RowsInType
        <5> QED BY <4>1, <5>2, RowsInTail DEF head
      <4>4. /\ RowsIn(channel)[t] = h + RowsIn(Tail(channel))[t]
            /\ RowsIn(Tail(channel))[t] \in Nat /\ h \in Nat
        BY <1>0, <4>1, <4>3 DEF Plus, Batches
      <4>5. s = RowsIn(channel)[t] + pending[t] + stored[t] + lost[t]
        BY <1>0 DEF RowsAccounted
      <4>6. pending[t] \in Nat /\ stored[t] \in Nat /\ lost[t] \in Nat
        BY <1>0 DEF TypeOK, Batches
      <4>7. pending[t] + h <= s
        BY <4>4, <4>5, <4>6
      <4>8. pending[t] + h \in {0, s}
        BY <1>1, <1>2, <4>2, <4>7, Whole
      <4>9. rows = Plus(pending, head) /\ rows \in Batches /\ rows[t] = pending[t] + h
        BY <1>0, <4>1, BatchType DEF TypeOK, Plus
      <4> QED BY <3>2, <4>8, <4>9 DEF WorkerReceive
    <3> QED BY <3>1, <3>2 DEF WorkerStep
  <2> HIDE DEF rows
  <2>2. /\ pending'[t] \in {0, r}
        /\ stored'[t] \in {stored[t], stored[t] + r}
        /\ lost'[t] \in {lost[t], lost[t] + r}
    BY <1>0, <2>1, FlushRows
  <2>3. /\ s = RowsIn(channel')[t] + pending'[t] + stored'[t] + lost'[t]
        /\ RowsIn(channel')[t] \in Nat /\ pending'[t] \in Nat /\ stored'[t] \in Nat /\ lost'[t] \in Nat
    <3>1. RowsIn(channel') \in Batches
      BY <1>3, RowsInType DEF TypeOK
    <3> QED BY <1>0, <1>1, <1>3, <3>1 DEF RowsAccounted, TypeOK, Batches
  <2>4. stored'[t] <= s /\ lost'[t] <= s
    BY <2>3
  <2>5. stored'[t] \in {0, s}
    BY <1>1, <1>2, <2>1, <2>2, <2>4, Whole
  <2>6. lost'[t] \in {0, s}
    BY <1>1, <1>2, <2>1, <2>2, <2>4, Whole
  <2>7. pending'[t] \in {0, s}
    BY <2>1, <2>2
  <2> QED BY <2>5, <2>6, <2>7
<1>6. /\ main \in {"joining", "done"} => submitted[t] = taken
      /\ main \in {"running", "closing"} => submitted[t] = 0 /\ worker' = "receiving"
      /\ main = "done" => worker' = "returned"
      /\ worker' = "returned" => channel' = <<>> /\ pending' = NoRows
  <2>1. CASE WorkerReceive
    BY <2>1 DEF WorkerReceive, ProfileInv
  <2>2. CASE WorkerFinalFlush
    <3>1. pending' = NoRows
      BY <2>2 DEF WorkerFinalFlush, FlushBatch
    <3> QED BY <2>2, <3>1 DEF WorkerFinalFlush, SinkClosed, ProfileInv
  <2> QED BY <2>1, <2>2 DEF WorkerStep
<1> QED BY <1>1, <1>4, <1>5, <1>6 DEF ProfileInv

\* While the main loop runs the worker receives, so that no batch is refused.
LEMMA EngineRows ==
  ASSUME TypeOK, RowsAccounted, ProfileInv, MainTradeEvent \/ MainDepthEvent
  PROVE  RowsAccounted' /\ ProfileInv'
<1> PICK output \in Outputs : Submit(output)
  BY DEF MainTradeEvent, MainDepthEvent
<1>1. /\ main = "running" /\ worker = "receiving" /\ submitted["profile"] = 0
      /\ pending' = pending /\ stored' = stored /\ lost' = lost /\ main' = main /\ worker' = worker
  BY DEF MainTradeEvent, MainDepthEvent, ProfileInv, workerVars
<1>2. output \in Batches /\ output["profile"] = 0
  BY BatchType DEF Outputs
<1>3. /\ RowsAccounted'
      /\ submitted'["profile"] = submitted["profile"] + output["profile"]
      /\ Range(channel') \subseteq Range(channel) \cup {output}
  BY <1>1, <1>2, SubmitRows
<1>4. submitted'["profile"] = 0
  BY <1>1, <1>2, <1>3
<1>5. \A batch \in Range(channel') \cup {pending, stored, lost} : batch["profile"] = 0
  BY <1>1, <1>2, <1>3 DEF ProfileInv
<1> QED BY <1>1, <1>3, <1>4, <1>5 DEF ProfileInv

\* The profile of the session goes out once, with every trade the engine took.
LEMMA FinalRows ==
  ASSUME TypeOK, RowsAccounted, ProfileInv, MainFinalize
  PROVE  RowsAccounted' /\ ProfileInv'
<1> DEFINE last == [NoRows EXCEPT !["snapshots"] = IF taken + depthEvents > 0 THEN 1 ELSE 0,
                                  !["profile"] = taken]
<1>1. /\ main = "closing" /\ main' = "joining" /\ worker = "receiving" /\ submitted["profile"] = 0
      /\ pending' = pending /\ stored' = stored /\ lost' = lost /\ worker' = worker /\ taken' = taken
  BY DEF MainFinalize, ProfileInv, workerVars
<1>2. taken \in Nat
  <2>1. Len(tape) \in Nat
    BY DEF TypeOK
  <2> QED BY <2>1 DEF TypeOK
<1>3. last \in Batches /\ last["profile"] = taken /\ Submit(last)
  <2>1. (IF taken + depthEvents > 0 THEN 1 ELSE 0) \in Nat
    OBVIOUS
  <2>2. last \in Batches
    BY <1>2, <2>1, BatchType
  <2>3. last["profile"] = taken
    BY DEF NoRows, Tables
  <2>4. Submit(last)
    BY DEF MainFinalize
  <2> QED BY <2>2, <2>3, <2>4
<1> HIDE DEF last
<1>4. /\ RowsAccounted'
      /\ submitted'["profile"] = submitted["profile"] + last["profile"]
      /\ Range(channel') \subseteq Range(channel) \cup {last}
  BY <1>1, <1>3, SubmitRows
<1>5. submitted'["profile"] = taken
  BY <1>1, <1>2, <1>3, <1>4
<1>6. \A batch \in Range(channel') \cup {pending, stored, lost} : batch["profile"] \in {0, taken}
  <2>1. \A batch \in Range(channel) \cup {pending, stored, lost} : batch["profile"] = 0
    BY <1>1 DEF ProfileInv
  <2> QED BY <1>3, <1>4, <2>1
<1> QED BY <1>1, <1>4, <1>5, <1>6 DEF ProfileInv

LEMMA NextRows ==
  TypeOK /\ RowsAccounted /\ ProfileInv /\ [Next]_vars => RowsAccounted' /\ ProfileInv'
<1> SUFFICES ASSUME TypeOK, RowsAccounted, ProfileInv, [Next]_vars PROVE RowsAccounted' /\ ProfileInv'
  OBVIOUS
<1>1. CASE MainTradeEvent \/ MainDepthEvent
  BY <1>1, EngineRows
<1>2. CASE MainFinalize
  BY <1>2, FinalRows
<1>3. CASE WorkerStep
  BY <1>3, WorkerRows, WorkerProfile
<1>4. CASE MainStop \/ MainJoin
  BY <1>4 DEF MainStop, MainJoin, RowsAccounted, ProfileInv, workerVars
<1>5. CASE ClientStep \/ MainLink \/ MainTrade \/ MainRejected \/ UNCHANGED vars
  <2>1. UNCHANGED <<taken, main, channel, pending, worker, stored, lost, submitted>>
    BY <1>5 DEF ClientStep, Connect, Deliver, Disconnect, MainLink, MainTrade, MainRejected, vars,
                workerVars
  <2> QED BY <2>1 DEF RowsAccounted, ProfileInv
<1> QED BY <1>1, <1>2, <1>3, <1>4, <1>5 DEF Next, MainLoopStep, MainCloses

-----------------------------------------------------------------------------
(* The theorems. *)

\* Nothing that enters the trade path is forgotten: CInv is inductive.
THEOREM PathComplete == Spec => []CInv
<1>1. Init => PayloadsAccounted /\ RowsAccounted /\ ProfileInv
  <2> SUFFICES ASSUME Init PROVE PayloadsAccounted /\ RowsAccounted /\ ProfileInv
    OBVIOUS
  <2>1. PayloadsAccounted
    BY RowsInEmpty DEF Init, NewProcessor, PayloadsAccounted, CountsInv
  <2>2. RowsAccounted
    BY RowsInEmpty DEF Init, RowsAccounted, NoRows
  <2>3. Range(channel) = {} /\ "profile" \in Tables
    BY DEF Init, Range, Tables
  <2>4. ProfileInv
    BY <2>3 DEF Init, ProfileInv, NoRows
  <2> QED BY <2>1, <2>2, <2>4
<1>2. IInv /\ IInv' /\ PayloadsAccounted /\ [Next]_vars => PayloadsAccounted'
  BY NextPayloads DEF IInv
<1>3. IInv /\ RowsAccounted /\ ProfileInv /\ [Next]_vars => RowsAccounted' /\ ProfileInv'
  BY NextRows DEF IInv
<1> QED BY <1>1, <1>2, <1>3, PathSafe, PTL DEF Spec, CInv

\* Every payload the client sent on waits in the channel or is counted under exactly one heading.
THEOREM PayloadsNeverForgotten == Spec => []PayloadsAccounted
BY PathComplete, PTL DEF CInv

\* Every row the engine derived is in exactly one place, whichever inserts fail.
THEOREM RowsNeverForgotten == Spec => []RowsAccounted
BY PathComplete, PTL DEF CInv

\* Once the sink has been joined nothing waits, and the stored profile adds up every trade taken.
THEOREM ClosingIsComplete == Spec => []ClosedIsComplete
<1>1. CInv => ClosedIsComplete
  <2> SUFFICES ASSUME CInv, main = "done" PROVE ClosedIsComplete
    BY DEF ClosedIsComplete
  <2>1. /\ channel = <<>> /\ pending = NoRows /\ submitted["profile"] = taken
        /\ stored["profile"] \in {0, taken}
    BY DEF CInv, ProfileInv
  <2>2. "profile" \in Tables
    BY DEF Tables
  <2>3. submitted["profile"] =
          RowsIn(channel)["profile"] + pending["profile"] + stored["profile"] + lost["profile"]
    BY <2>2 DEF CInv, RowsAccounted
  <2>4. RowsIn(channel)["profile"] = 0 /\ pending["profile"] = 0
    BY <2>1, <2>2, RowsInEmpty DEF NoRows
  <2>5. stored["profile"] \in Nat /\ lost["profile"] \in Nat
    BY <2>2 DEF CInv, IInv, TypeOK, Batches
  <2>6. stored["profile"] + lost["profile"] = taken
    BY <2>1, <2>3, <2>4, <2>5
  <2> QED BY <2>1, <2>6 DEF ClosedIsComplete
<1> QED BY <1>1, PathComplete, PTL
=============================================================================
