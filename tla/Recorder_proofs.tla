--------------------------- MODULE Recorder_proofs --------------------------
(* Theorems of the recorder: types, the inductive invariant, queue_len, and the abstract log. *)
EXTENDS RecorderInv, SequenceTheorems, FiniteSetTheorems, TLAPS

-----------------------------------------------------------------------------
(* The channel as a set of records. *)

LEMMA QueuedAppend ==
  ASSUME NEW s \in Seq(Records), NEW r \in Records
  PROVE  {Append(s, r)[i] : i \in DOMAIN Append(s, r)} = {s[i] : i \in DOMAIN s} \cup {r}
<1>1. /\ Append(s, r) \in Seq(Records) /\ Len(s) \in Nat
      /\ Len(Append(s, r)) = Len(s) + 1
      /\ \A i \in 1..Len(s) : Append(s, r)[i] = s[i]
      /\ Append(s, r)[Len(s) + 1] = r
  BY AppendProperties, LenProperties
<1>2. DOMAIN s = 1..Len(s) /\ DOMAIN Append(s, r) = 1..Len(s) + 1
  BY <1>1, LenProperties
<1> DEFINE a == Append(s, r)
<1> HIDE DEF a
<1>3. \A i \in 1..Len(s) + 1 : i \in 1..Len(s) \/ i = Len(s) + 1
  BY <1>1
<1>4. \A i \in 1..Len(s) : i \in 1..Len(s) + 1
  BY <1>1
<1>5. Len(s) + 1 \in 1..Len(s) + 1
  BY <1>1
<1>6. /\ \A i \in 1..Len(s) : a[i] = s[i]
      /\ a[Len(s) + 1] = r /\ DOMAIN a = 1..Len(s) + 1
  BY <1>1, <1>2 DEF a
<1>7. {a[i] : i \in DOMAIN a} = {s[i] : i \in DOMAIN s} \cup {r}
  BY <1>2, <1>3, <1>4, <1>5, <1>6
<1> QED
  BY <1>7 DEF a

LEMMA QueuedTail ==
  ASSUME NEW s \in Seq(Records), s # <<>>
  PROVE  /\ Head(s) \in Records /\ Tail(s) \in Seq(Records) /\ Len(Tail(s)) <= Len(s)
         /\ {s[i] : i \in DOMAIN s} = {Head(s)} \cup {Tail(s)[i] : i \in DOMAIN Tail(s)}
<1> DEFINE t == Tail(s)
<1>1. /\ Head(s) = s[1] /\ Head(s) \in Records /\ t \in Seq(Records)
      /\ Len(s) \in Nat \ {0} /\ Len(t) = Len(s) - 1
      /\ \A i \in 1..Len(t) : t[i] = s[i + 1]
  BY HeadTailProperties, EmptySeq
<1>2. DOMAIN s = 1..Len(s) /\ DOMAIN t = 1..Len(t)
  BY <1>1, LenProperties
<1> HIDE DEF t
<1>3. {s[i] : i \in DOMAIN s} \subseteq {s[1]} \cup {t[i] : i \in DOMAIN t}
  <2> SUFFICES ASSUME NEW i \in 1..Len(s)
               PROVE  s[i] \in {s[1]} \cup {t[j] : j \in DOMAIN t}
    BY <1>2
  <2>1. CASE i = 1
    BY <2>1
  <2>2. CASE i # 1
    <3>1. i - 1 \in 1..Len(t) /\ i = (i - 1) + 1
      BY <2>2, <1>1
    <3>2. t[i - 1] = s[i]
      BY <3>1, <1>1
    <3> QED
      BY <3>1, <3>2, <1>2
  <2> QED
    BY <2>1, <2>2
<1>4. {s[1]} \cup {t[i] : i \in DOMAIN t} \subseteq {s[i] : i \in DOMAIN s}
  <2>1. 1 \in 1..Len(s) /\ \A i \in 1..Len(t) : i + 1 \in 1..Len(s)
    BY <1>1
  <2> QED
    BY <2>1, <1>1, <1>2
<1>5. Len(t) <= Len(s)
  BY <1>1
<1> QED
  BY <1>1, <1>3, <1>4, <1>5 DEF t

-----------------------------------------------------------------------------
(* Type correctness *)

LEMMA StepType ==
  /\ {"select", "drain", "stopped", "health"} \subseteq Steps
  /\ Kinds \subseteq Steps /\ "enqueue" \notin Steps
  /\ 0 \in 0..RetryAttempts - 1
  /\ \A k \in Kinds : NextFlush[k] \in Steps
BY RecorderAssumption DEF Steps, Flushing, Kinds, NextFlush

LEMMA NoRecordIsNone == NoRecord \notin Records
BY RecorderAssumption DEF NoRecord, Records, Kinds

LEMMA TypeInit == Init => TypeOK
<1> SUFFICES ASSUME Init PROVE TypeOK
  OBVIOUS
<1>1. worker \in Workers
  BY StepType DEF Init, Workers
<1>2. call \in [Callers -> Calls] /\ seq \in 1..MaxSeq + 1 /\ queueLen \in 0..Word - 1
  BY RecorderAssumption DEF Init, Calls
<1>3. queue \in Seq(Records) /\ Len(queue) <= Capacity
  BY RecorderAssumption, EmptySeq DEF Init
<1>4. pending \in [Kinds -> SUBSET Records] /\ stored \in [Records -> Nat]
  BY DEF Init
<1> QED
  BY <1>1, <1>2, <1>3, <1>4 DEF Init, TypeOK

LEMMA CallsFields ==
  ASSUME NEW q \in Calls
  PROVE  /\ q.step \in {"idle", "send", "count"}
         /\ q.step # "idle" => q.rec \in Records /\ [q EXCEPT !.step = "count"] \in Calls
         /\ q.step = "idle" <=> q = Idle
BY DEF Calls, Idle

LEMMA WithRowsType ==
  ASSUME NEW batch \in SUBSET Records, stored \in [Records -> Nat]
  PROVE  WithRows(batch) \in [Records -> Nat]
BY DEF WithRows

LEMMA GotoType ==
  ASSUME worker \in Workers, NEW step \in Steps, Goto(step)
  PROVE  worker' \in Workers /\ worker'.step = step /\ worker'.last = worker.last
BY StepType DEF Workers, Goto

\* The record in the worker's hand is the same while the process and the worker are.
LEMMA SameTaken == UNCHANGED <<main, worker>> => Taken' = Taken
BY DEF Taken

LEMMA EmptyHand == worker.step # "enqueue" => Taken = {}
BY DEF Taken

LEMMA NumberType ==
  ASSUME TypeOK, NEW c \in Callers, NEW k \in Kinds, Number(c, k)
  PROVE  TypeOK'
<1> USE DEF TypeOK
<1>1. seq \in 1..MaxSeq
  BY DEF Number
<1>2. [seq |-> seq, kind |-> k] \in Records /\ seq' \in 1..MaxSeq + 1
  BY <1>1, RecorderAssumption DEF Number, Records
<1>3. derived' \in {"none", "Depth", "Trade"} /\ recorded' \in SUBSET Records
  BY <1>2 DEF Number
<1>4. call' \in [Callers -> Calls]
  BY <1>2 DEF Number, Calls
<1> QED
  BY <1>2, <1>3, <1>4 DEF Number, workerVars

LEMMA CallType ==
  ASSUME TypeOK, NEW c \in Callers, Call(c)
  PROVE  TypeOK'
<1> USE DEF TypeOK
<1>1. call[c] \in Calls
  OBVIOUS
<1>2. CASE SendOk(c)
  <2>1. call[c].rec \in Records /\ [call[c] EXCEPT !.step = "count"] \in Calls
    BY <1>1, <1>2, CallsFields DEF SendOk, Sending
  <2>2. call' \in [Callers -> Calls]
    BY <1>2, <2>1 DEF SendOk
  <2>3. queue' \in Seq(Records) /\ Len(queue') <= Capacity
    BY <1>2, <2>1, RecorderAssumption, AppendProperties, LenProperties DEF SendOk
  <2> QED
    BY <1>2, <2>2, <2>3 DEF SendOk, workerVars
<1>3. ASSUME Sending(c), Refused(c), degraded' \in BOOLEAN PROVE TypeOK'
  <2>1. call[c].rec \in Records
    BY <1>1, <1>3, CallsFields DEF Sending
  <2>2. call' \in [Callers -> Calls]
    BY <1>3 DEF Refused, Calls
  <2> QED
    BY <1>3, <2>1, <2>2 DEF Refused, workerVars
<1>4. CASE Count(c)
  <2>1. call' \in [Callers -> Calls]
    BY <1>4 DEF Count, Calls
  <2>2. queueLen' \in 0..Word - 1
    BY <1>4, RecorderAssumption DEF Count
  <2> QED
    BY <1>4, <2>1, <2>2 DEF Count, workerVars
<1>5. CASE \E k \in Kinds : Number(c, k)
  BY <1>5, NumberType
<1> QED
  BY <1>2, <1>3, <1>4, <1>5 DEF Call, SendFull, SendClosed

LEMMA TakeType ==
  ASSUME TypeOK, Take
  PROVE  TypeOK'
<1> USE DEF TypeOK
<1>1. Head(queue) \in Records /\ Tail(queue) \in Seq(Records) /\ Len(Tail(queue)) <= Len(queue)
  BY QueuedTail DEF Take
<1>2. worker' \in Workers
  BY <1>1, NoRecordIsNone DEF Take, Workers
<1>3. Len(queue') <= Capacity
  BY <1>1, LenProperties, RecorderAssumption DEF Take
<1> QED
  BY <1>1, <1>2, <1>3 DEF Take, callVars

\* Where the worker goes from enqueue.
LEMMA EnqueueGoes ==
  ASSUME worker \in Workers, WorkerEnqueue
  PROVE  /\ worker' \in Workers /\ worker'.last = worker.last
         /\ worker'.step \in IF worker.last THEN {"drain"} ELSE {"select", "Raw"}
         /\ worker.rec \in Records
<1> DEFINE next == AfterEnqueue(pending')
<1>1. next \in Steps /\ next \in IF worker.last THEN {"drain"} ELSE {"select", "Raw"}
  BY StepType DEF AfterEnqueue, Kinds
<1>2. worker' = [worker EXCEPT !.step = next, !.rec = NoRecord] /\ worker.step = "enqueue"
  BY DEF WorkerEnqueue, WorkerAt
<1> HIDE DEF next
<1> QED
  BY <1>1, <1>2, StepType DEF Workers

LEMMA EnqueueType ==
  ASSUME TypeOK, WorkerEnqueue
  PROVE  TypeOK'
<1> USE DEF TypeOK
<1>1. worker.rec \in Records /\ worker' \in Workers
  BY EnqueueGoes
<1>2. queueLen' \in 0..Word - 1
  BY RecorderAssumption DEF WorkerEnqueue
<1>3. pending' \in [Kinds -> SUBSET Records]
  BY <1>1 DEF WorkerEnqueue, Enqueued
<1> QED
  BY <1>1, <1>2, <1>3 DEF WorkerEnqueue

LEMMA WorkerType ==
  ASSUME TypeOK, Worker
  PROVE  TypeOK'
<1> USE DEF TypeOK
<1>1. CASE WorkerReceive \/ WorkerDrain
  BY <1>1, TakeType DEF WorkerReceive, WorkerDrain
<1>2. CASE WorkerTick \/ WorkerDrained
  <2>1. worker' \in Workers
    BY <1>2, StepType, GotoType DEF WorkerTick, WorkerDrained, Kinds
  <2> QED
    BY <1>2, <2>1 DEF WorkerTick, WorkerDrained, callVars
<1>3. CASE WorkerShutdown
  <2>1. worker' \in Workers
    BY <1>3, StepType DEF WorkerShutdown, Workers
  <2> QED
    BY <1>3, <2>1 DEF WorkerShutdown, callVars
<1>4. CASE WorkerEnqueue
  BY <1>4, EnqueueType
<1>5. ASSUME NEW k \in Kinds, FlushNothing(k) PROVE TypeOK'
  <2>1. worker' \in Workers
    BY <1>5, StepType, GotoType DEF FlushNothing
  <2> QED
    BY <1>5, <2>1 DEF FlushNothing, callVars
<1>6. ASSUME NEW k \in Kinds, InsertOk(k) PROVE TypeOK'
  <2>1. worker' \in Workers
    BY <1>6, StepType, GotoType DEF InsertOk
  <2>2. stored' \in [Records -> Nat]
    BY <1>6, WithRowsType DEF InsertOk
  <2>3. pending' \in [Kinds -> SUBSET Records]
    BY <1>6 DEF InsertOk
  <2> QED
    BY <1>6, <2>1, <2>2, <2>3 DEF InsertOk, callVars
<1>7. ASSUME NEW k \in Kinds, InsertFails(k) PROVE TypeOK'
  <2>1. worker' \in Workers /\ degraded' \in BOOLEAN
    <3>1. CASE /\ worker.attempt + 1 < RetryAttempts
               /\ worker' = [worker EXCEPT !.attempt = @ + 1] /\ UNCHANGED degraded
      <4>1. worker.attempt + 1 \in 0..RetryAttempts - 1
        BY <3>1, RecorderAssumption DEF Workers
      <4>2. worker' \in Workers
        BY <3>1, <4>1 DEF Workers
      <4> QED
        BY <3>1, <4>2
    <3>2. CASE Goto(NextFlush[k]) /\ degraded' = TRUE
      BY <3>2, StepType, GotoType
    <3> QED
      BY <1>7, <3>1, <3>2 DEF InsertFails
  <2>2. stored' \in [Records -> Nat]
    BY <1>7, WithRowsType DEF InsertFails
  <2> QED
    BY <1>7, <2>1, <2>2 DEF InsertFails, callVars
<1>8. CASE SyncNothing \/ SyncHealth
  <2>1. FlushEnds
    BY <1>8 DEF SyncNothing, SyncHealth
  <2>2. worker' \in Workers
    BY <2>1, StepType, GotoType DEF FlushEnds
  <2>3. queue' \in Seq(Records) /\ Len(queue') <= Capacity
    BY <2>1, EmptySeq, RecorderAssumption DEF FlushEnds
  <2>4. synced' \in BOOLEAN /\ status' \in {"RECORDING", "DEGRADED", "STOPPING", "COMPLETED"}
    BY <1>8 DEF SyncNothing, SyncHealth, SessionHealth
  <2> QED
    BY <2>1, <2>2, <2>3, <2>4 DEF FlushEnds, callVars
<1> QED
  BY <1>1, <1>2, <1>3, <1>4, <1>5, <1>6, <1>7, <1>8 DEF Worker, Flush

LEMMA ProcessEndsType ==
  ASSUME TypeOK, ProcessEnds, status' \in {"RECORDING", "DEGRADED", "STOPPING", "COMPLETED"}
  PROVE  TypeOK'
<1> USE DEF TypeOK
<1>1. call' \in [Callers -> Calls] /\ pending' \in [Kinds -> SUBSET Records]
  BY DEF ProcessEnds, Calls
<1>2. queue' \in Seq(Records) /\ Len(queue') <= Capacity
  BY EmptySeq, RecorderAssumption DEF ProcessEnds
<1> QED
  BY <1>1, <1>2 DEF ProcessEnds

LEMMA TypeStep == TypeOK /\ [Next]_vars => TypeOK'
<1> SUFFICES ASSUME TypeOK, [Next]_vars PROVE TypeOK'
  OBVIOUS
<1>1. CASE \E c \in Callers : Call(c)
  BY <1>1, CallType
<1>2. CASE Worker
  BY <1>2, WorkerType
<1>3. CASE Main
  <2>1. CASE MainStop \/ MainStopping
    BY <2>1 DEF MainStop, MainStopping, recorderVars, TypeOK
  <2>2. CASE MainStoppingFails \/ MainFinish
    <3>1. ProcessEnds /\ status' \in {"RECORDING", "DEGRADED", "STOPPING", "COMPLETED"}
      BY <2>2 DEF MainStoppingFails, MainFinish, FinalStatus, TypeOK
    <3> QED
      BY <3>1, ProcessEndsType
  <2> QED
    BY <1>3, <2>1, <2>2 DEF Main
<1>4. CASE Kill
  BY <1>4, ProcessEndsType DEF Kill, TypeOK
<1>5. CASE UNCHANGED vars
  BY <1>5 DEF vars, TypeOK
<1> QED
  BY <1>1, <1>2, <1>3, <1>4, <1>5 DEF Next, Terminated

\* Every reachable state of the recorder has the types TypeOK gives, for every capacity,
\* batch size, number of attempts and number of callers.
THEOREM TypeCorrect == Spec => []TypeOK
BY TypeInit, TypeStep, PTL DEF Spec

-----------------------------------------------------------------------------
(* The recorder's safety theorems: IInv is inductive. *)

LEMMA InitInv == Init => IInv
<1> SUFFICES ASSUME Init PROVE IInv
  OBVIOUS
<1>1. Queued = {} /\ Taken = {} /\ Pending = {} /\ Stored = {} /\ recorded = {} /\ dropped = {}
  <2>1. DOMAIN queue = {}
    BY EmptySeq, LenProperties DEF Init
  <2>2. \A k \in Kinds : pending[k] = {}
    BY DEF Init
  <2>3. \A r \in Records : stored[r] = 0
    BY DEF Init
  <2> QED
    BY <2>1, <2>2, <2>3 DEF Init, Queued, Taken, Pending, Stored
<1>2. \A c \in Callers : call[c] = Idle
  BY DEF Init
<1>3. KindInv /\ HandInv /\ ShutdownInv
  BY <1>1, <1>2 DEF Init, KindInv, HandInv, ShutdownInv, Idle, Counted
<1>4. FlushInv /\ DropInv /\ ClosedInv /\ Accounted /\ CompletedIsComplete
  BY <1>1 DEF Init, FlushInv, DropInv, ClosedInv, Accounted, CompletedIsComplete, Counted
<1> QED
  BY <1>3, <1>4, TypeInit DEF IInv

\* While the process runs, a step that does not complete the session keeps the two
\* invariants about a complete session.
LEMMA StillOpen ==
  ASSUME IInv, main # "exited", status' \in {status, "DEGRADED", "RECORDING", "STOPPING"}
  PROVE  /\ status # "COMPLETED" /\ status' # "COMPLETED"
         /\ ClosedInv' /\ CompletedIsComplete'
BY DEF IInv, ClosedInv, CompletedIsComplete

LEMMA RecOf ==
  ASSUME IInv, NEW c \in Callers, call[c].step # "idle"
  PROVE  call[c].rec \in Records /\ call[c].rec \in recorded
BY CallsFields DEF IInv, TypeOK, HandInv

\* The main loop is silent behind a shutdown request.
LEMMA Silent ==
  ASSUME IInv, main # "exited", worker.last, NEW c \in Callers, call[c].step # "idle"
  PROVE  call[c].rec.kind = "Snapshot"
BY DEF IInv, ShutdownInv, HandInv

-----------------------------------------------------------------------------
(* Callers *)

LEMMA NumberInv ==
  ASSUME IInv, NEW c \in Callers, NEW k \in Kinds, Number(c, k)
  PROVE  IInv'
<1> DEFINE new == [seq |-> seq, kind |-> k]
<1>1. /\ TypeOK' /\ call[c].step = "idle" /\ main # "exited"
      /\ seq' = seq + 1 /\ seq \in Nat /\ new.seq = seq /\ new.kind = k
      /\ Queued' = Queued /\ Taken' = Taken /\ Pending' = Pending /\ Stored' = Stored
      /\ dropped' = dropped
      /\ UNCHANGED <<main, worker, pending, degraded, status>>
  <2>1. TypeOK' /\ call[c] = Idle /\ call[c].step = "idle"
    BY NumberType DEF IInv, Number, Idle
  <2>2. seq \in Nat /\ seq' = seq + 1 /\ main # "exited"
    BY DEF IInv, TypeOK, Number
  <2>3. UNCHANGED <<queue, pending, stored, dropped, main, worker, degraded, status>>
    BY DEF Number, workerVars
  <2> QED
    BY <2>1, <2>2, <2>3, SameTaken DEF Queued, Pending, Stored
<1>2. new \notin recorded
  BY <1>1 DEF IInv, HandInv
<1>3. \/ /\ recorded' = recorded \cup {new}
         /\ call'[c].step = "send" /\ call'[c].rec = new
         /\ \A d \in Callers \ {c} : call'[d] = call[d]
      \/ UNCHANGED <<recorded, call>>
  BY DEF Number, IInv, TypeOK
<1>4. c # MainLoop => k = "Snapshot"
  BY DEF Number, MayRecord
<1>5. main \in {"stopping", "joining"} => c # MainLoop
  BY DEF Number, MayRecord
<1>6. \A r \in recorded : r.seq \in Nat
  BY DEF IInv, TypeOK, Records
<1> HIDE DEF new
<1>7. HandInv'
  <2>1. CASE UNCHANGED <<recorded, call>>
    BY <2>1, <1>1, <1>6 DEF IInv, HandInv
  <2>2. CASE /\ recorded' = recorded \cup {new}
             /\ call'[c].step = "send" /\ call'[c].rec = new
             /\ \A d \in Callers \ {c} : call'[d] = call[d]
    <3>1. /\ call'[c].step = "send" /\ call'[c].rec = new
          /\ \A d \in Callers \ {c} : call'[d] = call[d]
      BY <2>2
    <3>2. \A r \in recorded' : r.seq < seq'
      BY <1>1, <1>6, <2>2 DEF IInv, HandInv
    <3>3. (Queued \cup Taken \cup Pending \cup Stored \cup dropped)' \subseteq recorded'
      BY <1>1, <2>2 DEF IInv, HandInv
    <3>4. \A d \in Callers : call'[d].step # "idle" =>
            call'[d].rec \in recorded' /\ (d # MainLoop => call'[d].rec.kind = "Snapshot")
      BY <3>1, <2>2, <1>1, <1>4 DEF IInv, HandInv
    <3>5. \A d \in Callers : call'[d].step = "send" =>
            call'[d].rec \notin (Queued \cup Taken \cup Pending \cup Stored \cup dropped)'
      BY <3>1, <1>1, <1>2 DEF IInv, HandInv
    <3>6. \A d, e \in Callers : d # e /\ call'[d].step = "send" /\ call'[e].step = "send" =>
            call'[d].rec # call'[e].rec
      BY <3>1, <1>2 DEF IInv, HandInv
    <3> QED
      BY <3>2, <3>3, <3>4, <3>5, <3>6 DEF HandInv
  <2> QED
    BY <1>3, <2>1, <2>2
<1>8. Accounted'
  <2>1. \/ InHand' = InHand /\ recorded' = recorded
        \/ new \in InHand' /\ InHand \subseteq InHand' /\ recorded' = recorded \cup {new}
    <3>1. CASE UNCHANGED <<recorded, call>>
      <4>1. call' = call /\ recorded' = recorded
        BY <3>1
      <4>2. InHand' = InHand
        BY <4>1 DEF InHand
      <4> QED
        BY <4>1, <4>2
    <3>2. CASE ~UNCHANGED <<recorded, call>>
      <4>1. /\ call'[c].step = "send" /\ call'[c].rec = new /\ recorded' = recorded \cup {new}
            /\ \A d \in Callers \ {c} : call'[d] = call[d]
        BY <3>2, <1>3
      <4>2. new \in InHand'
        BY <4>1 DEF InHand
      <4>3. InHand \subseteq InHand'
        BY <4>1, <1>1 DEF InHand
      <4> QED
        BY <4>1, <4>2, <4>3
    <3> QED
      BY <3>1, <3>2
  <2> QED
    BY <2>1, <1>1 DEF IInv, Accounted, Counted
<1>9. ShutdownInv'
  <2>1. main' \in {"stopping", "joining"} => call'[MainLoop].step = "idle"
    BY <1>1, <1>3, <1>5 DEF IInv, ShutdownInv, Callers
  <2> QED
    BY <1>1, <2>1 DEF IInv, ShutdownInv, Counted
<1>10. KindInv' /\ FlushInv' /\ DropInv'
  BY <1>1 DEF IInv, KindInv, FlushInv, DropInv
<1> QED
  BY <1>1, <1>7, <1>8, <1>9, <1>10, StillOpen DEF IInv

LEMMA SendOkInv ==
  ASSUME IInv, NEW c \in Callers, SendOk(c)
  PROVE  IInv'
<1> DEFINE r == call[c].rec
<1>1. /\ call[c].step = "send" /\ main # "exited" /\ r \in Records /\ r \in recorded
      /\ Taken' = Taken /\ Pending' = Pending /\ Stored' = Stored /\ dropped' = dropped
      /\ UNCHANGED <<main, worker, pending, degraded, status, recorded, seq>>
  BY RecOf, SameTaken DEF SendOk, Sending, Pending, Stored, workerVars
<1>2. Queued' = Queued \cup {r}
  <2>1. queue \in Seq(Records) /\ queue' = Append(queue, r)
    BY DEF SendOk, IInv, TypeOK
  <2> HIDE DEF r
  <2> QED
    BY <1>1, <2>1, QueuedAppend DEF Queued
<1>3. /\ call'[c].step = "count" /\ call'[c].rec = r
      /\ \A d \in Callers \ {c} : call'[d] = call[d]
  BY <1>1 DEF SendOk, IInv, TypeOK, Calls, Idle
<1>4. worker.last => r.kind = "Snapshot"
  BY <1>1, Silent
<1>5. main \in {"stopping", "joining"} => c # MainLoop
  BY <1>1 DEF IInv, ShutdownInv
<1> HIDE DEF r
<1>6. HandInv'
  <2>1. \A d \in Callers \ {c} : call[d].step = "send" => call[d].rec # r
    BY <1>1 DEF IInv, HandInv, r
  <2>2. (Queued \cup Taken \cup Pending \cup Stored \cup dropped)' \subseteq recorded'
    BY <1>1, <1>2 DEF IInv, HandInv
  <2>3. \A d \in Callers : call'[d].step # "idle" =>
          call'[d].rec \in recorded' /\ (d # MainLoop => call'[d].rec.kind = "Snapshot")
    BY <1>1, <1>3 DEF IInv, HandInv, r
  <2>4. \A d \in Callers : call'[d].step = "send" =>
          call'[d].rec \notin (Queued \cup Taken \cup Pending \cup Stored \cup dropped)'
    BY <2>1, <1>1, <1>2, <1>3 DEF IInv, HandInv
  <2>5. \A d, e \in Callers : d # e /\ call'[d].step = "send" /\ call'[e].step = "send" =>
          call'[d].rec # call'[e].rec
    BY <1>3 DEF IInv, HandInv
  <2> QED
    BY <2>2, <2>3, <2>4, <2>5, <1>1 DEF IInv, HandInv
<1>7. Accounted'
  <2>1. InHand \subseteq InHand' \cup {r}
    BY <1>1, <1>3 DEF InHand, r
  <2> QED
    BY <2>1, <1>1, <1>2 DEF IInv, Accounted
<1>8. ShutdownInv'
  <2>1. main' \in {"stopping", "joining"} => call'[MainLoop].step = "idle"
    BY <1>1, <1>3, <1>5 DEF IInv, ShutdownInv, Callers
  <2>2. worker'.last /\ worker'.step \notin {"drain", "enqueue"} => Counted(Queued') = {}
    BY <1>1, <1>2, <1>4 DEF IInv, ShutdownInv, Counted
  <2> QED
    BY <1>1, <2>1, <2>2 DEF IInv, ShutdownInv, Counted
<1>9. KindInv' /\ FlushInv' /\ DropInv'
  BY <1>1 DEF IInv, KindInv, FlushInv, DropInv
<1>10. TypeOK'
  BY CallType DEF Call, IInv
<1> QED
  BY <1>1, <1>6, <1>7, <1>8, <1>9, <1>10, StillOpen DEF IInv


LEMMA RefusedInv ==
  ASSUME IInv, NEW c \in Callers, SendFull(c) \/ SendClosed(c)
  PROVE  IInv'
<1> DEFINE r == call[c].rec
<1>1. /\ call[c].step = "send" /\ main # "exited" /\ r \in Records /\ r \in recorded
      /\ UNCHANGED <<queue, stored, main, worker, pending, status, recorded, seq>>
  BY RecOf DEF SendFull, SendClosed, Refused, Sending, workerVars
<1>2. Queued' = Queued /\ Taken' = Taken /\ Pending' = Pending /\ Stored' = Stored
  BY <1>1, SameTaken DEF Queued, Pending, Stored
<1>3. /\ call'[c].step = "idle"
      /\ \A d \in Callers \ {c} : call'[d] = call[d]
  BY <1>1 DEF SendFull, SendClosed, Refused, Idle, IInv, TypeOK
<1>4. dropped' = IF r.kind = "Snapshot" THEN dropped ELSE dropped \cup {r}
  BY DEF SendFull, SendClosed, Refused
<1>5. degraded \in BOOLEAN /\ degraded' \in {degraded, TRUE}
  BY DEF SendFull, SendClosed, IInv, TypeOK
<1>6. r.kind # "Snapshot" => degraded' = TRUE
  <2>1. CASE SendFull(c)
    BY <2>1 DEF SendFull
  <2>2. CASE SendClosed(c)
    BY <2>2, <1>1, Silent DEF SendClosed, Closed, IInv, ShutdownInv
  <2> QED
    BY <2>1, <2>2
<1> HIDE DEF r
<1>7. HandInv'
  <2>1. \A d \in Callers \ {c} : call[d].step = "send" => call[d].rec # r
    BY <1>1 DEF IInv, HandInv, r
  <2>2. (Queued \cup Taken \cup Pending \cup Stored \cup dropped)' \subseteq recorded'
    BY <1>1, <1>2, <1>4 DEF IInv, HandInv
  <2>3. \A d \in Callers : call'[d].step # "idle" =>
          call'[d].rec \in recorded' /\ (d # MainLoop => call'[d].rec.kind = "Snapshot")
    BY <1>1, <1>3 DEF IInv, HandInv
  <2>4. \A d \in Callers : call'[d].step = "send" =>
          call'[d].rec \notin (Queued \cup Taken \cup Pending \cup Stored \cup dropped)'
    BY <2>1, <1>1, <1>2, <1>3, <1>4 DEF IInv, HandInv
  <2>5. \A d, e \in Callers : d # e /\ call'[d].step = "send" /\ call'[e].step = "send" =>
          call'[d].rec # call'[e].rec
    BY <1>3 DEF IInv, HandInv
  <2> QED
    BY <2>2, <2>3, <2>4, <2>5, <1>1 DEF IInv, HandInv
<1>8. Accounted'
  <2>1. InHand \subseteq InHand' \cup {r}
    BY <1>1, <1>3 DEF InHand, r
  <2> QED
    BY <2>1, <1>1, <1>2, <1>4 DEF IInv, Accounted, Counted
<1>9. ShutdownInv'
  <2>1. main' \in {"stopping", "joining"} => call'[MainLoop].step = "idle"
    BY <1>1, <1>3 DEF IInv, ShutdownInv, Callers
  <2> QED
    BY <1>1, <1>2, <2>1 DEF IInv, ShutdownInv, Counted
<1>10. KindInv' /\ FlushInv'
  BY <1>1, <1>5 DEF IInv, KindInv, FlushInv
<1>11. DropInv'
  BY <1>1, <1>4, <1>5, <1>6 DEF IInv, DropInv, Counted
<1>12. TypeOK'
  BY CallType DEF Call, IInv
<1> QED
  BY <1>1, <1>7, <1>8, <1>9, <1>10, <1>11, <1>12, StillOpen DEF IInv

LEMMA CountInv ==
  ASSUME IInv, NEW c \in Callers, Count(c)
  PROVE  IInv'
<1>1. /\ call[c].step = "count" /\ main # "exited"
      /\ UNCHANGED <<queue, stored, dropped, degraded, main, worker, pending, status, recorded, seq>>
  BY DEF Count, workerVars
<1>2. Queued' = Queued /\ Taken' = Taken /\ Pending' = Pending /\ Stored' = Stored
  BY <1>1, SameTaken DEF Queued, Pending, Stored
<1>3. /\ call'[c].step = "idle"
      /\ \A d \in Callers \ {c} : call'[d] = call[d]
  BY <1>1 DEF Count, Idle, IInv, TypeOK
<1>4. HandInv'
  BY <1>1, <1>2, <1>3 DEF IInv, HandInv
<1>5. InHand \subseteq InHand'
  BY <1>1, <1>3 DEF InHand
<1>6. Accounted'
  BY <1>1, <1>2, <1>5 DEF IInv, Accounted
<1>7. ShutdownInv'
  <2>1. main' \in {"stopping", "joining"} => call'[MainLoop].step = "idle"
    BY <1>1, <1>3 DEF IInv, ShutdownInv, Callers
  <2> QED
    BY <1>1, <1>2, <2>1 DEF IInv, ShutdownInv, Counted
<1>8. KindInv' /\ FlushInv' /\ DropInv'
  BY <1>1 DEF IInv, KindInv, FlushInv, DropInv
<1>9. TypeOK'
  BY CallType DEF Call, IInv
<1> QED
  BY <1>1, <1>4, <1>6, <1>7, <1>8, <1>9, StillOpen DEF IInv

-----------------------------------------------------------------------------
(* The storage worker *)

LEMMA TakeFacts ==
  ASSUME TypeOK, WorkerReceive \/ WorkerDrain
  PROVE  /\ Taken = {} /\ Taken' = {Head(queue)} /\ Queued = Queued' \cup Taken'
         /\ worker'.step = "enqueue" /\ worker'.last = worker.last
         /\ main # "exited" /\ worker.step \in {"select", "drain"}
         /\ UNCHANGED <<seq, recorded, call, pending, stored, dropped, degraded, status, main>>
<1>1. /\ Take /\ main # "exited" /\ worker.step \in {"select", "drain"}
      /\ UNCHANGED <<seq, recorded, call, pending, stored, dropped, degraded, status, main>>
  BY DEF WorkerReceive, WorkerDrain, Take, WorkerAt, callVars
<1>2. worker'.step = "enqueue" /\ worker'.rec = Head(queue) /\ worker'.last = worker.last
  BY <1>1 DEF Take, TypeOK, Workers
<1>3. Taken = {} /\ Taken' = {Head(queue)}
  BY <1>1, <1>2 DEF Taken
<1>4. Queued = {Head(queue)} \cup Queued'
  BY <1>1, QueuedTail DEF Take, TypeOK, Queued
<1> QED
  BY <1>1, <1>2, <1>3, <1>4

LEMMA TakeInv ==
  ASSUME IInv, WorkerReceive \/ WorkerDrain
  PROVE  IInv'
<1>1. /\ Taken = {} /\ Queued = Queued' \cup Taken' /\ TypeOK'
      /\ worker'.step = "enqueue" /\ worker'.last = worker.last
      /\ main # "exited" /\ worker.step \in {"select", "drain"}
      /\ UNCHANGED <<seq, recorded, call, pending, stored, dropped, degraded, status, main>>
  BY TakeFacts, WorkerType DEF Worker, IInv
<1>2. Pending' = Pending /\ Stored' = Stored /\ InHand' = InHand
  BY <1>1 DEF Pending, Stored, InHand
<1>3. HandInv'
  <2>1. (Queued \cup Taken \cup Pending \cup Stored \cup dropped)'
          = Queued \cup Taken \cup Pending \cup Stored \cup dropped
    BY <1>1, <1>2
  <2> QED
    BY <2>1, <1>1 DEF IInv, HandInv
<1>4. Accounted'
  BY <1>1, <1>2 DEF IInv, Accounted
<1>5. ShutdownInv'
  BY <1>1 DEF IInv, ShutdownInv
<1>6. KindInv' /\ FlushInv' /\ DropInv'
  BY <1>1 DEF IInv, KindInv, FlushInv, DropInv
<1> QED
  BY <1>1, <1>3, <1>4, <1>5, <1>6, StillOpen DEF IInv

LEMMA EnqueueFacts ==
  ASSUME TypeOK, KindInv, WorkerEnqueue
  PROVE  \E r \in Records :
           /\ Taken = {r} /\ Taken' = {} /\ Queued' = Queued
           /\ Pending' \subseteq Pending \cup {r} /\ r \in Pending'
           /\ Counted(Pending) \subseteq Pending'
           /\ KindInv'
<1> DEFINE r == worker.rec
<1>1. r \in Records /\ worker'.step # "enqueue"
  BY EnqueueGoes DEF TypeOK
<1>2. pending \in [Kinds -> SUBSET Records] /\ r.kind \in Kinds
  BY <1>1 DEF TypeOK, Records
<1>3. /\ pending' = [pending EXCEPT ![r.kind] = IF r.kind = "Snapshot" THEN {r} ELSE @ \cup {r}]
      /\ worker.step = "enqueue" /\ main # "exited" /\ queue' = queue
  BY DEF WorkerEnqueue, Enqueued, WorkerAt
<1>4. Taken = {r} /\ Taken' = {} /\ Queued' = Queued
  BY <1>1, <1>3 DEF Taken, Queued
<1> HIDE DEF r
<1>5. /\ pending'[r.kind] = IF r.kind = "Snapshot" THEN {r} ELSE pending[r.kind] \cup {r}
      /\ \A k \in Kinds \ {r.kind} : pending'[k] = pending[k]
  BY <1>2, <1>3
<1>6. Pending' \subseteq Pending \cup {r} /\ r \in Pending'
  BY <1>2, <1>5 DEF Pending
<1>7. Counted(Pending) \subseteq Pending'
  <2> SUFFICES ASSUME NEW k \in Kinds, NEW x \in pending[k], x.kind # "Snapshot"
               PROVE  x \in pending'[k]
    BY DEF Pending, Counted
  <2>1. k # "Snapshot"
    BY DEF KindInv
  <2> QED
    BY <1>5, <2>1
<1>8. KindInv'
  BY <1>2, <1>5 DEF KindInv
<1> QED
  BY <1>1, <1>4, <1>6, <1>7, <1>8

LEMMA EnqueueInv ==
  ASSUME IInv, WorkerEnqueue
  PROVE  IInv'
<1>1. /\ TypeOK /\ KindInv /\ main # "exited" /\ TypeOK' /\ worker.step = "enqueue"
      /\ UNCHANGED <<seq, recorded, call, stored, dropped, degraded, status, main>>
      /\ worker'.last = worker.last
      /\ worker'.step \in IF worker.last THEN {"drain"} ELSE {"select", "Raw"}
  BY WorkerType, EnqueueGoes DEF Worker, WorkerEnqueue, WorkerAt, IInv, TypeOK
<1>2. PICK r \in Records :
        /\ Taken = {r} /\ Taken' = {} /\ Queued' = Queued
        /\ Pending' \subseteq Pending \cup {r} /\ r \in Pending'
        /\ Counted(Pending) \subseteq Pending'
        /\ KindInv'
  BY <1>1, EnqueueFacts
<1>3. Stored' = Stored /\ InHand' = InHand
  BY <1>1 DEF Stored, InHand
<1>4. HandInv'
  <2>1. (Queued \cup Taken \cup Pending \cup Stored \cup dropped)'
          \subseteq Queued \cup Taken \cup Pending \cup Stored \cup dropped
    BY <1>1, <1>2, <1>3
  <2> QED
    BY <2>1, <1>1 DEF IInv, HandInv
<1>5. Accounted'
  BY <1>1, <1>2, <1>3 DEF IInv, Accounted, Counted
<1>6. ShutdownInv'
  BY <1>1, <1>2 DEF IInv, ShutdownInv, Counted
<1>7. FlushInv' /\ DropInv'
  BY <1>1 DEF IInv, FlushInv, DropInv
<1> QED
  BY <1>1, <1>2, <1>4, <1>5, <1>6, <1>7, StillOpen DEF IInv

\* A step that only moves the worker.
LEMMA MoveInv ==
  ASSUME IInv, main # "exited", TypeOK',
         UNCHANGED <<seq, recorded, call, queue, pending, stored, dropped, degraded, status, main>>,
         worker.step # "enqueue", worker'.step # "enqueue", ShutdownInv', FlushInv'
  PROVE  IInv'
<1>1. Queued' = Queued /\ Taken' = Taken /\ Pending' = Pending /\ Stored' = Stored /\ InHand' = InHand
  BY DEF Queued, Taken, Pending, Stored, InHand
<1>2. KindInv' /\ HandInv' /\ DropInv' /\ Accounted'
  BY <1>1 DEF IInv, KindInv, HandInv, DropInv, Accounted
<1> QED
  BY <1>2, StillOpen DEF IInv

LEMMA EmptyQueue == queue = <<>> => Queued = {}
BY EmptySeq, LenProperties DEF Queued

LEMMA NextFlushIs ==
  NextFlush["Raw"] = "Trade" /\ NextFlush["Trade"] = "Depth"
  /\ NextFlush["Depth"] = "Snapshot" /\ NextFlush["Snapshot"] = "health"
BY DEF NextFlush, Kinds

LEMMA WorkerMoves ==
  ASSUME IInv, WorkerTick \/ WorkerShutdown \/ WorkerDrained \/ \E k \in Kinds : FlushNothing(k)
  PROVE  IInv'
<1>1. TypeOK'
  BY WorkerType DEF Worker, Flush, IInv
<1>2. /\ main # "exited" /\ worker \in Workers
      /\ UNCHANGED <<seq, recorded, call, queue, pending, stored, dropped, degraded, status, main>>
  BY DEF WorkerTick, WorkerShutdown, WorkerDrained, FlushNothing, WorkerAt, callVars, IInv, TypeOK
<1>3. Queued' = Queued
  BY <1>2 DEF Queued
<1>4. worker.step # "enqueue"
  BY DEF WorkerTick, WorkerShutdown, WorkerDrained, FlushNothing, WorkerAt, Kinds
<1>5. CASE WorkerTick \/ WorkerDrained
  <2>1. worker'.step = "Raw" /\ worker'.last = worker.last
    BY <1>2, <1>5, StepType, GotoType DEF WorkerTick, WorkerDrained, Kinds
  <2>2. worker.last => Counted(Queued) = {}
    BY <1>5, EmptyQueue DEF WorkerTick, WorkerDrained, WorkerAt, IInv, ShutdownInv, Counted
  <2>3. ShutdownInv' /\ FlushInv'
    BY <2>1, <2>2, <1>2, <1>3 DEF IInv, ShutdownInv, FlushInv, Counted
  <2> QED
    BY <2>1, <2>3, <1>1, <1>2, <1>4, MoveInv
<1>6. CASE WorkerShutdown
  <2>1. worker'.step = "drain" /\ worker'.last = TRUE /\ main = "joining"
    BY <1>2, <1>6 DEF WorkerShutdown, Workers
  <2>2. ShutdownInv' /\ FlushInv'
    BY <2>1, <1>2 DEF IInv, ShutdownInv, FlushInv
  <2> QED
    BY <2>1, <2>2, <1>1, <1>2, <1>4, MoveInv
<1>7. ASSUME NEW k \in Kinds, FlushNothing(k) PROVE IInv'
  <2>1. worker.step = k /\ pending[k] = {} /\ worker'.step = NextFlush[k] /\ worker'.last = worker.last
    BY <1>2, <1>7, StepType, GotoType DEF FlushNothing, WorkerAt
  <2>2. ShutdownInv'
    BY <2>1, <1>2, <1>3, NextFlushIs DEF IInv, ShutdownInv, Counted, Kinds
  <2>3. FlushInv'
    BY <2>1, <1>2, NextFlushIs DEF IInv, FlushInv, Kinds
  <2> QED
    BY <2>1, <2>2, <2>3, <1>1, <1>2, <1>4, StepType, MoveInv
<1> QED
  BY <1>5, <1>6, <1>7

LEMMA StoredWith ==
  ASSUME TypeOK, NEW batch \in SUBSET Records, stored' = WithRows(batch)
  PROVE  Stored' = Stored \cup batch
<1>1. \A r \in Records : stored[r] \in Nat
  BY DEF TypeOK
<1>2. \A r \in Records : stored'[r] > 0 <=> stored[r] > 0 \/ r \in batch
  BY <1>1 DEF WithRows
<1> QED
  BY <1>2 DEF Stored

LEMMA InsertOkInv ==
  ASSUME IInv, NEW k \in Kinds, InsertOk(k)
  PROVE  IInv'
<1>1. /\ TypeOK /\ TypeOK' /\ main # "exited" /\ worker.step = k /\ pending[k] \in SUBSET Records
      /\ UNCHANGED <<seq, recorded, call, queue, dropped, degraded, status, main>>
      /\ stored' = WithRows(pending[k])
      /\ worker'.step = NextFlush[k] /\ worker'.last = worker.last
  <2>1. TypeOK'
    BY WorkerType DEF Worker, Flush, IInv
  <2>2. worker'.step = NextFlush[k] /\ worker'.last = worker.last
    BY StepType, GotoType DEF InsertOk, IInv, TypeOK
  <2> QED
    BY <2>1, <2>2 DEF InsertOk, WorkerAt, callVars, IInv, TypeOK
<1>2. pending'[k] = {} /\ \A j \in Kinds \ {k} : pending'[j] = pending[j]
  BY DEF InsertOk, IInv, TypeOK
<1>3. Stored' = Stored \cup pending[k]
  BY <1>1, StoredWith
<1>4. Pending' \subseteq Pending /\ Pending \subseteq Pending' \cup pending[k] /\ pending[k] \subseteq Pending
  BY <1>2 DEF Pending
<1>5. Queued' = Queued /\ InHand' = InHand /\ Taken = {} /\ Taken' = {}
  BY <1>1, NextFlushIs DEF Queued, InHand, Taken, Kinds
<1>6. HandInv'
  <2>1. (Queued \cup Taken \cup Pending \cup Stored \cup dropped)' \subseteq Queued \cup Taken \cup Pending \cup Stored \cup dropped
    BY <1>1, <1>3, <1>4, <1>5
  <2> QED
    BY <2>1, <1>1 DEF IInv, HandInv
<1>7. Accounted'
  BY <1>1, <1>3, <1>4, <1>5 DEF IInv, Accounted
<1>8. ShutdownInv'
  BY <1>1, <1>5, NextFlushIs DEF IInv, ShutdownInv, Counted, Kinds
<1>9. FlushInv'
  BY <1>1, <1>2, NextFlushIs DEF IInv, FlushInv, Kinds
<1>10. KindInv' /\ DropInv'
  BY <1>1, <1>2 DEF IInv, KindInv, DropInv
<1> QED
  BY <1>1, <1>6, <1>7, <1>8, <1>9, <1>10, StillOpen DEF IInv

LEMMA InsertFailsInv ==
  ASSUME IInv, NEW k \in Kinds, InsertFails(k)
  PROVE  IInv'
<1>1. /\ TypeOK /\ TypeOK' /\ main # "exited" /\ worker.step = k /\ pending[k] \in SUBSET Records
      /\ UNCHANGED <<seq, recorded, call, queue, pending, dropped, status, main>>
      /\ stored' = stored \/ stored' = WithRows(pending[k])
  <2>1. TypeOK'
    BY WorkerType DEF Worker, Flush, IInv
  <2> QED
    BY <2>1 DEF InsertFails, WorkerAt, callVars, IInv, TypeOK
<1>2. /\ worker'.last = worker.last
      /\ \/ worker'.step = k /\ degraded' = degraded
         \/ worker'.step = NextFlush[k] /\ degraded' = TRUE
  <2>1. CASE worker' = [worker EXCEPT !.attempt = @ + 1] /\ UNCHANGED degraded
    BY <2>1, <1>1 DEF TypeOK, Workers
  <2>2. CASE Goto(NextFlush[k]) /\ degraded' = TRUE
    BY <2>2, <1>1, StepType, GotoType DEF TypeOK
  <2> QED
    BY <2>1, <2>2 DEF InsertFails
<1>3. Stored \subseteq Stored' /\ Stored' \subseteq Stored \cup pending[k]
  <2>1. CASE stored' = stored
    BY <2>1 DEF Stored
  <2>2. CASE stored' = WithRows(pending[k])
    BY <2>2, <1>1, StoredWith
  <2> QED
    BY <2>1, <2>2, <1>1
<1>4. Pending' = Pending /\ pending[k] \subseteq Pending
  BY <1>1 DEF Pending
<1>5. Queued' = Queued /\ InHand' = InHand /\ Taken = {} /\ Taken' = {}
  BY <1>1, <1>2, NextFlushIs DEF Queued, InHand, Taken, Kinds
<1>6. HandInv'
  <2>1. (Queued \cup Taken \cup Pending \cup Stored \cup dropped)' \subseteq Queued \cup Taken \cup Pending \cup Stored \cup dropped
    BY <1>1, <1>3, <1>4, <1>5
  <2> QED
    BY <2>1, <1>1 DEF IInv, HandInv
<1>7. Accounted'
  BY <1>1, <1>3, <1>4, <1>5 DEF IInv, Accounted
<1>8. ShutdownInv'
  BY <1>1, <1>2, <1>5, NextFlushIs DEF IInv, ShutdownInv, Counted, Kinds
<1>9. FlushInv'
  BY <1>1, <1>2 DEF IInv, FlushInv
<1>10. KindInv' /\ DropInv'
  <2>1. degraded => degraded'
    BY <1>2
  <2> QED
    BY <1>1, <2>1 DEF IInv, KindInv, DropInv
<1> QED
  BY <1>1, <1>6, <1>7, <1>8, <1>9, <1>10, StillOpen DEF IInv

LEMMA SyncInv ==
  ASSUME IInv, SyncNothing \/ SyncHealth
  PROVE  IInv'
<1>1. /\ FlushEnds /\ TypeOK' /\ main # "exited" /\ worker.step = "health"
      /\ status' \in {status, "DEGRADED", "RECORDING"}
      /\ UNCHANGED <<seq, recorded, call, pending, stored, dropped, degraded, main>>
  <2>1. TypeOK'
    BY WorkerType DEF Worker, IInv
  <2> QED
    BY <2>1 DEF SyncNothing, SyncHealth, FlushEnds, WorkerAt, SessionHealth, callVars
<1>2. /\ worker'.last = worker.last
      /\ worker'.step = IF worker.last THEN "stopped" ELSE "select"
  BY <1>1, StepType, GotoType DEF FlushEnds, IInv, TypeOK
<1>3. Taken' = Taken /\ Pending' = Pending /\ Stored' = Stored /\ InHand' = InHand
  BY <1>1, <1>2 DEF Taken, Pending, Stored, InHand
<1>4. Queued' = IF worker.last THEN {} ELSE Queued
  <2>1. CASE worker.last
    <3>1. queue' = <<>>
      BY <2>1, <1>1 DEF FlushEnds
    <3> QED
      BY <3>1, <2>1, EmptySeq, LenProperties DEF Queued
  <2>2. CASE ~worker.last
    BY <2>2, <1>1 DEF FlushEnds, Queued
  <2> QED
    BY <2>1, <2>2
<1>5. HandInv' /\ DropInv' /\ KindInv'
  BY <1>1, <1>3, <1>4 DEF IInv, HandInv, DropInv, KindInv
<1>6. worker.last => Counted(Queued) = {}
  BY <1>1 DEF IInv, ShutdownInv
<1>7. Accounted'
  BY <1>1, <1>3, <1>4, <1>6 DEF IInv, Accounted, Counted
<1>8. ShutdownInv' /\ FlushInv'
  BY <1>1, <1>2, <1>4 DEF IInv, ShutdownInv, FlushInv, Counted
<1> QED
  BY <1>1, <1>5, <1>7, <1>8, StillOpen DEF IInv

-----------------------------------------------------------------------------
(* main() *)

LEMMA MainMoves ==
  ASSUME IInv, MainStop \/ MainStopping
  PROVE  IInv'
<1>1. /\ main # "exited" /\ main' \in {"stopping", "joining"} /\ call[MainLoop].step = "idle"
      /\ status' \in {status, "STOPPING"}
      /\ main = "joining" => main' = "joining"
      /\ UNCHANGED recorderVars
  BY DEF MainStop, MainStopping, Idle, IInv, ShutdownInv
<1>2. TypeOK'
  BY TypeStep DEF IInv, Next, Main
<1>3. Queued' = Queued /\ Taken' = Taken /\ Pending' = Pending /\ Stored' = Stored /\ InHand' = InHand
  BY <1>1 DEF Queued, Taken, Pending, Stored, InHand, recorderVars
<1>4. ~worker.last
  BY DEF MainStop, MainStopping, IInv, ShutdownInv
<1>5. KindInv' /\ HandInv' /\ DropInv' /\ FlushInv' /\ Accounted'
  BY <1>1, <1>3 DEF IInv, KindInv, HandInv, DropInv, FlushInv, Accounted, recorderVars
<1>6. ShutdownInv'
  BY <1>1, <1>4 DEF IInv, ShutdownInv, recorderVars
<1> QED
  BY <1>1, <1>2, <1>5, <1>6, StillOpen DEF IInv

\* The argument for a complete session: the worker has stopped, the health is good, so that
\* nothing is pending, nothing was dropped, and no counted record is in the channel or in a
\* caller's hand.
LEMMA FinishComplete ==
  ASSUME IInv, MainFinish, status' = "COMPLETED"
  PROVE  /\ Counted(recorded) \subseteq Stored
         /\ Counted(Queued \cup Taken \cup Pending) = {} /\ dropped = {}
<1>1. /\ main = "joining" /\ worker.step = "stopped" /\ ~degraded
  BY DEF MainFinish, FinalStatus, IInv, ClosedInv
<1>2. worker.last /\ Counted(Queued) = {}
  BY <1>1 DEF IInv, ShutdownInv
<1>0. Taken = {}
  BY <1>1, EmptyHand
<1>3. dropped = {}
  BY <1>1 DEF IInv, DropInv
<1>4. Counted(InHand) = {}
  BY <1>1, <1>2, Silent DEF InHand, Counted
<1>5. Counted(Pending) = {}
  <2>1. pending["Raw"] = {} /\ pending["Trade"] = {} /\ pending["Depth"] = {}
    BY <1>1 DEF IInv, FlushInv
  <2>2. \A r \in pending["Snapshot"] : r.kind = "Snapshot"
    BY DEF IInv, KindInv, Kinds
  <2> QED
    BY <2>1, <2>2 DEF Pending, Counted, Kinds
<1> QED
  BY <1>0, <1>1, <1>2, <1>3, <1>4, <1>5 DEF IInv, Accounted, Counted

LEMMA EndInv ==
  ASSUME IInv, MainStoppingFails \/ MainFinish \/ Kill
  PROVE  IInv'
<1>1. /\ ProcessEnds /\ main # "exited" /\ main' = "exited" /\ status # "COMPLETED"
      /\ \A c \in Callers : call'[c] = Idle
      /\ UNCHANGED <<seq, recorded, stored, dropped, degraded, worker>>
  BY DEF MainStoppingFails, MainFinish, Kill, ProcessEnds, IInv, ClosedInv
<1>2. TypeOK'
  BY TypeStep DEF IInv, Next, Main
<1>3. /\ Queued' = {} /\ Taken' = {} /\ Pending' = {} /\ Stored' = Stored
      /\ \A k \in Kinds : pending'[k] = {}
  <2>1. queue' = <<>> /\ \A k \in Kinds : pending'[k] = {}
    BY <1>1 DEF ProcessEnds
  <2>2. Queued' = {}
    BY <2>1, EmptySeq, LenProperties DEF Queued
  <2> QED
    BY <1>1, <2>1, <2>2 DEF Taken, Pending, Stored
<1>4. KindInv' /\ HandInv' /\ DropInv' /\ FlushInv' /\ ClosedInv' /\ Accounted'
  <2>1. KindInv' /\ DropInv' /\ FlushInv' /\ ClosedInv' /\ Accounted'
    BY <1>1, <1>3 DEF IInv, KindInv, DropInv, FlushInv, ClosedInv, Accounted, Kinds
  <2>2. HandInv'
    BY <1>1, <1>3 DEF IInv, HandInv, Idle
  <2> QED
    BY <2>1, <2>2
<1>5. ShutdownInv'
  BY <1>1, <1>3 DEF IInv, ShutdownInv, Counted
<1>6. CompletedIsComplete'
  <2>1. CASE MainFinish
    BY <2>1, <1>1, <1>3, FinishComplete DEF CompletedIsComplete, Counted
  <2>2. CASE MainStoppingFails \/ Kill
    BY <2>2, <1>1 DEF MainStoppingFails, Kill, CompletedIsComplete
  <2> QED
    BY <2>1, <2>2
<1> QED
  BY <1>2, <1>4, <1>5, <1>6 DEF IInv

-----------------------------------------------------------------------------
(* The theorems. *)

LEMMA StutterInv ==
  ASSUME IInv, UNCHANGED vars
  PROVE  IInv'
<1>1. TypeOK'
  BY TypeStep DEF IInv
<1>2. Queued' = Queued /\ Taken' = Taken /\ Pending' = Pending /\ Stored' = Stored /\ InHand' = InHand
  BY DEF Queued, Taken, Pending, Stored, InHand, vars
<1>3. KindInv' /\ HandInv' /\ ShutdownInv' /\ FlushInv' /\ DropInv'
  BY <1>2 DEF IInv, KindInv, HandInv, ShutdownInv, FlushInv, DropInv, Counted, vars
<1>4. ClosedInv' /\ Accounted' /\ CompletedIsComplete'
  BY <1>2 DEF IInv, ClosedInv, Accounted, CompletedIsComplete, vars
<1> QED
  BY <1>1, <1>3, <1>4 DEF IInv

LEMMA StepInv == IInv /\ [Next]_vars => IInv'
<1> SUFFICES ASSUME IInv, [Next]_vars PROVE IInv'
  OBVIOUS
<1>1. ASSUME NEW c \in Callers, Call(c) PROVE IInv'
  BY <1>1, NumberInv, SendOkInv, RefusedInv, CountInv DEF Call
<1>2. CASE Worker
  BY <1>2, TakeInv, EnqueueInv, WorkerMoves, InsertOkInv, InsertFailsInv, SyncInv DEF Worker, Flush
<1>3. CASE Main
  BY <1>3, MainMoves, EndInv DEF Main
<1>4. CASE Kill
  BY <1>4, EndInv
<1>5. CASE UNCHANGED vars
  BY <1>5, StutterInv
<1> QED
  BY <1>1, <1>2, <1>3, <1>4, <1>5 DEF Next, Terminated

\* The inductive invariant holds for every capacity, batch size, number of attempts and
\* number of callers.
THEOREM RecorderSafe == Spec => []IInv
BY InitInv, StepInv, PTL DEF Spec

\* While the process runs, every raw payload, trade and depth event handed to the recorder
\* is in a caller's hand, in the channel, pending, stored, or counted as dropped.
THEOREM RecordsAccounted == Spec => []Accounted
<1>1. IInv => Accounted
  BY DEF IInv
<1> QED
  BY <1>1, RecorderSafe, PTL

\* A session whose status is COMPLETED holds every raw payload, trade and depth event.
THEOREM CompletedSessions == Spec => []CompletedIsComplete
<1>1. IInv => CompletedIsComplete
  BY DEF IInv
<1> QED
  BY <1>1, RecorderSafe, PTL

-----------------------------------------------------------------------------
(* The recorder implements the abstract log. *)

\* The refinement mapping of Log, part by part.
Owed == Counted(Queued \cup Taken \cup Pending)
Logged == Counted(Stored)
Verdict == IF main # "exited" THEN "open"
           ELSE IF status = "COMPLETED" THEN "complete" ELSE "incomplete"
Image == <<Owed, Logged, dropped, Verdict>>

-----------------------------------------------------------------------------
(* What a step of the recorder does to the image, and the step of the log that is. *)

StaysOpen == main # "exited" /\ main' # "exited"

Answers(r) ==
  /\ StaysOpen /\ r \in Counted(Records) /\ r \notin Owed \cup Logged \cup dropped
  /\ Logged' = Logged
  /\ \/ Owed' = Owed \cup {r} /\ dropped' = dropped
     \/ Owed' = Owed /\ dropped' = dropped \cup {r}

Settles(batch) ==
  /\ StaysOpen /\ batch \subseteq Owed
  /\ Logged' = Logged \cup batch /\ dropped' = dropped
  /\ Owed' \subseteq Owed /\ Owed \subseteq Owed' \cup batch

Ends ==
  /\ Verdict = "open" /\ Owed' = {} /\ Logged' = Logged /\ dropped' = dropped
  /\ \/ Verdict' = "complete" /\ Owed = {} /\ dropped = {}
     \/ Verdict' = "incomplete"

LEMMA AnswersStep ==
  ASSUME NEW r, Answers(r)
  PROVE  Log!Next
<1>1. Log!Accept(r) \/ Log!Refuse(r)
  BY DEF Answers, StaysOpen, Log!Accept, Log!Refuse, Log!Fresh, Owed, Logged
<1> QED
  BY <1>1 DEF Answers, Log!Next

LEMMA SettlesStep ==
  ASSUME NEW batch, Settles(batch)
  PROVE  Log!Next
<1>1. Owed \ Owed' \in SUBSET batch /\ Owed' = Owed \ (Owed \ Owed')
  BY DEF Settles
<1>2. Log!Persist(batch)
  BY <1>1 DEF Settles, StaysOpen, Log!Persist, Owed, Logged
<1> QED
  BY <1>2 DEF Settles, Log!Next, Owed

LEMMA EndsStep ==
  ASSUME Ends
  PROVE  Log!Next
<1>1. Log!Complete \/ Log!Abandon
  BY DEF Ends, Log!Complete, Log!Abandon, Owed, Logged, Verdict
<1> QED
  BY <1>1 DEF Log!Next

LEMMA SameImage ==
  ASSUME UNCHANGED Image
  PROVE  UNCHANGED Log!logVars
BY DEF Image, Log!logVars, Owed, Logged, Verdict

-----------------------------------------------------------------------------
(* Callers *)

LEMMA CallImage ==
  ASSUME IInv, NEW c \in Callers, Call(c)
  PROVE  UNCHANGED Image \/ Answers(call[c].rec)
<1> DEFINE r == call[c].rec
<1>1. CASE (\E k \in Kinds : Number(c, k)) \/ Count(c)
  <2>1. UNCHANGED <<queue, worker, pending, stored, dropped, main, status>>
    BY <1>1 DEF Number, Count, workerVars
  <2> QED
    BY <2>1, SameTaken DEF Image, Owed, Logged, Verdict, Queued, Pending, Stored
<1>2. ASSUME call[c].step = "send"
      PROVE  r \in Records /\ r \notin Queued \cup Taken \cup Pending \cup Stored \cup dropped
  BY <1>2, RecOf DEF IInv, HandInv
<1>3. CASE SendOk(c)
  <2>1. /\ r \in Records /\ r \notin Queued \cup Taken \cup Pending \cup Stored \cup dropped
        /\ queue \in Seq(Records) /\ queue' = Append(queue, r) /\ main # "exited"
        /\ UNCHANGED <<worker, pending, stored, dropped, main, status>>
    BY <1>2, <1>3 DEF SendOk, Sending, workerVars, IInv, TypeOK
  <2> HIDE DEF r
  <2>2. Queued' = Queued \cup {r}
    BY <2>1, QueuedAppend DEF Queued
  <2>3. Taken' = Taken /\ Pending' = Pending /\ Stored' = Stored /\ StaysOpen
    BY <2>1, SameTaken DEF Pending, Stored, StaysOpen
  <2>4. CASE r.kind = "Snapshot"
    BY <2>1, <2>2, <2>3, <2>4 DEF Image, Owed, Logged, Verdict, Counted
  <2>5. CASE r.kind # "Snapshot"
    BY <2>1, <2>2, <2>3, <2>5 DEF Answers, Owed, Logged, Counted, r
  <2> QED
    BY <2>4, <2>5
<1>4. CASE SendFull(c) \/ SendClosed(c)
  <2>1. /\ r \in Records /\ r \notin Queued \cup Taken \cup Pending \cup Stored \cup dropped
        /\ main # "exited" /\ UNCHANGED <<queue, worker, pending, stored, main, status>>
        /\ dropped' = IF r.kind = "Snapshot" THEN dropped ELSE dropped \cup {r}
    BY <1>2, <1>4 DEF SendFull, SendClosed, Refused, Sending, workerVars
  <2> HIDE DEF r
  <2>2. Queued' = Queued /\ Taken' = Taken /\ Pending' = Pending /\ Stored' = Stored /\ StaysOpen
    BY <2>1, SameTaken DEF Queued, Pending, Stored, StaysOpen
  <2>3. CASE r.kind = "Snapshot"
    BY <2>1, <2>2, <2>3 DEF Image, Owed, Logged, Verdict
  <2>4. CASE r.kind # "Snapshot"
    BY <2>1, <2>2, <2>4 DEF Answers, Owed, Logged, Counted, r
  <2> QED
    BY <2>3, <2>4
<1> QED
  BY <1>1, <1>3, <1>4 DEF Call

-----------------------------------------------------------------------------
(* The storage worker *)

LEMMA TakeImage ==
  ASSUME IInv, WorkerReceive \/ WorkerDrain
  PROVE  UNCHANGED Image
<1>1. /\ Taken = {} /\ Queued = Queued' \cup Taken'
      /\ UNCHANGED <<pending, stored, dropped, main, status>>
  BY TakeFacts DEF IInv
<1>2. Owed' = Owed
  BY <1>1 DEF Owed, Pending
<1> QED
  BY <1>1, <1>2 DEF Image, Logged, Verdict, Stored

LEMMA EnqueueImage ==
  ASSUME IInv, WorkerEnqueue
  PROVE  UNCHANGED Image
<1>1. UNCHANGED <<stored, dropped, main, status>>
  BY DEF WorkerEnqueue
<1>2. PICK r \in Records :
        /\ Taken = {r} /\ Taken' = {} /\ Queued' = Queued
        /\ Pending' \subseteq Pending \cup {r} /\ r \in Pending'
        /\ Counted(Pending) \subseteq Pending'
  BY EnqueueFacts DEF IInv
<1>3. Owed' = Owed
  BY <1>2 DEF Owed, Counted
<1> QED
  BY <1>1, <1>3 DEF Image, Logged, Verdict, Stored

LEMMA WorkerMovesImage ==
  ASSUME IInv, WorkerTick \/ WorkerShutdown \/ WorkerDrained \/ \E k \in Kinds : FlushNothing(k)
  PROVE  UNCHANGED Image
<1>1. UNCHANGED <<queue, pending, stored, dropped, main, status>>
  BY DEF WorkerTick, WorkerShutdown, WorkerDrained, FlushNothing
<1>2. worker.step # "enqueue" /\ worker'.step # "enqueue"
  <2>1. worker \in Workers
    BY DEF IInv, TypeOK
  <2>2. CASE WorkerTick \/ WorkerDrained
    BY <2>1, <2>2, StepType, GotoType DEF WorkerTick, WorkerDrained, WorkerAt, Kinds
  <2>3. CASE WorkerShutdown
    BY <2>1, <2>3 DEF WorkerShutdown, WorkerAt, Workers
  <2>4. ASSUME NEW k \in Kinds, FlushNothing(k)
        PROVE  worker.step # "enqueue" /\ worker'.step # "enqueue"
    BY <2>1, <2>4, StepType, GotoType DEF FlushNothing, WorkerAt, Kinds
  <2> QED
    BY <2>2, <2>3, <2>4
<1>3. Taken = {} /\ Taken' = {}
  BY <1>2 DEF Taken
<1> QED
  BY <1>1, <1>3 DEF Image, Owed, Logged, Verdict, Queued, Pending, Stored

LEMMA InsertOkImage ==
  ASSUME IInv, NEW k \in Kinds, InsertOk(k)
  PROVE  Settles(Counted(pending[k]))
<1>1. /\ TypeOK /\ pending[k] \in SUBSET Records /\ main # "exited"
      /\ UNCHANGED <<queue, dropped, main>> /\ stored' = WithRows(pending[k])
  BY DEF InsertOk, WorkerAt, IInv, TypeOK
<1>2. pending'[k] = {} /\ \A j \in Kinds \ {k} : pending'[j] = pending[j]
  BY DEF InsertOk, IInv, TypeOK
<1>3. Stored' = Stored \cup pending[k]
  BY <1>1, StoredWith
<1>4. Pending' \subseteq Pending /\ Pending \subseteq Pending' \cup pending[k] /\ pending[k] \subseteq Pending
  BY <1>2 DEF Pending
<1>5. Queued' = Queued /\ Taken = {} /\ Taken' = {}
  <2>1. worker.step # "enqueue" /\ worker'.step # "enqueue"
    BY <1>1, StepType, GotoType DEF InsertOk, WorkerAt, TypeOK, Kinds
  <2> QED
    BY <1>1, <2>1 DEF Queued, Taken
<1> QED
  BY <1>1, <1>3, <1>4, <1>5 DEF Settles, StaysOpen, Owed, Logged, Counted

LEMMA InsertFailsImage ==
  ASSUME IInv, NEW k \in Kinds, InsertFails(k)
  PROVE  Settles({}) \/ Settles(Counted(pending[k]))
<1>1. /\ TypeOK /\ pending[k] \in SUBSET Records /\ main # "exited"
      /\ UNCHANGED <<queue, pending, dropped, main>>
      /\ stored' = stored \/ stored' = WithRows(pending[k])
  BY DEF InsertFails, WorkerAt, IInv, TypeOK
<1>2. /\ Queued' = Queued /\ Taken = {} /\ Taken' = {}
      /\ Pending' = Pending /\ pending[k] \subseteq Pending
  <2>1. worker.step = k /\ worker.step # "enqueue" /\ worker \in Workers
    BY <1>1 DEF InsertFails, WorkerAt, TypeOK, Kinds
  <2>2. worker'.step # "enqueue"
    <3>1. CASE worker' = [worker EXCEPT !.attempt = @ + 1]
      BY <2>1, <3>1 DEF Workers
    <3>2. CASE Goto(NextFlush[k])
      BY <2>1, <3>2, StepType, GotoType
    <3> QED
      BY <3>1, <3>2 DEF InsertFails
  <2> QED
    BY <1>1, <2>1, <2>2 DEF Queued, Taken, Pending
<1>3. Owed' = Owed /\ Counted(pending[k]) \subseteq Owed
  BY <1>2 DEF Owed, Counted
<1>4. CASE stored' = stored
  <2>1. Logged' = Logged
    BY <1>4 DEF Logged, Stored
  <2> QED
    BY <2>1, <1>1, <1>3 DEF Settles, StaysOpen
<1>5. CASE stored' = WithRows(pending[k])
  <2>1. Stored' = Stored \cup pending[k]
    BY <1>1, <1>5, StoredWith
  <2>2. Logged' = Logged \cup Counted(pending[k])
    BY <2>1 DEF Logged, Counted
  <2> QED
    BY <2>2, <1>1, <1>3 DEF Settles, StaysOpen
<1> QED
  BY <1>1, <1>4, <1>5

LEMMA SyncImage ==
  ASSUME IInv, SyncNothing \/ SyncHealth
  PROVE  UNCHANGED Image
<1>1. /\ FlushEnds /\ main # "exited" /\ worker.step = "health"
      /\ UNCHANGED <<pending, stored, dropped, main>>
  BY DEF SyncNothing, SyncHealth, FlushEnds, WorkerAt
<1>2. Counted(Queued') = Counted(Queued)
  <2>1. CASE worker.last
    <3>1. queue' = <<>>
      BY <2>1, <1>1 DEF FlushEnds
    <3>2. Queued' = {}
      BY <3>1, EmptySeq, LenProperties DEF Queued
    <3>3. Counted(Queued) = {}
      BY <2>1, <1>1 DEF IInv, ShutdownInv
    <3> QED
      BY <3>2, <3>3 DEF Counted
  <2>2. CASE ~worker.last
    BY <2>2, <1>1 DEF FlushEnds, Queued
  <2> QED
    BY <2>1, <2>2
<1>3. Taken' = Taken /\ Pending' = Pending /\ Stored' = Stored
  <2>1. worker'.step # "enqueue"
    BY <1>1, StepType, GotoType DEF FlushEnds, IInv, TypeOK
  <2> QED
    BY <1>1, <2>1 DEF Taken, Pending, Stored
<1>4. Owed' = Owed
  BY <1>2, <1>3 DEF Owed, Counted
<1> QED
  BY <1>1, <1>3, <1>4 DEF Image, Logged, Verdict

-----------------------------------------------------------------------------
(* main() *)

LEMMA MainMovesImage ==
  ASSUME MainStop \/ MainStopping
  PROVE  UNCHANGED Image
<1>1. UNCHANGED <<queue, worker, pending, stored, dropped>> /\ main # "exited" /\ main' # "exited"
  BY DEF MainStop, MainStopping, recorderVars
<1> QED
  BY <1>1 DEF Image, Owed, Logged, Verdict, Queued, Taken, Pending, Stored

LEMMA EndImage ==
  ASSUME IInv, MainStoppingFails \/ MainFinish \/ Kill
  PROVE  Ends
<1>1. /\ ProcessEnds /\ main # "exited" /\ main' = "exited" /\ status # "COMPLETED"
      /\ UNCHANGED <<stored, dropped>>
  BY DEF MainStoppingFails, MainFinish, Kill, ProcessEnds, IInv, ClosedInv
<1>2. Owed' = {}
  <2>1. queue' = <<>> /\ \A k \in Kinds : pending'[k] = {}
    BY <1>1 DEF ProcessEnds
  <2>2. Queued' = {}
    BY <2>1, EmptySeq, LenProperties DEF Queued
  <2>3. Pending' = {}
    BY <2>1 DEF Pending
  <2>4. Taken' = {}
    BY <1>1 DEF Taken
  <2> QED
    BY <2>2, <2>3, <2>4 DEF Owed, Counted
<1>3. Logged' = Logged /\ Verdict = "open"
  BY <1>1 DEF Logged, Stored, Verdict
<1>4. CASE status' = "COMPLETED"
  <2>1. MainFinish
    BY <1>1, <1>4 DEF MainStoppingFails, Kill
  <2> QED
    BY <2>1, <1>1, <1>2, <1>3, <1>4, FinishComplete DEF Ends, Owed, Verdict
<1>5. CASE status' # "COMPLETED"
  BY <1>1, <1>2, <1>3, <1>5 DEF Ends, Verdict
<1> QED
  BY <1>4, <1>5

-----------------------------------------------------------------------------

LEMMA LogStep ==
  ASSUME IInv, [Next]_vars
  PROVE  [Log!Next]_Log!logVars
<1>1. ASSUME NEW c \in Callers, Call(c) PROVE [Log!Next]_Log!logVars
  BY <1>1, CallImage, AnswersStep, SameImage
<1>2. CASE Worker
  <2>1. ASSUME NEW k \in Kinds, Flush(k) PROVE [Log!Next]_Log!logVars
    BY <2>1, WorkerMovesImage, InsertOkImage, InsertFailsImage, SettlesStep, SameImage DEF Flush
  <2> QED
    BY <1>2, <2>1, TakeImage, EnqueueImage, WorkerMovesImage, SyncImage, SameImage DEF Worker
<1>3. CASE Main \/ Kill
  BY <1>3, MainMovesImage, EndImage, EndsStep, SameImage DEF Main
<1>4. CASE UNCHANGED vars
  BY <1>4, SameImage DEF vars, Image, Owed, Logged, Verdict, Queued, Taken, Pending, Stored
<1> QED
  BY <1>1, <1>2, <1>3, <1>4 DEF Next, Terminated

LEMMA LogInit == Init => Log!Init
<1> SUFFICES ASSUME Init PROVE Log!Init
  OBVIOUS
<1>1. Queued = {}
  BY EmptySeq, LenProperties DEF Init, Queued
<1>2. Taken = {} /\ Pending = {} /\ Stored = {}
  BY DEF Init, Taken, Pending, Stored
<1> QED
  BY <1>1, <1>2 DEF Init, Log!Init, Counted

\* The recorder implements the abstract log: what it accepts leaves its debt only by being
\* stored, and a session is declared complete only with no debt and no refusal.
THEOREM RecorderImplements == Spec => ImplementsLog
BY LogInit, LogStep, RecorderSafe, PTL DEF Spec, ImplementsLog, Log!Spec

-----------------------------------------------------------------------------
(* The counter queue_len. *)

\* A number is the remainder of every number that differs from it by a multiple of the word.
LEMMA Remainder ==
  ASSUME NEW q \in Int, NEW r \in 0..Word - 1
  PROVE  (q * Word + r) % Word = r
BY RecorderAssumption

\* Counting up or down by one commutes with the wrap-around.
LEMMA WrapStep ==
  ASSUME NEW a \in Int
  PROVE  /\ ((a % Word) + 1) % Word = (a + 1) % Word
         /\ ((a % Word) - 1) % Word = (a - 1) % Word
<1>0. Word \in Nat /\ Word > 1
  BY RecorderAssumption
<1>1. PICK q \in Int, r \in 0..Word - 1 : a = q * Word + r
  <2>1. a = (a \div Word) * Word + (a % Word) /\ a \div Word \in Int /\ a % Word \in 0..Word - 1
    BY <1>0
  <2> QED BY <2>1
<1>2. a % Word = r
  BY <1>1, Remainder
<1>3. (r + 1) % Word = (a + 1) % Word
  <2>1. CASE r + 1 \in 0..Word - 1
    <3>1. a + 1 = q * Word + (r + 1)
      BY <1>0, <1>1
    <3>2. (a + 1) % Word = r + 1
      BY <2>1, <3>1, Remainder
    <3>3. (r + 1) % Word = r + 1
      BY <1>0, <2>1
    <3> QED BY <3>2, <3>3
  <2>2. CASE r + 1 = Word
    <3>1. (q + 1) * Word = q * Word + Word /\ Word = 1 * Word + 0
      BY <1>0
    <3>2. a + 1 = (q + 1) * Word + 0
      BY <1>0, <1>1, <2>2, <3>1
    <3>3. q + 1 \in Int /\ 1 \in Int /\ 0 \in 0..Word - 1
      BY <1>0
    <3>4. (a + 1) % Word = 0 /\ Word % Word = 0
      BY <3>1, <3>2, <3>3, Remainder
    <3> QED BY <2>2, <3>4
  <2> QED BY <1>0, <2>1, <2>2
<1>4. (r - 1) % Word = (a - 1) % Word
  <2>1. CASE r - 1 \in 0..Word - 1
    <3>1. a - 1 = q * Word + (r - 1)
      BY <1>0, <1>1
    <3>2. (a - 1) % Word = r - 1
      BY <2>1, <3>1, Remainder
    <3>3. (r - 1) % Word = r - 1
      BY <1>0, <2>1
    <3> QED BY <3>2, <3>3
  <2>2. CASE r = 0
    <3>1. (q - 1) * Word = q * Word - Word
      BY <1>0
    <3>2. a - 1 = (q - 1) * Word + (Word - 1) /\ r - 1 = (0 - 1) * Word + (Word - 1)
      BY <1>0, <1>1, <2>2, <3>1
    <3>3. q - 1 \in Int /\ 0 - 1 \in Int /\ Word - 1 \in 0..Word - 1
      BY <1>0
    <3>4. (a - 1) % Word = Word - 1 /\ (r - 1) % Word = Word - 1
      BY <3>2, <3>3, Remainder
    <3> QED BY <3>4
  <2> QED BY <1>0, <2>1, <2>2
<1> QED BY <1>2, <1>3, <1>4

LEMMA QueueKept ==
  ASSUME QueueInv, UNCHANGED <<queue, queueLen>>, Counting' = Counting,
         main' # "exited" => main # "exited",
         worker'.step # "stopped" => worker.step # "stopped",
         worker.step = "enqueue" <=> worker'.step = "enqueue"
  PROVE  QueueInv'
<1>1. Subtracting' = Subtracting
  BY DEF Subtracting
<1> QED BY <1>1 DEF QueueInv, QueueLenSettles

LEMMA CallQueue ==
  ASSUME TypeOK, QueueInv, NEW c \in Callers, Call(c)
  PROVE  QueueInv'
<1> DEFINE n == Cardinality(Counting)
           l == Len(queue)
           m == Subtracting
<1>0. /\ call \in [Callers -> Calls] /\ queue \in Seq(Records) /\ l \in Nat
      /\ IsFiniteSet(Counting) /\ n \in Nat /\ m \in Nat
      /\ Word \in Nat \ {0}
  BY RecorderAssumption, FS_CardinalityType DEF TypeOK, QueueInv, Subtracting
<1>4. worker' = worker => Subtracting' = m
  BY DEF Subtracting
<1>1. CASE (\E k \in Kinds : Number(c, k)) \/ SendFull(c) \/ SendClosed(c)
  <2>1. /\ call' = call \/ \E q \in Calls : /\ call' = [call EXCEPT ![c] = q]
                                            /\ q.step # "count"
        /\ call[c].step # "count"
        /\ UNCHANGED <<queue, queueLen, main, worker>>
    <3>1. ASSUME NEW k \in Kinds, Number(c, k)
          PROVE  /\ call' = call \/ \E q \in Calls : /\ call' = [call EXCEPT ![c] = q]
                                                      /\ q.step # "count"
                 /\ call[c].step # "count"
                 /\ UNCHANGED <<queue, queueLen, main, worker>>
      <4>1. seq \in 1..MaxSeq
        BY <3>1 DEF Number, TypeOK
      <4> DEFINE q == [step |-> "send", rec |-> [seq |-> seq, kind |-> k]]
      <4>2. q \in Calls /\ q.step # "count"
        BY <4>1 DEF Calls, Records
      <4>3. call' = call \/ call' = [call EXCEPT ![c] = q]
        BY <3>1 DEF Number
      <4>4. call[c].step # "count" /\ UNCHANGED <<queue, queueLen, main, worker>>
        BY <3>1 DEF Number, Idle, workerVars
      <4> HIDE DEF q
      <4> QED BY <4>2, <4>3, <4>4
    <3>2. CASE SendFull(c) \/ SendClosed(c)
      BY <3>2 DEF SendFull, SendClosed, Refused, Sending, workerVars, Calls, Idle
    <3> QED BY <1>1, <3>1, <3>2
  <2>2. Counting' = Counting
    BY <1>0, <2>1 DEF Counting
  <2> QED BY <2>1, <2>2, QueueKept
<1>2. CASE SendOk(c)
  <2>1. /\ Counting' = Counting \cup {c} /\ c \notin Counting
        /\ queue' = Append(queue, call[c].rec) /\ call[c].rec \in Records
        /\ UNCHANGED <<queueLen, main, worker>>
    <3>1. call[c] \in Calls /\ call[c].step = "send"
      BY <1>0, <1>2 DEF SendOk, Sending
    <3>2. \A d \in Callers : call'[d].step = IF d = c THEN "count" ELSE call[d].step
      BY <1>0, <1>2, <3>1 DEF SendOk, Calls, Idle
    <3> QED BY <1>2, <3>1, <3>2, CallsFields DEF SendOk, Counting, workerVars
  <2>2. IsFiniteSet(Counting') /\ Cardinality(Counting') = n + 1
    BY <1>0, <2>1, FS_AddElement
  <2>3. Len(queue') = l + 1
    BY <1>0, <2>1, AppendProperties
  <2>4. l + 1 + m - (n + 1) = l + m - n
    <3>1. l \in Nat /\ m \in Nat /\ n \in Nat
      BY <1>0
    <3> HIDE DEF l, m, n
    <3> QED BY <3>1
  <2>5. Subtracting' = m
    BY <1>4, <2>1
  <2>6. Len(queue') + Subtracting' - Cardinality(Counting') = l + m - n
    <3> HIDE DEF l, m, n
    <3> QED BY <2>2, <2>3, <2>4, <2>5
  <2> QED BY <2>1, <2>2, <2>6 DEF QueueInv, QueueLenSettles
<1>3. CASE Count(c)
  <2>1. /\ Counting' = Counting \ {c} /\ c \in Counting
        /\ queueLen' = (queueLen + 1) % Word
        /\ UNCHANGED <<queue, main, worker>>
    <3>1. \A d \in Callers : call'[d].step = IF d = c THEN "idle" ELSE call[d].step
      BY <1>0, <1>3 DEF Count, Idle
    <3> QED BY <1>3, <3>1 DEF Count, Counting, workerVars
  <2>2. IsFiniteSet(Counting') /\ Cardinality(Counting') = n - 1
    BY <1>0, <2>1, FS_RemoveElement
  <2>3. l + m - (n - 1) = (l + m - n) + 1 /\ l + m - n \in Int
    BY <1>0
  <2> DEFINE a == l + m - n
  <2>4. Len(queue') + Subtracting' - Cardinality(Counting') = a + 1
    BY <1>4, <2>1, <2>2, <2>3
  <2>5. ((a % Word) + 1) % Word = (a + 1) % Word
    <3>1. a \in Int
      BY <2>3
    <3> HIDE DEF a
    <3> QED BY <3>1, WrapStep
  <2>6. main' # "exited" /\ worker'.step # "stopped" => queueLen = a % Word
    BY <2>1 DEF QueueInv, QueueLenSettles
  <2> HIDE DEF a
  <2> QED BY <2>1, <2>2, <2>4, <2>5, <2>6 DEF QueueInv, QueueLenSettles
<1> QED BY <1>1, <1>2, <1>3 DEF Call

LEMMA WorkerQueue ==
  ASSUME TypeOK, QueueInv, Worker
  PROVE  QueueInv'
<1> DEFINE n == Cardinality(Counting)
           l == Len(queue)
<1>1. worker.step # "stopped" /\ main # "exited" /\ call' = call /\ main' = main
  BY DEF Worker, WorkerReceive, WorkerEnqueue, WorkerTick, WorkerShutdown, WorkerDrain, WorkerDrained,
         Flush, FlushNothing, InsertOk, InsertFails, SyncNothing, SyncHealth, FlushEnds, WorkerAt,
         Take, callVars, Kinds
<1>2. Counting' = Counting /\ n \in Nat /\ l \in Nat /\ worker \in Workers
  BY <1>1, FS_CardinalityType DEF Counting, TypeOK, QueueInv
\* A record that is taken leaves the channel for the worker's hand.
<1>3. CASE WorkerReceive \/ WorkerDrain
  <2>1. /\ queueLen' = queueLen /\ queue # <<>> /\ queue' = Tail(queue)
        /\ worker.step # "enqueue"
    BY <1>3 DEF WorkerReceive, WorkerDrain, Take, WorkerAt, callVars
  <2>2. worker'.step = "enqueue"
    BY <1>3, TakeFacts
  <2>3. Len(queue') = l - 1
    BY <2>1 DEF TypeOK
  <2>4. Subtracting = 0 /\ Subtracting' = 1
    BY <2>1, <2>2 DEF Subtracting
  <2>5. (l - 1) + 1 - n = l + 0 - n
    BY <1>2
  <2>6. Len(queue') + Subtracting' - Cardinality(Counting') = l + Subtracting - n
    BY <1>2, <2>3, <2>4, <2>5
  <2> QED BY <1>1, <1>2, <2>1, <2>6 DEF QueueInv, QueueLenSettles
\* enqueue subtracts it.
<1>4. CASE WorkerEnqueue
  <2> DEFINE a == l + 1 - n
  <2>1. /\ queueLen' = (queueLen - 1) % Word /\ queue' = queue
        /\ worker.step = "enqueue"
    BY <1>4 DEF WorkerEnqueue, WorkerAt
  <2>2. worker'.step # "enqueue"
    BY <1>2, <1>4, EnqueueGoes
  <2>3. Subtracting = 1 /\ Subtracting' = 0
    BY <2>1, <2>2 DEF Subtracting
  <2>4. a \in Int /\ l + 0 - n = a - 1
    BY <1>2
  <2>5. Len(queue') + Subtracting' - Cardinality(Counting') = a - 1
    BY <1>2, <2>1, <2>3, <2>4
  <2>6. queueLen = a % Word
    BY <1>1, <2>3 DEF QueueInv, QueueLenSettles
  <2> HIDE DEF a
  <2>7. ((a % Word) - 1) % Word = (a - 1) % Word
    BY <2>4, WrapStep
  <2> QED BY <1>2, <2>1, <2>5, <2>6, <2>7 DEF QueueInv, QueueLenSettles
<1>5. CASE SyncNothing \/ SyncHealth
  <2>1. FlushEnds /\ worker.step = "health"
    BY <1>5 DEF SyncNothing, SyncHealth, WorkerAt
  <2>2. worker'.step = IF worker.last THEN "stopped" ELSE "select"
    BY <1>2, <2>1, StepType, GotoType DEF FlushEnds
  <2>3. CASE worker.last
    BY <1>2, <2>2, <2>3 DEF QueueInv, QueueLenSettles
  <2>4. CASE ~worker.last
    BY <1>1, <1>2, <2>1, <2>2, <2>4, QueueKept DEF FlushEnds, callVars
  <2> QED BY <2>3, <2>4
<1>6. CASE WorkerTick \/ WorkerShutdown \/ WorkerDrained \/ \E k \in Kinds : Flush(k)
  <2>1. UNCHANGED <<queue, queueLen>> /\ worker.step # "enqueue"
    BY <1>6 DEF WorkerTick, WorkerShutdown, WorkerDrained, Flush, FlushNothing, InsertOk, InsertFails,
                callVars, WorkerAt, Kinds
  <2>2. worker'.step # "enqueue"
    <3>1. CASE WorkerTick \/ WorkerDrained
      BY <1>2, <3>1, StepType, GotoType DEF WorkerTick, WorkerDrained, Kinds
    <3>2. CASE WorkerShutdown
      BY <1>2, <3>2 DEF WorkerShutdown, Workers
    <3>3. ASSUME NEW k \in Kinds, Flush(k) PROVE worker'.step # "enqueue"
      <4>1. CASE Goto(NextFlush[k])
        BY <1>2, <4>1, StepType, GotoType
      <4>2. CASE worker' = [worker EXCEPT !.attempt = @ + 1]
        BY <1>2, <2>1, <4>2 DEF Workers
      <4> QED BY <3>3, <4>1, <4>2 DEF Flush, FlushNothing, InsertOk, InsertFails
    <3> QED BY <1>6, <3>1, <3>2, <3>3
  <2> QED BY <1>1, <1>2, <2>1, <2>2, QueueKept
<1> QED BY <1>3, <1>4, <1>5, <1>6 DEF Worker

LEMMA QueueStep == TypeOK /\ QueueInv /\ [Next]_vars => QueueInv'
<1> SUFFICES ASSUME TypeOK, QueueInv, [Next]_vars PROVE QueueInv'
  OBVIOUS
<1>1. CASE MainStop \/ MainStopping
  <2>1. /\ UNCHANGED <<queue, queueLen, call, worker>> /\ main # "exited"
    BY <1>1 DEF MainStop, MainStopping, recorderVars
  <2>2. Counting' = Counting
    BY <2>1 DEF Counting
  <2> QED BY <2>1, <2>2, QueueKept
<1>2. CASE MainStoppingFails \/ MainFinish \/ Kill
  <2>1. main' = "exited" /\ call' = [c \in Callers |-> Idle]
    BY <1>2 DEF MainStoppingFails, MainFinish, Kill, ProcessEnds
  <2>2. Counting' = {}
    BY <2>1 DEF Counting, Idle
  <2> QED BY <2>1, <2>2, FS_EmptySet DEF QueueInv, QueueLenSettles
<1>3. CASE UNCHANGED vars
  BY <1>3 DEF vars, QueueInv, QueueLenSettles, Counting, Subtracting
<1> QED BY <1>1, <1>2, <1>3, CallQueue, WorkerQueue DEF Next, Main, Terminated

\* queue_len is the length of the channel, more the record the worker has taken and not yet
\* subtracted, less the sends not counted yet, modulo its width: it may wrap below zero and always
\* comes back.
THEOREM QueueLenIsRight == Spec => []QueueLenSettles
<1>1. Init => QueueInv
  <2> SUFFICES ASSUME Init PROVE QueueInv
    OBVIOUS
  <2>1. Counting = {}
    BY DEF Init, Counting, Idle
  <2>2. /\ IsFiniteSet(Counting) /\ Cardinality(Counting) = 0
        /\ Len(queue) = 0 /\ Subtracting = 0 /\ queueLen = 0
    BY <2>1, FS_EmptySet DEF Init, Subtracting
  <2>3. (0 + 0 - 0) % Word = 0
    BY RecorderAssumption
  <2> QED BY <2>2, <2>3 DEF QueueInv, QueueLenSettles
<1>2. QueueInv => QueueLenSettles
  BY DEF QueueInv
<1> QED BY <1>1, <1>2, QueueStep, TypeCorrect, PTL DEF Spec
=============================================================================
