------------------------------ MODULE Recorder ------------------------------
(***************************************************************************)
(* Recording, recording/recorder.rs and recording/worker.rs, with the end  *)
(* of main.rs that closes the session: callers that number a record and    *)
(* push it through a bounded channel with try_send, the storage worker that*)
(* batches and inserts with bounded retries, and the session's status row. *)
(*                                                                         *)
(* Concurrency.  The main loop and the snapshot tasks call the recorder    *)
(* from several threads; a call is three steps (number, try_send, count),  *)
(* because seq, the channel and queue_len are separate atomics.  So is the *)
(* worker's side: it takes a record off the channel (recv, try_recv), and  *)
(* enqueue decrements queue_len and batches the record in a later step.    *)
(* Every insert and every status update is one step: its effect and its    *)
(* answer.  Metrics other than the dropped counters are left out.          *)
(***************************************************************************)
EXTENDS Integers, Sequences, FiniteSets

CONSTANTS SnapshotTask,   \* the slots for snapshot tasks of the depth engine
          Capacity,       \* RECORDING_QUEUE_CAPACITY
          BatchSize,      \* rows of one kind that trigger a flush
          DepthRows,      \* level rows of one recorded depth event
          RetryAttempts,  \* insert attempts for one batch
          MaxSeq,         \* bound: how many records are numbered
          MaxCopies,      \* bound: how often inserts that failed may have written one row
          Word            \* queue_len counts modulo Word

MainLoop == "main"
Callers == {MainLoop} \cup SnapshotTask

ASSUME RecorderAssumption ==
  /\ Capacity \in Nat \ {0} /\ BatchSize \in Nat \ {0} /\ DepthRows \in Nat \ {0}
  /\ RetryAttempts \in Nat \ {0} /\ MaxSeq \in Nat /\ MaxCopies \in Nat
  /\ Word \in Nat /\ Word > 1
  /\ MainLoop \notin SnapshotTask

VARIABLES
  seq,        \* the recorder's next sequence number
  recorded,   \* the records handed to send
  call,       \* the record each caller is in the middle of recording
  derived,    \* what the main loop still has to record for the last raw payload
  queue,      \* tx / rx
  queueLen,   \* queue_len
  pending,    \* the worker's batches, per kind
  worker,     \* where the storage worker is, and the record it took off the channel
  stored,     \* external: rows in the database, counted per record
  dropped,    \* the records counted as dropped
  degraded,   \* health.degraded
  synced,     \* last_synced_degraded
  status,     \* external: the status in the session row
  main        \* how far main() is with closing the session

callVars == <<seq, recorded, call, derived, queueLen>>
workerVars == <<pending, worker, synced>>
vars == <<seq, recorded, call, derived, queue, queueLen, pending, worker, stored,
          dropped, degraded, synced, status, main>>

Kinds == {"Raw", "Trade", "Depth", "Snapshot"}

\* external: the tables whose engine is ReplacingMergeTree; the others keep every row.
Replacing == {"Trade", "Depth"}

Records == [seq : 1..MaxSeq, kind : Kinds]
NoRecord == [seq |-> 0, kind |-> "none"]
Idle == [step |-> "idle", rec |-> NoRecord]
Calls == {Idle} \cup [step : {"send", "count"}, rec : Records]

Flushing == Kinds \cup {"health"}

Steps == {"select", "drain", "stopped"} \cup Flushing

\* Between the channel and a batch the worker has a record in its hand.
Workers ==
  {w \in [step : Steps \cup {"enqueue"}, rec : Records \cup {NoRecord},
          attempt : 0..RetryAttempts - 1, last : BOOLEAN] :
     w.step = "enqueue" => w.rec # NoRecord}

\* The order of flush_all.
NextFlush ==
  [k \in Kinds |-> CASE k = "Raw" -> "Trade"
                     [] k = "Trade" -> "Depth"
                     [] k = "Depth" -> "Snapshot"
                     [] k = "Snapshot" -> "health"]

TypeOK ==
  /\ seq \in 1..MaxSeq + 1 /\ recorded \in SUBSET Records
  /\ call \in [Callers -> Calls]
  /\ derived \in {"none", "Depth", "Trade"}
  /\ queue \in Seq(Records) /\ Len(queue) <= Capacity
  /\ queueLen \in 0..Word - 1
  /\ pending \in [Kinds -> SUBSET Records]
  /\ worker \in Workers
  /\ stored \in [Records -> Nat]
  /\ dropped \in SUBSET Records
  /\ degraded \in BOOLEAN /\ synced \in BOOLEAN
  /\ status \in {"RECORDING", "DEGRADED", "STOPPING", "COMPLETED"}
  /\ main \in {"running", "stopping", "joining", "exited"}

Init ==
  /\ seq = 1 /\ recorded = {} /\ call = [c \in Callers |-> Idle] /\ derived = "none"
  /\ queue = <<>> /\ queueLen = 0
  /\ pending = [k \in Kinds |-> {}]
  /\ worker = [step |-> "select", rec |-> NoRecord, attempt |-> 0, last |-> FALSE]
  /\ stored = [r \in Records |-> 0]
  /\ dropped = {} /\ degraded = FALSE /\ synced = FALSE
  /\ status = "RECORDING" /\ main = "running"

-----------------------------------------------------------------------------
(* Callers *)

\* The main loop records a raw payload; its trade or depth rows follow, or nothing does.
MayRecord(c, k) ==
  IF c = MainLoop
  THEN main = "running" /\ (IF derived = "none" THEN k = "Raw" ELSE k = derived)
  ELSE k = "Snapshot"

Number(c, k) ==
  /\ main # "exited" /\ call[c] = Idle /\ seq <= MaxSeq
  /\ MayRecord(c, k)
  /\ seq' = seq + 1
  /\ derived' \in (IF k = "Raw" THEN {"none", "Depth", "Trade"}
                   ELSE IF c = MainLoop THEN {"none"} ELSE {derived})
  /\ \/ /\ recorded' = recorded \cup {[seq |-> seq, kind |-> k]}
        /\ call' = [call EXCEPT ![c] = [step |-> "send", rec |-> [seq |-> seq, kind |-> k]]]
     \/ k = "Depth" /\ UNCHANGED <<recorded, call>>   \* rows.is_empty(): no level parses
  /\ UNCHANGED <<queue, queueLen, workerVars, stored, dropped, degraded, status, main>>

Sending(c) == main # "exited" /\ call[c].step = "send"

Closed == worker.step = "stopped"

\* Mutant: the sender forgets to count.
SendUncounted(c) ==
  /\ Sending(c) /\ ~Closed /\ Len(queue) < Capacity
  /\ queue' = Append(queue, call[c].rec)
  /\ call' = [call EXCEPT ![c] = Idle]
  /\ UNCHANGED <<seq, recorded, derived, queueLen, workerVars, stored, dropped, degraded,
                 status, main>>

SendOk(c) ==
  /\ Sending(c) /\ ~Closed /\ Len(queue) < Capacity
  /\ queue' = Append(queue, call[c].rec)
  /\ call' = [call EXCEPT ![c].step = "count"]
  /\ UNCHANGED <<seq, recorded, derived, queueLen, workerVars, stored, dropped, degraded, status, main>>

\* A refused record is counted by its caller, a refused snapshot by nobody.
Refused(c) ==
  /\ call' = [call EXCEPT ![c] = Idle]
  /\ dropped' = IF call[c].rec.kind = "Snapshot" THEN dropped ELSE dropped \cup {call[c].rec}
  /\ UNCHANGED <<seq, recorded, derived, queue, queueLen, workerVars, stored, status, main>>

SendFull(c) ==
  /\ Sending(c) /\ ~Closed /\ Len(queue) >= Capacity
  /\ degraded' = TRUE   \* on_queue_overflow
  /\ Refused(c)

SendClosed(c) ==
  /\ Sending(c) /\ Closed
  /\ Refused(c)
  /\ UNCHANGED degraded

Count(c) ==
  /\ main # "exited" /\ call[c].step = "count"
  /\ queueLen' = (queueLen + 1) % Word
  /\ call' = [call EXCEPT ![c] = Idle]
  /\ UNCHANGED <<seq, recorded, derived, queue, workerVars, stored, dropped, degraded, status, main>>

-----------------------------------------------------------------------------
(* The storage worker *)

WorkerAt(step) == main # "exited" /\ worker.step = step

\* Mutant: every kind is kept like the snapshot.
EnqueuedLast(r) == [pending EXCEPT ![r.kind] = {r}]

\* enqueue: a snapshot replaces the one that was pending.
Enqueued(r) ==
  [pending EXCEPT ![r.kind] = IF r.kind = "Snapshot" THEN {r} ELSE @ \cup {r}]

\* recv, try_recv: the record has left the channel and is in no batch yet.
Take ==
  /\ queue # <<>>
  /\ queue' = Tail(queue)
  /\ worker' = [worker EXCEPT !.step = "enqueue", !.rec = Head(queue)]
  /\ UNCHANGED <<callVars, pending, synced, stored, dropped, degraded, status, main>>

RowsOf(k) == IF k = "Depth" THEN DepthRows ELSE 1

ThresholdReached(batches) ==
  \E k \in Kinds \ {"Snapshot"} : Cardinality(batches[k]) * RowsOf(k) >= BatchSize

Goto(step) == worker' = [worker EXCEPT !.step = step, !.attempt = 0]

WorkerReceive == WorkerAt("select") /\ Take

AfterEnqueue(batches) ==
  IF worker.last THEN "drain" ELSE IF ThresholdReached(batches) THEN "Raw" ELSE "select"

\* enqueue, and the test of the threshold when it was select! that took the record.
WorkerEnqueue ==
  /\ WorkerAt("enqueue")
  /\ queueLen' = (queueLen - 1) % Word
  /\ pending' = Enqueued(worker.rec)
  /\ worker' = [worker EXCEPT !.step = AfterEnqueue(pending'), !.rec = NoRecord]
  /\ UNCHANGED <<seq, recorded, call, derived, queue, synced, stored, dropped, degraded, status, main>>

\* Mutant: the timer does not flush.
WorkerTickOnly ==
  /\ WorkerAt("select") /\ Goto("select")
  /\ UNCHANGED <<callVars, queue, pending, synced, stored, dropped, degraded, status, main>>

WorkerTick ==
  /\ WorkerAt("select") /\ Goto("Raw")
  /\ UNCHANGED <<callVars, queue, pending, synced, stored, dropped, degraded, status, main>>

\* The shutdown branch: request_shutdown has been called exactly when main() joins the worker.
WorkerShutdown ==
  /\ WorkerAt("select") /\ main = "joining"
  /\ worker' = [worker EXCEPT !.step = "drain", !.last = TRUE]
  /\ UNCHANGED <<callVars, queue, pending, synced, stored, dropped, degraded, status, main>>

WorkerDrain == WorkerAt("drain") /\ Take

\* Mutant: the final flush does not wait for the channel to be empty.
WorkerNotDrained ==
  /\ WorkerAt("drain") /\ Goto("Raw")
  /\ UNCHANGED <<callVars, queue, pending, synced, stored, dropped, degraded, status, main>>

WorkerDrained ==
  /\ WorkerAt("drain") /\ queue = <<>> /\ Goto("Raw")
  /\ UNCHANGED <<callVars, queue, pending, synced, stored, dropped, degraded, status, main>>

WithRows(batch) ==
  [r \in Records |-> IF r \notin batch THEN stored[r]
                     ELSE IF r.kind \in Replacing THEN 1 ELSE stored[r] + 1]

FlushNothing(k) ==
  /\ WorkerAt(k) /\ pending[k] = {} /\ Goto(NextFlush[k])
  /\ UNCHANGED <<callVars, queue, pending, synced, stored, dropped, degraded, status, main>>

InsertOk(k) ==
  /\ WorkerAt(k) /\ pending[k] # {}
  /\ stored' = WithRows(pending[k])
  /\ pending' = [pending EXCEPT ![k] = {}]
  /\ Goto(NextFlush[k])
  /\ UNCHANGED <<callVars, queue, synced, dropped, degraded, status, main>>

\* Mutant: a batch that failed its last attempt is not put back.
InsertForgets(k) ==
  /\ WorkerAt(k) /\ pending[k] # {}
  /\ \/ /\ worker.attempt + 1 < RetryAttempts
        /\ worker' = [worker EXCEPT !.attempt = @ + 1]
        /\ UNCHANGED <<pending, degraded>>
     \/ /\ worker.attempt + 1 = RetryAttempts
        /\ Goto(NextFlush[k])
        /\ pending' = [pending EXCEPT ![k] = {}] /\ degraded' = TRUE
  /\ UNCHANGED <<callVars, queue, synced, stored, dropped, status, main>>

\* Mutant: the worker retries until the insert succeeds.
InsertForever(k) ==
  /\ WorkerAt(k) /\ pending[k] # {}
  /\ worker' = [worker EXCEPT !.attempt = (@ + 1) % RetryAttempts]
  /\ UNCHANGED <<callVars, queue, pending, synced, stored, dropped, degraded, status, main>>

\* An insert that returns an error may have written its rows.  After the last attempt the
\* batch stays pending and the session is degraded.
InsertFails(k) ==
  /\ WorkerAt(k) /\ pending[k] # {}
  /\ \/ UNCHANGED stored
     \/ (\A r \in pending[k] : stored[r] < MaxCopies) /\ stored' = WithRows(pending[k])
  /\ \/ /\ worker.attempt + 1 < RetryAttempts
        /\ worker' = [worker EXCEPT !.attempt = @ + 1]
        /\ UNCHANGED degraded
     \/ /\ worker.attempt + 1 = RetryAttempts
        /\ Goto(NextFlush[k])
        /\ degraded' = TRUE
  /\ UNCHANGED <<callVars, queue, pending, synced, dropped, status, main>>

\* After flush_all: back to select!, or out of run_worker, which drops the receiver.
FlushEnds ==
  /\ Goto(IF worker.last THEN "stopped" ELSE "select")
  /\ queue' = IF worker.last THEN <<>> ELSE queue
  /\ UNCHANGED <<callVars, pending, stored, dropped, degraded, main>>

SyncNothing ==
  WorkerAt("health") /\ degraded = synced /\ FlushEnds /\ UNCHANGED <<synced, status>>

SessionHealth == IF degraded THEN "DEGRADED" ELSE "RECORDING"

\* Mutant: the worker remembers a status it failed to write.
SyncHealthOnce ==
  /\ WorkerAt("health") /\ degraded # synced /\ FlushEnds
  /\ status' \in {status, SessionHealth} /\ synced' = degraded

SyncHealth ==
  /\ WorkerAt("health") /\ degraded # synced /\ FlushEnds
  /\ \/ status' = SessionHealth /\ synced' = degraded
     \/ status' \in {status, SessionHealth} /\ UNCHANGED synced   \* the update returns an error

-----------------------------------------------------------------------------
(* main() *)

\* What the process holds in memory is gone.
ProcessEnds ==
  /\ main' = "exited"
  /\ call' = [c \in Callers |-> Idle] /\ queue' = <<>> /\ pending' = [k \in Kinds |-> {}]
  /\ UNCHANGED <<seq, recorded, derived, queueLen, worker, stored, dropped, degraded, synced>>

recorderVars == <<seq, recorded, call, derived, queue, queueLen, pending, worker, stored,
                  dropped, degraded, synced>>

\* The main loop ends between two calls of the recorder.
MainStop ==
  /\ main = "running" /\ call[MainLoop] = Idle /\ derived = "none"
  /\ main' = "stopping"
  /\ UNCHANGED <<recorderVars, status>>

MainStopping ==
  /\ main = "stopping" /\ status' = "STOPPING"
  /\ main' = "joining"   \* request_shutdown, then join
  /\ UNCHANGED recorderVars

\* The ? of a failed update: main() returns without a shutdown request, and the runtime ends.
MainStoppingFails ==
  /\ main = "stopping" /\ status' \in {status, "STOPPING"}
  /\ ProcessEnds

\* Mutant: the final status does not ask the health.
FinalStatusAlways == "COMPLETED"

FinalStatus == IF degraded THEN "DEGRADED" ELSE "COMPLETED"

\* main() has joined the worker; the update of the status may fail.
MainFinish ==
  /\ main = "joining" /\ worker.step = "stopped"
  /\ status' \in {FinalStatus, status}
  /\ ProcessEnds

\* external: the process dies; there is no signal handler.
Kill == main # "exited" /\ ProcessEnds /\ UNCHANGED status

Terminated == main = "exited" /\ UNCHANGED vars

Call(c) ==
  \/ \E k \in Kinds : Number(c, k)
  \/ SendOk(c) \/ SendFull(c) \/ SendClosed(c) \/ Count(c)

Flush(k) == FlushNothing(k) \/ InsertOk(k) \/ InsertFails(k)

Worker ==
  \/ WorkerReceive \/ WorkerEnqueue \/ WorkerTick
  \/ WorkerShutdown \/ WorkerDrain \/ WorkerDrained
  \/ \E k \in Kinds : Flush(k)
  \/ SyncNothing \/ SyncHealth

Main == MainStop \/ MainStopping \/ MainStoppingFails \/ MainFinish

Next == (\E c \in Callers : Call(c)) \/ Worker \/ Main \/ Kill \/ Terminated

Spec == Init /\ [][Next]_vars

-----------------------------------------------------------------------------
(* Fairness *)

\* try_send and the counters never wait, and the runtime polls a task that can run.
CallFairness(c) == WF_vars(SendOk(c) \/ SendFull(c) \/ SendClosed(c) \/ Count(c))

\* select! picks at random among the branches that are ready.
SelectFairness == WF_vars(Worker) /\ SF_vars(WorkerReceive) /\ SF_vars(WorkerShutdown)

FairSpec ==
  /\ Spec
  /\ \A c \in Callers : CallFairness(c)
  /\ SelectFairness
  /\ WF_vars(MainStopping \/ MainStoppingFails \/ MainFinish)

\* The database is not down for good: an insert, or the status update, succeeds some day.
StoreFairness ==
  /\ \A k \in Kinds : SF_vars(InsertOk(k))
  /\ SF_vars(SyncHealth /\ synced')
=============================================================================
