----------------------------- MODULE RecorderInv ----------------------------
(* The properties of the recorder. *)
EXTENDS Recorder

Queued == {queue[i] : i \in DOMAIN queue}
Taken == IF main # "exited" /\ worker.step = "enqueue" THEN {worker.rec} ELSE {}
Pending == UNION {pending[k] : k \in Kinds}
Stored == {r \in Records : stored[r] > 0}
InHand == {call[c].rec : c \in {d \in Callers : call[d].step = "send"}}

\* The callers whose record is in the channel and not counted yet.
Counting == {c \in Callers : call[c].step = "count"}

\* The record that has left the channel and is still counted in queue_len.
Subtracting == IF worker.step = "enqueue" THEN 1 ELSE 0

\* The records the recorder answers for: it counts what becomes of every kind but a snapshot.
Counted(R) == {r \in R : r.kind # "Snapshot"}

-----------------------------------------------------------------------------
(* Invariants *)

\* Every raw payload, trade and depth event handed to the recorder is on its way to the
\* store, in it, or counted as dropped: retries, overflow, shutdown and the races of several
\* callers with the worker lose none of them (record_raw, send, enqueue, flush_raw).
Accounted ==
  main # "exited" =>
    Counted(recorded) \subseteq InHand \cup Queued \cup Taken \cup Pending \cup Stored \cup dropped

\* A session whose status is COMPLETED holds every raw payload, trade and depth event that
\* was recorded: the final status of main() never hides a loss.
CompletedIsComplete == status = "COMPLETED" => Counted(recorded) \subseteq Stored

\* queue_len is the length of the channel, more the record that the worker has taken and not
\* yet subtracted, less the sends that are not counted yet, modulo the width of the counter: a
\* worker that is faster than the sender makes it wrap below zero, and it comes back (send,
\* recv and try_recv, enqueue).
QueueLenSettles ==
  main # "exited" /\ worker.step # "stopped" =>
    queueLen = (Len(queue) + Subtracting - Cardinality(Counting)) % Word

(***************************************************************************)
(* IInv is inductive.  Its other parts say: a record has one owner while it*)
(* is in a caller's hand (HandInv); the main loop is silent once it has    *)
(* stopped, so the channel holds nothing but snapshots behind the final    *)
(* flush (ShutdownInv); a flush that has passed a kind has emptied it or   *)
(* degraded the session (FlushInv); so has every refusal (DropInv).        *)
(***************************************************************************)
KindInv == \A k \in Kinds : \A r \in pending[k] : r.kind = k

HandInv ==
  /\ \A r \in recorded : r.seq < seq
  /\ Queued \cup Taken \cup Pending \cup Stored \cup dropped \subseteq recorded
  /\ \A c \in Callers : call[c].step # "idle" =>
       call[c].rec \in recorded /\ (c # MainLoop => call[c].rec.kind = "Snapshot")
  /\ \A c \in Callers : call[c].step = "send" =>
       /\ call[c].rec \notin Queued \cup Taken \cup Pending \cup Stored \cup dropped
       /\ \A d \in Callers \ {c} : call[d].step = "send" => call[d].rec # call[c].rec

ShutdownInv ==
  /\ main \in {"stopping", "joining"} => call[MainLoop].step = "idle"
  /\ worker.last => main \in {"joining", "exited"}
  /\ worker.step \in {"drain", "stopped"} => worker.last
  /\ worker.last /\ worker.step \notin {"drain", "enqueue"} => Counted(Queued) = {}

FlushInv ==
  ~degraded =>
    /\ worker.step \in {"Trade", "Depth", "Snapshot", "health", "stopped"} => pending["Raw"] = {}
    /\ worker.step \in {"Depth", "Snapshot", "health", "stopped"} => pending["Trade"] = {}
    /\ worker.step \in {"Snapshot", "health", "stopped"} => pending["Depth"] = {}

DropInv == Counted(dropped) = dropped /\ (dropped # {} => degraded)

ClosedInv == status = "COMPLETED" => main = "exited"

IInv ==
  /\ TypeOK /\ KindInv /\ HandInv /\ ShutdownInv /\ FlushInv /\ DropInv /\ ClosedInv
  /\ Accounted /\ CompletedIsComplete

\* What makes QueueLenSettles inductive.
QueueInv == IsFiniteSet(Counting) /\ QueueLenSettles

-----------------------------------------------------------------------------
(* The abstract log *)

Log == INSTANCE DurableLog WITH
         Record <- Counted(Records),
         owed <- Counted(Queued \cup Taken \cup Pending),
         log <- Counted(Stored),
         refused <- dropped,
         verdict <- IF main # "exited" THEN "open"
                    ELSE IF status = "COMPLETED" THEN "complete" ELSE "incomplete"

\* The recorder implements the abstract log: a record that was accepted leaves the recorder's
\* debt only by being stored, and a session is declared complete only with no debt and no
\* refusal (StorageWorker and the end of main()).
ImplementsLog == Log!Spec

-----------------------------------------------------------------------------
(* Liveness *)

\* When the main loop has ended, main() does return, whatever the database answers: the final
\* flush gives up after its attempts, and the worker reaches its shutdown branch.
ShutdownReturns == main = "stopping" ~> main = "exited"

\* A record that was accepted is stored some day, or the process ends, if the database is
\* not down for good.
AcceptedIsStored ==
  StoreFairness =>
  LET Numbers(R) == {r.seq : r \in Counted(R)}
  IN \A n \in 1..MaxSeq : n \in Numbers(Queued) ~> (n \in Numbers(Stored) \/ main = "exited")

\* Degraded health reaches the session row, or the process ends, under the same condition.
DegradedIsTold == StoreFairness => degraded ~> (status = "DEGRADED" \/ main = "exited")

-----------------------------------------------------------------------------
(* What the documentation says of the recorder and the code does not do. *)

\* README.md, worker.rs: failed batches are retained and retried, never discarded.  A snapshot
\* whose insert failed is replaced in pending_snapshot by the next (enqueue), while the process
\* goes on.  Where the channel cannot overflow, degraded says that an insert failed.
FailedBatchesAreKept ==
  [][degraded /\ main' # "exited" => \A r \in Pending : r \in Pending' \cup Stored']_vars

\* worker.rs, retry_insert: retrying an identical batch is idempotent.  The tables of raw
\* payloads and snapshots keep the rows an insert wrote before it failed (InsertFails).
RetryIsIdempotent == \A r \in Records : stored[r] <= 1
=============================================================================
