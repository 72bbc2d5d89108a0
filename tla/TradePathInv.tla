---------------------------- MODULE TradePathInv ----------------------------
(***************************************************************************)
(* What the trade path must guarantee, and the inductive invariant.        *)
(***************************************************************************)
EXTENDS TradePath, SequencesExt

(* The tape. *)

\* The trades that arrive with an id higher than every one before them.
HighestYet(i) == \A j \in 1..i - 1 : seen[j] < seen[i]

\* The tape (processor.rs:74-112: what is recorded and analysed) has exactly the trades that arrived
\* with the highest id yet, in that order: whatever the stream repeats or swaps, and however small
\* the window is, none of them twice, and no other rejected than one older than the last.
TapeIsRecords ==
  /\ \A i, j \in 1..Len(tape) : i < j => tape[i] < tape[j]
  /\ \A i \in 1..Len(seen) : HighestYet(i) => \E k \in 1..Len(tape) : tape[k] = seen[i]
  /\ \A k \in 1..Len(tape) : \E i \in 1..Len(seen) : HighestYet(i) /\ tape[k] = seen[i]

Tape == INSTANCE TradeTape

\* Every step of the trade path appends one later trade to the tape, or leaves it alone.
ImplementsTape == Tape!Spec

\* Why: the last id is the highest one seen, and it never leaves the window.
WindowInv ==
  /\ Range(proc.recent) \subseteq Range(tape)
  /\ proc.last = NoTrade <=> tape = <<>>
  /\ tape = <<>> <=> seen = <<>>
  /\ tape # <<>> => proc.last \in Range(proc.recent) /\ proc.last = tape[Len(tape)]
  /\ \A i \in 1..Len(seen) : seen[i] <= proc.last

CountsInv ==
  /\ proc.processed = Len(tape)
  /\ proc.received = Len(seen)
  /\ proc.received = proc.processed + proc.duplicates + proc.stale

IInv == TypeOK /\ TapeIsRecords /\ WindowInv /\ CountsInv

-----------------------------------------------------------------------------
(* Nothing is forgotten. *)

\* How many of the messages are trades.
CountTrade(n, message) == IF message.kind = "Trade" THEN n + 1 ELSE n
TradesIn(messages) == FoldLeft(CountTrade, 0, messages)

\* main.rs:780-853: every payload the client sent on is waiting, or it is counted by the processor
\* under exactly one heading, and every processed trade is on the tape.
PayloadsAccounted ==
  /\ delivered = TradesIn(wire) + proc.received + proc.malformed + proc.markers
  /\ CountsInv

\* The rows of some batches together.
RowsIn(batches) == FoldLeft(Plus, NoRows, batches)

\* storage/analytics.rs:236-290: every row the engine derives is at any time in exactly one place: in
\* the channel, in the worker's buffers, in the database or lost with its insert.
RowsAccounted ==
  \A t \in Tables :
    submitted[t] = RowsIn(channel)[t] + pending[t] + stored[t] + lost[t]

\* main.rs:980-1018: once the sink has been joined, nothing waits any more, and the profile in the
\* database (unless its insert failed) adds up the trades that the engine had processed.  The
\* trades still in event_rx (taken < Len(tape)) are in nobody's profile.
ClosedIsComplete ==
  main = "done" =>
    /\ channel = <<>> /\ pending = NoRows
    /\ stored["profile"] + lost["profile"] = taken
    /\ stored["profile"] \in {0, taken}

\* Why: the worker returns behind the sender that was dropped, with nothing left to it, and the
\* profile travels whole, in one batch.
ProfileInv ==
  /\ main \in {"running", "closing"} => submitted["profile"] = 0 /\ worker = "receiving"
  /\ main \in {"joining", "done"} => submitted["profile"] = taken
  /\ main = "done" => worker = "returned"
  /\ worker = "returned" => channel = <<>> /\ pending = NoRows
  /\ \A batch \in Range(channel) \cup {pending, stored, lost} :
       batch["profile"] \in {0, submitted["profile"]}

CInv == IInv /\ PayloadsAccounted /\ RowsAccounted /\ ProfileInv

-----------------------------------------------------------------------------
(* Progress. *)

\* Every processed trade reaches the analytics engine, unless the program is stopped first.
TradesAreAnalysed == \A n \in 1..MaxPayloads : Len(tape) >= n ~> taken >= n \/ main # "running"

\* main.rs:1014-1018: the join at shutdown returns, because the sender is dropped before it and
\* the worker ends with its final flush.
ShutdownEnds == main = "closing" ~> main = "done"
=============================================================================
