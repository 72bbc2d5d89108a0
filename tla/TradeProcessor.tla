--------------------------- MODULE TradeProcessor ---------------------------
(***************************************************************************)
(* Trade ingestion, trades/processor.rs and trades/normalizer.rs: which of *)
(* the payloads of the trade stream become trades, and each of them once.  *)
(* The aggressor counts and the last trade are only displayed.             *)
(***************************************************************************)
EXTENDS Integers, Sequences, Functions

CONSTANTS Window,    \* DUPLICATE_WINDOW
          TradeIds   \* external: the venue's trade ids

\* processor.rs:86 lets an id through that equals the last one: the window must hold it.
ASSUME ProcessorAssumption == Window \in Nat \ {0} /\ TradeIds \subseteq Nat \ {0}

NoTrade == 0   \* last_trade_id = None

\* What normalize_trade makes of a payload: a trade, a synthetic marker, or a number that does not parse.
Valid(id) == [form |-> "valid", id |-> id]
Payloads == {Valid(id) : id \in TradeIds} \cup [form : {"marker", "malformed"}, id : {NoTrade}]

Windows == {s \in Seq(TradeIds) : Len(s) <= Window}

Processors ==
  [last : TradeIds \cup {NoTrade}, recent : Windows,
   received : Nat, processed : Nat, duplicates : Nat, stale : Nat,
   malformed : Nat, markers : Nat, reconnects : Nat]

NewProcessor ==
  [last |-> NoTrade, recent |-> <<>>, received |-> 0, processed |-> 0, duplicates |-> 0,
   stale |-> 0, malformed |-> 0, markers |-> 0, reconnects |-> 0]

NeverDuplicate(p, id) == FALSE   \* mutant: no test for duplicates
NeverStale(p, id) == FALSE       \* mutant: no test of the order

Duplicate(p, id) == id \in Range(p.recent)
Stale(p, id) == p.last # NoTrade /\ id < p.last
Processed(p, id) == ~Duplicate(p, id) /\ ~Stale(p, id)

\* Mutant: nothing leaves the window.
RememberAll(recent, id) == Append(recent, id)

\* push_back, then pop_front once the window is full.
Remember(recent, id) ==
  IF Len(recent) < Window THEN Append(recent, id) ELSE Append(Tail(recent), id)

CountReceived(p) == [p EXCEPT !.received = @ + 1]
CountDuplicate(p) == [p EXCEPT !.duplicates = @ + 1]
CountStale(p) == [p EXCEPT !.stale = @ + 1]
Accept(p, id) == [p EXCEPT !.last = id, !.recent = Remember(@, id), !.processed = @ + 1]

\* Mutant: a stale trade returns before anything is counted.
ProcessStaleUncounted(p, id) ==
  CASE Duplicate(p, id) -> CountDuplicate(CountReceived(p))
    [] ~Duplicate(p, id) /\ Stale(p, id) -> p
    [] Processed(p, id) -> Accept(CountReceived(p), id)

Process(p, id) ==
  CASE Duplicate(p, id) -> CountDuplicate(CountReceived(p))
    [] ~Duplicate(p, id) /\ Stale(p, id) -> CountStale(CountReceived(p))
    [] Processed(p, id) -> Accept(CountReceived(p), id)

OnTradeReconnect(p) == [p EXCEPT !.reconnects = @ + 1]
RecordMalformed(p) == [p EXCEPT !.malformed = @ + 1]
RecordMarkerRejected(p) == [p EXCEPT !.markers = @ + 1]
=============================================================================
