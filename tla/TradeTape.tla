----------------------------- MODULE TradeTape ------------------------------
(***************************************************************************)
(* What trade ingestion promises to its readers, the analytics engine and  *)
(* the recorder: a tape of trades, each of them once and in the venue's    *)
(* order, that only grows.                                                 *)
(***************************************************************************)
EXTENDS Integers, Sequences

CONSTANT TradeIds

VARIABLE tape

Init == tape = <<>>

Later(id) == \A i \in 1..Len(tape) : tape[i] < id

Execute == \E id \in TradeIds : Later(id) /\ tape' = Append(tape, id)

Next == Execute

Spec == Init /\ [][Next]_tape
=============================================================================
