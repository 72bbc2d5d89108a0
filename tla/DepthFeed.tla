----------------------------- MODULE DepthFeed ------------------------------
(***************************************************************************)
(* What the depth engine promises to a reader of its book: either there is *)
(* no live book, or the live book is the venue's book at some update id,   *)
(* and that id only grows until the book is withdrawn.                     *)
(***************************************************************************)
EXTENDS Exchange

VARIABLE view   \* the live book as a reader sees it

NoView == [live |-> FALSE]

View(id) == [live |-> TRUE, id |-> id, levels |-> BookAt[id]]

Init == view = NoView

Publish == view = NoView /\ \E id \in Ids : view' = View(id)

Advance == view.live /\ \E id \in view.id + 1 .. MaxId : view' = View(id)

Withdraw == view.live /\ view' = NoView

Next == Publish \/ Advance \/ Withdraw

Spec == Init /\ [][Next]_view
=============================================================================
