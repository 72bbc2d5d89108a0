--------------------------- MODULE MCReplayServer ---------------------------
(* Instances of ReplayServer for TLC: a venue with two levels. *)
EXTENDS ReplayServerInv

CONSTANTS l1, l2, c1, c2   \* model values

\* Update 2 writes nothing: a depth event that carries only it is stored in no row.
MCLevels == {l1, l2}
MCTouched == <<{l1}, {}, {l2}, {l1}>>
MCBookAt ==
  [n \in 0..4 |->
     [l \in MCLevels |-> IF l = l1 THEN <<0, 1, 1, 1, 2>>[n + 1] ELSE <<0, 0, 0, 3, 3>>[n + 1]]]

MCClient == {c1, c2}
MCServedEvents == {Trade(1)}
=============================================================================
