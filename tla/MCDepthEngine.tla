--------------------------- MODULE MCDepthEngine ----------------------------
(* Instances of DepthEngine for TLC: a venue with two levels. *)
EXTENDS DepthEngineInv, TLC

CONSTANTS l1, l2   \* model values

\* The level update n writes and its new quantity: both levels change twice, one is removed.
MCLevels == {l1, l2}
MCWrites == <<[level |-> l1, qty |-> 1], [level |-> l2, qty |-> 2],
              [level |-> l1, qty |-> 0], [level |-> l2, qty |-> 4]>>

MCTouched == [n \in 1..MaxId |-> {MCWrites[n].level}]

MCBookAt ==
  LET at[n \in 0..MaxId] ==
        IF n = 0 THEN [l \in MCLevels |-> 0]
                 ELSE [at[n - 1] EXCEPT ![MCWrites[n].level] = MCWrites[n].qty]
  IN  at

Symmetric == Permutations(Task)
=============================================================================
