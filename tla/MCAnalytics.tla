---------------------------- MODULE MCAnalytics -----------------------------
EXTENDS AnalyticsInv

MCKey(side, price) == <<side, price>>
MCWrite(side, price, qty) == [key |-> <<side, price>>, qty |-> qty]
MCTrade(step, aggressor, price, qty) ==
  [step |-> step, aggressor |-> aggressor, price |-> price, qty |-> qty]
MCUpdate(step, writes) == [step |-> step, writes |-> writes]

\* Books of snapshots: one bid and one ask, and one that is crossed.
MCBook(bid, ask) ==
  [k \in Keys |-> IF k \in {<<"Bid", bid>>, <<"Ask", ask>>} THEN 2 ELSE 0]

\* Trades alone, in time and late: flow, clusters and sweeps.
MCTrades ==
  [length |-> 6, updates |-> {}, snapshots |-> {}, signals |-> {"stop"},
   trades |-> {MCTrade(1, "Buy", 1, 1), MCTrade(0, "Buy", 2, 2), MCTrade(0, "Sell", 1, 2),
               MCTrade(3, "Buy", 2, 1), MCTrade(-1, "Sell", 2, 1)}]

\* Trades against a book that moves: absorption.
MCFlow ==
  [length |-> 6, snapshots |-> {MCBook(1, 2)}, signals |-> {},
   trades |-> {MCTrade(1, "Buy", 2, 2), MCTrade(3, "Sell", 2, 1)},
   updates |-> {MCUpdate(1, <<MCWrite("Bid", 2, 1), MCWrite("Ask", 2, 0), MCWrite("Ask", 3, 1)>>)}]

\* A book that grows, shrinks, crosses and is lost.
MCDepth ==
  [length |-> 6, trades |-> {}, snapshots |-> {MCBook(1, 2), MCBook(2, 1)},
   signals |-> {"synchronized", "resync", "lost"},
   updates |-> {MCUpdate(1, <<MCWrite("Bid", 1, 1)>>), MCUpdate(1, <<MCWrite("Bid", 1, 3)>>),
                MCUpdate(3, <<MCWrite("Bid", 2, 1), MCWrite("Ask", 2, 0)>>),
                MCUpdate(0, <<MCWrite("Ask", 2, 1)>>)}]

\* Frames of a book that moves and trades that age.
MCFrames ==
  [length |-> 6, snapshots |-> {}, signals |-> {"frame"},
   trades |-> {MCTrade(1, "Buy", 2, 2), MCTrade(3, "Sell", 1, 1)},
   updates |-> {MCUpdate(3, <<MCWrite("Bid", 1, 1), MCWrite("Ask", 3, 1)>>),
                MCUpdate(3, <<MCWrite("Bid", 1, 0)>>)}]

MCScenarios == {MCTrades, MCFlow, MCDepth, MCFrames}
=============================================================================
