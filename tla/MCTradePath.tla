---------------------------- MODULE MCTradePath -----------------------------
(* Instances of TradePath for TLC. *)
EXTENDS TradePathInv
=============================================================================
