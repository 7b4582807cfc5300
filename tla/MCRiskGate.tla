------------------------------ MODULE MCRiskGate ------------------------------
(* RiskGate with two traders, buying and selling orders as large as the    *)
(* size limit, one token, and a clock that reads 2 to 4 with a refill      *)
(* period of 1.                                                            *)
EXTENDS RiskGate, TLC

MCPrices == {100}
MCFeedPrices == {100, 120, -100}
MCQtys == {2}

TraderSymmetry == Permutations(Traders)
================================================================================
