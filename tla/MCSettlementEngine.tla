------------------------- MODULE MCSettlementEngine -------------------------
(* SettlementEngine on small sets of amounts. *)
EXTENDS SettlementEngine, TLC

MCPrices == {-1, 1, 2}

PositivePrices == {2}

SettlePrices == {-1, 2}

MCQuantities == {1}

TraderSymmetry == Permutations(Threads) \cup Permutations(Traders)
=============================================================================
