--------------------------- MODULE MCOrderLogger ---------------------------
(* OrderLogger, whose threads and orders are interchangeable. *)
EXTENDS OrderLogger, TLC

ThreadOrderSymmetry == Permutations(Threads) \cup Permutations(Orders)
=============================================================================
