-------------------------- MODULE MCMatchingEngine --------------------------
(* MatchingEngine on small sets.  Numbers cannot be model values, so the
   prices and quantities of the runs are named here.  A REJECTED order has
   quantity 0, and stod takes a sign. *)
EXTENDS MatchingEngine

MCPrices == {1, 2}

MCQuantities == {1, 2}

ZeroOrOne == {0, 1}

Negative == {-1, 1, 2}
=============================================================================
