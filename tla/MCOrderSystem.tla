--------------------------- MODULE MCOrderSystem ----------------------------
(* OrderSystem with the constants of the TLC runs.                         *)
EXTENDS OrderRefinement, TLC

CONSTANTS r1, r2, s1, s2

Handler1 == {r1}
Handlers2 == {r1, r2}
OneStore == {s1}
TwoStores == {s1, s2}

MCSymmetry == Permutations(Req) \cup Permutations(Stores)
=============================================================================
