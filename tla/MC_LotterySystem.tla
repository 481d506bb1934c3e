------------------------- MODULE MC_LotterySystem -------------------------
(* Model-checking instance of LotterySystem with four children.          *)
EXTENDS LotterySystem

CONSTANTS k1, k2, k3, k4

MC_Children == {k1, k2, k3, k4}
MC_Children3 == {k1, k2, k3}
=============================================================================
