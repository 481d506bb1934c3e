-------------------------- MODULE MC_LotteryLog --------------------------
(* Model-checking instance of LotteryLog: CPUs are model values.          *)
EXTENDS LotteryLog

CONSTANTS c1, c2

MC_CPUs1 == {c1}
MC_CPUs2 == {c1, c2}
=============================================================================
