------------------------ MODULE MC_LotterySchedLog ------------------------
(* Model-checking instance of LotterySchedLog: CPUs and tasks are model     *)
(* values in the .cfg file.                                                 *)
EXTENDS LotterySchedLog

CONSTANTS c1, c2, t1, t2

MC_CPUs1 == {c1}
MC_CPUs2 == {c1, c2}
MC_Tasks == {t1, t2}
MC_Tickets == {1, 2}
=============================================================================
