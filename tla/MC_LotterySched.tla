------------------------- MODULE MC_LotterySched -------------------------
(* Model-checking instance of LotterySched: the CPU and task sets are     *)
(* model values in the .cfg files.                                         *)
EXTENDS LotterySched

CONSTANTS c1, c2, t1, t2

MC_CPUs1 == {c1}
MC_CPUs2 == {c1, c2}
MC_Tasks == {t1, t2}
MC_Tickets == {1, 2}
=============================================================================
