--------------------------- MODULE MC_MetaScan ---------------------------
(* Model-checking instances of MetaScan.                                  *)
EXTENDS MetaScan

\* Block 1 holds data, the others are free.
MC_Data1 == {1}
\* Only one free block besides the data: no spare for a second flush.
MC_Data2 == {0, 1}
=============================================================================
