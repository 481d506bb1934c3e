---------------------------- MODULE MC_HashIndex ----------------------------
(***************************************************************************)
(* Model-checking instance of HashIndex: three buckets and three keys that *)
(* all hash to the same bucket, so that every insertion probes, probes     *)
(* wrap around, and the table can fill.                                    *)
(***************************************************************************)
EXTENDS HashIndex, TLC

CONSTANTS k1, k2, k3

MC_Keys == {k1, k2, k3}
MC_HSize == 3
MC_HashOf == (k1 :> 0 @@ k2 :> 0 @@ k3 :> 0)
MC_Indices == {0, 1}
=============================================================================
