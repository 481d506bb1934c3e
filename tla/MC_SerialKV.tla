----------------------------- MODULE MC_SerialKV -----------------------------
(***************************************************************************)
(* SerialKV instantiated for TLC: 3 blocks of 3 pages (HASH_SIZE 9), one   *)
(* metadata page (so one metadata block), two keys with one hash bucket.  *)
(***************************************************************************)
EXTENDS SerialKV, TLC

CONSTANTS k1, k2, v1, v2, vbig

MC_Keys == {k1, k2}
MC_Keys1 == {k1}
MC_HashOf == k1 :> 0 @@ k2 :> 0
\* k1 and k2 share their hash, so exchanging them maps behaviours to behaviours.
MC_Symmetry == Permutations(MC_Keys)
=============================================================================
