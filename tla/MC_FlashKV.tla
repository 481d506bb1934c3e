----------------------------- MODULE MC_FlashKV -----------------------------
(***************************************************************************)
(* FlashKV instantiated for TLC: a partition of 3 blocks of 3 pages (a    *)
(* header and two records per block, HASH_SIZE 6), metadata of one page,   *)
(* two keys that share a hash bucket chain, two values.  The thresholds   *)
(* of gc() and gc_check() are scaled to the block size.                   *)
(***************************************************************************)
EXTENDS FlashKV, TLC

CONSTANTS k1, k2, v1, v2, vbig, t1, t2

MC_Keys == {k1, k2}
MC_Keys1 == {k1}
MC_Vals == {v1}
MC_Threads1 == {t1}
MC_Threads2 == {t1, t2}
MC_HashOf == k1 :> 0 @@ k2 :> 0
=============================================================================
