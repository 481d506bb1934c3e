------------------------------ MODULE HashIndex ------------------------------
(***************************************************************************)
(* The open-addressing hash table of the key-value engine                 *)
(* (src/p6/prototype-parallel/kernel/hash.c, hash.h).                      *)
(*                                                                         *)
(* The table is an array of HASH_SIZE buckets {p_state, dirty, key,        *)
(* index}.  hash_add probes linearly from hash(key) for the first bucket   *)
(* that is not PG_VALID, marking every PG_VALID bucket it passes dirty.    *)
(* hash_search probes linearly from hash(key) and stops on a PG_VALID      *)
(* bucket holding the key, or on a bucket that is not dirty, or after      *)
(* HASH_SIZE - 1 probes.  The dirty bit is a tombstone: it is cleared only *)
(* by format().                                                            *)
(*                                                                         *)
(* The djb2 string hash is abstracted to the constant function HashOf:     *)
(* keys are names, and the model only needs to know which keys collide.    *)
(*                                                                         *)
(* The operators HashAdd and HashSearch are used by the engine module      *)
(* FlashKV through INSTANCE; the variable table and the actions below let  *)
(* the table be checked on its own, under every sequence of the calls the  *)
(* engine makes on it: the search-invalidate-add of set_keyval, the       *)
(* search-invalidate of del_key, and the table reset of format.           *)
(***************************************************************************)
EXTENDS Integers

CONSTANTS
    Keys,       \* key names a client may use
    HSize,      \* HASH_SIZE: number of buckets
    HashOf,     \* hash(key): [Keys -> 0..HSize-1]
    NoKey,      \* the empty key string of a never-written bucket
    Indices     \* page indices stored in buckets (standalone checking only)

ASSUME HSize \in Nat \ {0}
ASSUME HashOf \in [Keys -> 0..HSize-1]
ASSUME NoKey \notin Keys

VARIABLE table

Slots == 0..HSize-1

Bucket == [p_state : {"PG_FREE", "PG_VALID"}, dirty : {0, 1},
           key : Keys \cup {NoKey}, index : Int]

\* BUCKET_INIT / the loop of init_config: every bucket free, clean, empty.
EmptyTable == [s \in Slots |-> [p_state |-> "PG_FREE", dirty |-> 0,
                                key |-> NoKey, index |-> -1]]

Valid(t, s) == t[s].p_state = "PG_VALID"

Next1(s) == (s + 1) % HSize

(***************************************************************************)
(* hash_add(hashtable, key, index).  Returns the new table and ret: the    *)
(* bucket used, or -1 when HASH_SIZE buckets were probed without finding   *)
(* one that is not PG_VALID.  The dirty marks made while probing stay in   *)
(* the table in both cases.                                                *)
(***************************************************************************)
\* Mutants of AddProbe, each a plausible slip in hash_add's probe loop:
\* the dirty mark written as a counter, the mark dropped, and the loop
\* bound one short.
RECURSIVE AddProbeDirtyCount(_, _, _, _, _)
AddProbeDirtyCount(t, key, index, h, count) ==
    IF Valid(t, h)
    THEN LET t2 == [t EXCEPT ![h].dirty = @ + 1] IN
         IF count = HSize - 1 THEN [table |-> t2, ret |-> -1]
         ELSE AddProbeDirtyCount(t2, key, index, Next1(h), count + 1)
    ELSE [table |-> [t EXCEPT ![h].p_state = "PG_VALID", ![h].key = key,
                              ![h].index = index], ret |-> h]

RECURSIVE AddProbeNoMark(_, _, _, _, _)
AddProbeNoMark(t, key, index, h, count) ==
    IF Valid(t, h)
    THEN IF count = HSize - 1 THEN [table |-> t, ret |-> -1]
         ELSE AddProbeNoMark(t, key, index, Next1(h), count + 1)
    ELSE [table |-> [t EXCEPT ![h].p_state = "PG_VALID", ![h].key = key,
                              ![h].index = index], ret |-> h]

RECURSIVE AddProbeShort(_, _, _, _, _)
AddProbeShort(t, key, index, h, count) ==
    IF Valid(t, h)
    THEN LET t2 == [t EXCEPT ![h].dirty = 1] IN
         IF count = HSize - 2 THEN [table |-> t2, ret |-> -1]
         ELSE AddProbeShort(t2, key, index, Next1(h), count + 1)
    ELSE [table |-> [t EXCEPT ![h].p_state = "PG_VALID", ![h].key = key,
                              ![h].index = index], ret |-> h]

RECURSIVE AddProbe(_, _, _, _, _)
AddProbe(t, key, index, h, count) ==
    IF Valid(t, h)
    THEN LET t2 == [t EXCEPT ![h].dirty = 1] IN
         IF count = HSize - 1
         THEN [table |-> t2, ret |-> -1]
         ELSE AddProbe(t2, key, index, Next1(h), count + 1)
    ELSE [table |-> [t EXCEPT ![h].p_state = "PG_VALID", ![h].key = key,
                              ![h].index = index],
          ret |-> h]

HashAdd(t, key, index) == AddProbe(t, key, index, HashOf[key], 0)

(***************************************************************************)
(* hash_search(hashtable, key).  Returns the bucket holding key, -2 when   *)
(* a bucket that was never probed past (dirty = 0) is reached, and -1      *)
(* after HASH_SIZE - 1 probes.                                             *)
(***************************************************************************)
RECURSIVE SearchProbe(_, _, _, _)
SearchProbe(t, key, h, counter) ==
    IF counter = HSize - 1 THEN -1
    ELSE IF Valid(t, h) /\ t[h].key = key THEN h
    ELSE IF t[h].dirty = 0 THEN -2
    ELSE SearchProbe(t, key, Next1(h), counter + 1)

HashSearch(t, key) == SearchProbe(t, key, HashOf[key], 0)

\* The bucket part of invalid_pg(hash_idx) in core.c.
InvalidBucket(t, s) == [t EXCEPT ![s].p_state = "PG_FREE"]

\* The hashtable loop of format() in core.c: key and index are left as
\* they were.
ResetTable(t) == [s \in Slots |-> [t[s] EXCEPT !.p_state = "PG_FREE",
                                                !.dirty = 0]]

-----------------------------------------------------------------------------
(***************************************************************************)
(* The table on its own: any sequence of the calls the engine makes.       *)
(***************************************************************************)
Init == table = EmptyTable

\* The index part of set_keyval: hash_search for the key, invalid_pg on the
\* bucket found, then hash_add of the key at the new page index.
Insert(k, i) ==
    LET s  == HashSearch(table, k)
        t1 == IF s >= 0 THEN InvalidBucket(table, s) ELSE table
    IN  table' = HashAdd(t1, k, i).table

\* The index part of del_key: hash_search, then invalid_pg on the bucket.
Remove(k) ==
    LET s == HashSearch(table, k) IN
    /\ s >= 0
    /\ table' = InvalidBucket(table, s)

\* format()
Reset == table' = ResetTable(table)

Next ==
    \/ \E k \in Keys, i \in Indices : Insert(k, i)
    \/ \E k \in Keys : Remove(k)
    \/ Reset

Spec == Init /\ [][Next]_table

-----------------------------------------------------------------------------
(***************************************************************************)
(* Reference definitions: what the probing is meant to compute.            *)
(***************************************************************************)
\* Distance of bucket s along the probe sequence that starts at h.
Dist(h, s) == (s - h) % HSize

\* The buckets a probe from HashOf[k] passes before it reaches s.
Before(k, s) == {x \in Slots : Dist(HashOf[k], x) < Dist(HashOf[k], s)}

\* The first bucket on k's probe sequence satisfying P, or -1.
FirstOnProbe(k, P(_)) ==
    LET c == {s \in Slots : P(s)} IN
    IF c = {} THEN -1
    ELSE CHOOSE s \in c : \A x \in c : Dist(HashOf[k], s) <= Dist(HashOf[k], x)

RefAddSlot(t, k) == FirstOnProbe(k, LAMBDA s : ~Valid(t, s))

RefSearch(t, k) == FirstOnProbe(k, LAMBDA s : Valid(t, s) /\ t[s].key = k)

TypeOK == table \in [Slots -> Bucket]

(***************************************************************************)
(* Tombstone chain: every bucket that a probe for a valid key passes       *)
(* before reaching it is dirty.  This is what makes the early exit of      *)
(* hash_search on a clean bucket sound; it rests on hash_add marking every *)
(* occupied bucket it passes and on no path but format() clearing dirty.   *)
(***************************************************************************)
TombstoneChain ==
    \A s \in Slots : Valid(table, s) =>
        \A x \in Before(table[s].key, s) : table[x].dirty = 1

(***************************************************************************)
(* hash_add agrees with its reference: for every key it uses the first     *)
(* non-valid bucket on the probe sequence, and fails only when every       *)
(* bucket is valid.                                                        *)
(***************************************************************************)
AddMatchesReference ==
    \A k \in Keys : \A i \in Indices :
        HashAdd(table, k, i).ret = RefAddSlot(table, k)

(***************************************************************************)
(* hash_search finds every valid key: it returns the first valid bucket    *)
(* holding the key, and a negative value only when no valid bucket holds   *)
(* it.  set_keyval, del_key, get_keyval and gc all rely on this.           *)
(***************************************************************************)
SearchMatchesReference ==
    \A k \in Keys :
        LET r == HashSearch(table, k) IN
        IF RefSearch(table, k) = -1 THEN r < 0 ELSE r = RefSearch(table, k)

=============================================================================
