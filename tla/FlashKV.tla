------------------------------- MODULE FlashKV -------------------------------
(***************************************************************************)
(* The log-structured key-value engine on a raw NAND partition             *)
(* (src/p6/prototype-parallel/kernel/core.c).                              *)
(*                                                                         *)
(* State, as in core.c:                                                    *)
(*   device        the flash pages (the MTD partition behind config.mtd)   *)
(*   blocks        meta_config.blocks[]: state, worn, nb_invalid,          *)
(*                 current_page_offset of every block                      *)
(*   hashtable     the bucket array of hash.c                              *)
(*   lists         each block's valid-page list (list_head threaded        *)
(*                 through the buckets; list_add inserts at the head)      *)
(*   read_only     config.read_only                                        *)
(*   meta_blkordr  the blocks holding the current metadata generation      *)
(*   erase_lock    the spinlock serialising set/get/del/format/gc/flush    *)
(*   is_gb         the atomic flag tested by gc()                         *)
(*   write_cnt     the static counter of gc_check()                        *)
(*   recent_update meta_config.recent_update                               *)
(*   pc            where each client thread is in set_keyval              *)
(*   cnt           cnt[t]: the value of write_cnt thread t loaded         *)
(*   bug           a BUG(), or an oops on an out-of-bounds index or a     *)
(*                 poisoned list entry; the engine stops there            *)
(*   reply         history: the last reply a client call returned        *)
(*   unflushed     history: a set_keyval returned since the last flush    *)
(*   counted       history: gc_check counts since one decided a flush     *)
(*                                                                         *)
(* Every handler runs with erase_lock held (taken with spin_lock, or with  *)
(* spin_trylock by gc() and flush_metadata()), so each is one atomic      *)
(* action; what runs outside the lock (the gc_check() tail of set_keyval,  *)
(* the spinning of a forced flush) is a separate step of the thread.       *)
(*                                                                         *)
(* Data are abstracted to names: a page holds an erased image, the all-   *)
(* zero data-block header, a metadata header or page, a record <<k, v>>,  *)
(* or garbage.  Programming a page that is not erased ANDs the two images *)
(* (NAND can only clear bits), which is modelled by Program.              *)
(***************************************************************************)
EXTENDS Integers, Sequences, FiniteSets

CONSTANTS
    NB,             \* config.nb_blocks
    PPB,            \* config.pages_per_block
    NMetaPages,     \* metadata_size / page_size (nb_pages of flush_metadata)
    Keys,           \* keys clients use
    Vals,           \* values that fit in a page
    Oversized,      \* values too big for a page (a set, possibly empty)
    HashOf,         \* hash(key) % HASH_SIZE
    Threads,        \* client threads calling through the device node
    NoKey, NoVal, None,
    Mangled,        \* the value bytes of two records of one key ANDed
    INVALID_THRESHOLD,   \* gc(): nb_invalid that makes a block a target
    INVALID_THRESHOLD2,  \* gc_check(): nb_invalid that triggers gc()
    FLUSH_THRESHOLD2,    \* gc_check(): writes between forced flushes
    GC_MIN_PPB,          \* gc() returns at once if pages_per_block < this (64)
    MaxWorn              \* model bound: no erase makes worn exceed this

ASSUME NB \in Nat \ {0} /\ PPB \in Nat /\ PPB >= 2
ASSUME NMetaPages \in Nat \ {0}
ASSUME MaxWorn \in Nat \ {0}

HSize == (PPB - 1) * NB          \* HASH_SIZE in init_config
Pages == 0..(NB * PPB - 1)
Blocks == 0..(NB - 1)
Slots == 0..(HSize - 1)
RESERVED_PG_CNT == 1

\* nb_blocks of flush_metadata() and is_read_only()
NMetaBlk == NMetaPages \div PPB + 1
\* nb_blocks of get_healthy_block() and gc(): computed from nb_pages + 1
NMetaBlkH == (NMetaPages + 1) \div PPB + 1
MetaDom == 0..(NMetaBlkH - 1)

VARIABLES device, blocks, hashtable, lists, read_only, meta_blkordr, is_gb,
          bug, erase_lock, write_cnt, recent_update, pc, cnt, reply,
          unflushed, counted

vars == <<device, blocks, hashtable, lists, read_only, meta_blkordr, is_gb,
          bug, erase_lock, write_cnt, recent_update, pc, cnt, reply,
          unflushed, counted>>

HI == INSTANCE HashIndex WITH table <- hashtable, Indices <- {}

-----------------------------------------------------------------------------
(* Page images *)
Img(kind, k, v, part) == [kind |-> kind, key |-> k, val |-> v, part |-> part]
Erased      == Img("erased", NoKey, NoVal, 0)
ZeroPage    == Img("zero", NoKey, NoVal, 0)      \* kzalloc'd data header
Garbage     == Img("garbage", NoKey, NoVal, 0)
MetaHdr(j)  == Img("mhdr", NoKey, NoVal, j)      \* META_HDR_BASE + j
MetaPg(i)   == Img("meta", NoKey, NoVal, i)      \* i-th metadata page
Rec(k, v)   == Img("rec", k, v, 0)               \* key_len,val_len,key,val
Content == {Erased, ZeroPage, Garbage} \cup {MetaHdr(j) : j \in 0..NMetaPages}
           \cup {MetaPg(i) : i \in 0..NMetaPages} \cup {Rec(k, v) : k \in Keys, v \in Vals \cup {Mangled}}

\* NAND programming of a page that already holds an image ANDs the bits.
Program(old, new) ==
    IF old = Erased THEN new
    ELSE IF old = ZeroPage \/ new = ZeroPage THEN ZeroPage
    ELSE IF old.kind = "rec" /\ new.kind = "rec" /\ old.key = new.key
    THEN IF old.val = new.val THEN old ELSE Rec(old.key, Mangled)
    ELSE Garbage

BlockOf(p) == p \div PPB

(* The engine state that handlers read and write, as one record, so that a *)
(* handler can be written as the sequence of calls the C code makes.       *)
St == [device |-> device, blocks |-> blocks, ht |-> hashtable, lists |-> lists,
       ro |-> read_only, meta |-> meta_blkordr, bug |-> bug]

Commit(s) ==
    /\ device' = s.device
    /\ blocks' = s.blocks
    /\ hashtable' = s.ht
    /\ lists' = s.lists
    /\ read_only' = s.ro
    /\ meta_blkordr' = s.meta
    /\ bug' = s.bug

\* Calls after a BUG() do not happen.
Then(s, F(_)) == IF s.bug = "none" THEN F(s) ELSE s

Oops(s, why) == [s EXCEPT !.bug = why]

MetaAt(m, j) == IF j \in DOMAIN m THEN m[j] ELSE -1

MetaSet(m, n) == {MetaAt(m, j) : j \in 0..(n - 1)}

\* The lowest-indexed block of c with the least worn count (strict < scans).
LeastWorn(bl, c) ==
    CHOOSE b \in c : \A x \in c : \/ bl[b].worn < bl[x].worn
                                  \/ bl[b].worn = bl[x].worn /\ b <= x

-----------------------------------------------------------------------------
(* is_read_only() *)
IsReadOnly(bl) ==
    Cardinality({b \in Blocks : bl[b].offset >= PPB}) >= NB - (NMetaBlk - 1)

\* Mutant of WritePage: current_page_offset not advanced.
WritePageNoAdvance(s, p, img) ==
    IF s.ro = 1 THEN [st |-> s, ret |-> -1]
    ELSE IF p \notin Pages
    THEN [st |-> Oops(s, "write_page: mtd _write error"), ret |-> -2]
    ELSE LET s1 == [s EXCEPT !.device[p] = Program(@, img)]
         IN IF IsReadOnly(s1.blocks) THEN [st |-> [s1 EXCEPT !.ro = 1], ret |-> -1]
            ELSE [st |-> s1, ret |-> 0]

(* write_page(page_index, buf): returns [st, ret] *)
WritePage(s, p, img) ==
    IF s.ro = 1 THEN [st |-> s, ret |-> -1]
    ELSE IF p \notin Pages
    THEN [st |-> Oops(s, "write_page: mtd _write error"), ret |-> -2]
    ELSE LET bl == [s.blocks EXCEPT ![BlockOf(p)].offset = @ + 1]
             s1 == [s EXCEPT !.device[p] = Program(@, img), !.blocks = bl]
         IN IF IsReadOnly(bl) THEN [st |-> [s1 EXCEPT !.ro = 1], ret |-> -1]
            ELSE [st |-> s1, ret |-> 0]

(* write_hdr(pg_idx, data, meta_blk_num) *)
WriteHdr(s, p, isMeta, j) ==
    LET w == WritePage(s, p, IF isMeta THEN MetaHdr(j) ELSE ZeroPage) IN
    [st |-> Then(w.st, LAMBDA x :
                 IF BlockOf(p) \in Blocks
                 THEN [x EXCEPT !.blocks[BlockOf(p)].state = "BLK_USED"]
                 ELSE Oops(x, "write_hdr: blocks[-n] out of bounds")),
     ret |-> w.ret]

\* Mutants of InvalidPg: the tombstone cleared with the bucket, and the
\* list_del left out.
InvalidPgClearsDirty(s, h) ==
    IF h < 0 THEN Oops(s, "invalid_pg: hashtable[-n] out of bounds")
    ELSE IF \A b \in Blocks : \A i \in 1..Len(s.lists[b]) : s.lists[b][i] # h
    THEN Oops(s, "invalid_pg: list_del of a poisoned entry")
    ELSE [s EXCEPT !.ht[h].p_state = "PG_FREE", !.ht[h].dirty = 0,
                   !.blocks[BlockOf(s.ht[h].index)].nb_invalid = @ + 1,
                   !.lists = [b \in Blocks |-> SelectSeq(@[b], LAMBDA x : x # h)]]

InvalidPgKeepsLink(s, h) ==
    IF h < 0 THEN Oops(s, "invalid_pg: hashtable[-n] out of bounds")
    ELSE [s EXCEPT !.ht[h].p_state = "PG_FREE",
                   !.blocks[BlockOf(s.ht[h].index)].nb_invalid = @ + 1]

(* invalid_pg(hash_idx) *)
InvalidPg(s, h) ==
    IF h < 0 THEN Oops(s, "invalid_pg: hashtable[-n] out of bounds")
    ELSE IF \A b \in Blocks : \A i \in 1..Len(s.lists[b]) : s.lists[b][i] # h
    THEN Oops(s, "invalid_pg: list_del of a poisoned entry")
    ELSE [s EXCEPT !.ht[h].p_state = "PG_FREE",
                   !.blocks[BlockOf(s.ht[h].index)].nb_invalid = @ + 1,
                   !.lists = [b \in Blocks |-> SelectSeq(@[b], LAMBDA x : x # h)]]

(* get_healthy_block() *)
GetHealthyBlock(s) ==
    LET c == {b \in Blocks : b \notin MetaSet(s.meta, NMetaBlkH)
                             /\ s.blocks[b].offset < PPB}
    IN IF c = {} THEN -1 ELSE LeastWorn(s.blocks, c)

(* get_next_block_to_write(): returns [st, ret]; on a block with nothing   *)
(* written yet it returns what write_hdr returned.                         *)
GetNextBlockToWrite(s) ==
    LET tb == GetHealthyBlock(s) IN
    IF tb = -1 THEN [st |-> s, ret |-> -1]
    ELSE LET s1 == [s EXCEPT !.blocks[tb].state = "BLK_USED"] IN
         IF s1.blocks[tb].offset < RESERVED_PG_CNT
         THEN WriteHdr(s1, tb * PPB + s1.blocks[tb].offset, FALSE, 0)
         ELSE [st |-> s1, ret |-> tb]

\* Mutant of FormatSingle: config.read_only not cleared by the erase.
FormatSingleKeepsRo(s, idx) ==
    IF idx < 0 THEN s
    ELSE [s EXCEPT !.device = [p \in Pages |-> IF BlockOf(p) = idx THEN Erased
                                                ELSE @[p]],
                   !.blocks[idx] = [state |-> "BLK_FREE", worn |-> @.worn + 1,
                                    nb_invalid |-> 0, offset |-> 0],
                   !.lists[idx] = <<>>]

(* format_single(idx), for an erase the driver completes *)
FormatSingle(s, idx) ==
    IF idx < 0 THEN s
    ELSE [s EXCEPT !.device = [p \in Pages |-> IF BlockOf(p) = idx THEN Erased
                                                ELSE @[p]],
                   !.blocks[idx] = [state |-> "BLK_FREE", worn |-> @.worn + 1,
                                    nb_invalid |-> 0, offset |-> 0],
                   !.lists[idx] = <<>>,
                   !.ro = 0]


MinOf(c) == CHOOSE x \in c : \A y \in c : x <= y

-----------------------------------------------------------------------------
(***************************************************************************)
(* gc(): garbage collection of one block, with erase_lock held.            *)
(***************************************************************************)
\* The first non-metadata block with at least INVALID_THRESHOLD invalid pages.
GcTarget(s) ==
    LET c == {b \in Blocks : b \notin MetaSet(s.meta, NMetaBlkH)
                             /\ s.blocks[b].nb_invalid >= INVALID_THRESHOLD}
    IN IF c = {} THEN -1 ELSE MinOf(c)

\* MERGE: the least-worn other block with room for the target's valid pages;
\* else the least-worn erased free block; else the target itself.
GcVictim(s, t1) ==
    LET vc == s.blocks[t1].offset - s.blocks[t1].nb_invalid - 1
        m  == {b \in Blocks \ {t1} : b \notin MetaSet(s.meta, NMetaBlkH)
                                     /\ PPB - s.blocks[b].offset > vc}
        f  == {b \in Blocks : s.blocks[b].offset = 0 /\ s.blocks[b].state = "BLK_FREE"}
    IN IF m # {} THEN LeastWorn(s.blocks, m)
       ELSE IF f # {} THEN LeastWorn(s.blocks, f) ELSE t1

(* Step 1: list_for_each_entry_safe over the target's valid list: read the  *)
(* page, hash_search its key, invalid_pg the bucket found, keep the record. *)
RECURSIVE GcWalk(_, _, _, _)
GcWalk(s, t1, rest, recs) ==
    IF rest = <<>> \/ s.bug # "none" THEN [st |-> s, recs |-> recs]
    ELSE LET e  == Head(rest)
             pg == s.ht[e].index
             c  == s.device[pg]
         IN IF BlockOf(pg) # t1 THEN [st |-> s, recs |-> recs]   \* WARN; break
            ELSE IF Len(recs) >= PPB
            THEN [st |-> Oops(s, "gc: key_len[] overflow"), recs |-> recs]
            ELSE IF c.kind # "rec"
            THEN [st |-> Oops(s, "invalid_pg: hashtable[-n] out of bounds"), recs |-> recs]
            ELSE LET h   == HI!HashSearch(s.ht, c.key)
                     s2  == InvalidPg(s, h)
                     nxt == Tail(rest)
                 IN IF s2.bug # "none" THEN [st |-> s2, recs |-> recs]
                    ELSE IF nxt # <<>> /\ Head(nxt) = h
                    THEN [st |-> Oops(s2, "gc: list walk reaches a deleted entry"), recs |-> recs]
                    ELSE GcWalk(s2, t1, SelectSeq(nxt, LAMBDA x : x # h),
                                Append(recs, [key |-> c.key, val |-> c.val]))

\* Mutant: the commented-out alternative, format_single(victim_blk).
GcEraseVictim(s, t1, v) ==
    LET s3 == Then(s, LAMBDA x : FormatSingle(x, v))
        pg == v * PPB + s3.blocks[v].offset
    IN  Then(s3, LAMBDA x : IF pg % PPB = 0 THEN WriteHdr(x, pg, FALSE, 0).st
                            ELSE x)

(* Step 2: erase the target (format_single), then write the victim's data *)
(* header when its offset is at the start of the block.                   *)
GcErase(s, t1, v) ==
    LET s3 == Then(s, LAMBDA x : FormatSingle(x, t1))
        pg == v * PPB + s3.blocks[v].offset
    IN  Then(s3, LAMBDA x : IF pg % PPB = 0 THEN WriteHdr(x, pg, FALSE, 0).st
                            ELSE x)

(* Step 4: the victim is marked BLK_USED under list_lock.                   *)
GcFinish(s, v) == Then(s, LAMBDA x : [x EXCEPT !.blocks[v].state = "BLK_USED"])

(* Step 3: write each kept record at the victim's offset, hash_add it and   *)
(* list_add it to the victim's list; a failed write or add is a BUG().      *)
RECURSIVE GcAppend(_, _, _)
GcAppend(s, v, recs) ==
    IF recs = <<>> \/ s.bug # "none" THEN s
    ELSE LET r  == Head(recs)
             pg == v * PPB + s.blocks[v].offset
             w  == WritePage(s, pg, Rec(r.key, r.val))
             a  == HI!HashAdd(w.st.ht, r.key, pg)
         IN IF w.st.bug # "none" THEN w.st
            ELSE IF w.ret < 0 \/ a.ret < 0
            THEN Oops([w.st EXCEPT !.ht = a.table], "gc: failed to write back, BUG()")
            ELSE GcAppend([w.st EXCEPT !.ht = a.table, !.lists[v] = <<a.ret>> \o @],
                          v, Tail(recs))

GcBody(s) ==
    LET t1 == GcTarget(s) IN
    IF t1 = -1 THEN s
    ELSE LET v  == GcVictim(s, t1)
             s1 == [s EXCEPT !.blocks[v].state = "BLK_USED"]
             W  == GcWalk(s1, t1, s1.lists[t1], <<>>)
         IN GcFinish(GcAppend(GcErase(W.st, t1, v), v, W.recs), v)

(* gc() as called: the test of is_gb (atomic_cmpxchg returns the old value, *)
(* so the call that finds is_gb = 0 sets it and returns), the trylock of    *)
(* erase_lock, the body, and the reset of is_gb.  Returns [st, gb].         *)
\* mutant: the is_gb handshake never arms (compare-and-exchange with the
\* operands swapped), so no timer call ever reaches the body.
GcCallNeverArms(s, gb) ==
    IF PPB < GC_MIN_PPB THEN [st |-> s, gb |-> gb]
    ELSE IF gb = 0 THEN [st |-> s, gb |-> 0]
    ELSE IF erase_lock # None THEN [st |-> s, gb |-> gb]
    ELSE [st |-> GcBody(s), gb |-> 0]

GcCall(s, gb) ==
    IF PPB < GC_MIN_PPB THEN [st |-> s, gb |-> gb]
    ELSE IF gb = 0 THEN [st |-> s, gb |-> 1]
    ELSE IF erase_lock # None THEN [st |-> s, gb |-> gb]
    ELSE [st |-> GcBody(s), gb |-> 0]

\* Model bound: a collection that would erase a block already at MaxWorn
\* does not start.
GcWithinBound(s, gb) ==
    LET t1 == GcTarget(s) IN
    PPB >= GC_MIN_PPB /\ gb = 1 /\ erase_lock = None /\ t1 # -1
        => s.blocks[t1].worn < MaxWorn

-----------------------------------------------------------------------------
(***************************************************************************)
(* flush_metadata(true): write a new metadata generation, with erase_lock  *)
(* held.                                                                   *)
(***************************************************************************)
(* The selection loop over all blocks: a block i that is erased, free and  *)
(* in neither generation makes the least-worn such block after i (or i) a  *)
(* new metadata block, and the old metadata block of the same rank is      *)
(* erased at once.                                                         *)
RECURSIVE FlushSelect(_, _, _, _, _)
FlushSelect(s, pre, cur, enough, i) ==
    IF i >= NB \/ s.bug # "none" THEN [st |-> s, cur |-> cur, enough |-> enough]
    ELSE LET excl == MetaSet(cur, NMetaBlk) \cup MetaSet(pre, NMetaBlk)
             Fresh(b) == s.blocks[b].offset = 0 /\ s.blocks[b].state = "BLK_FREE"
         IN IF i \in excl \/ ~Fresh(i)
            THEN FlushSelect(s, pre, cur, enough, i + 1)
            ELSE LET cand   == {z \in (i + 1)..(NB - 1) : Fresh(z) /\ z \notin excl}
                     winner == IF cand = {} THEN i ELSE LeastWorn(s.blocks, cand)
                     s1     == [s EXCEPT !.blocks[winner].state = "BLK_USED"]
                     s2     == IF MetaAt(pre, enough) # -1
                               THEN FormatSingle(s1, MetaAt(pre, enough)) ELSE s1
                     cur2   == [cur EXCEPT ![enough] = winner]
                 IN IF enough + 1 >= NMetaBlk
                    THEN [st |-> s2, cur |-> cur2, enough |-> enough + 1]
                    ELSE FlushSelect(s2, pre, cur2, enough + 1, i + 1)

(* The while loop: too few fresh blocks, so old metadata blocks are erased *)
(* and reused (meta_blkordr is not updated for them).                      *)
RECURSIVE FlushReuse(_, _, _)
FlushReuse(s, pre, enough) ==
    IF enough >= NMetaBlk \/ s.bug # "none" THEN s
    ELSE LET b == MetaAt(pre, enough) IN
         IF b = -1 THEN Oops(s, "flush_metadata: WRONG CALCULATION, BUG()")
         ELSE IF b < 0 THEN Oops(s, "flush_metadata: blocks[-n] out of bounds")
         ELSE FlushReuse([FormatSingle(s, b) EXCEPT !.blocks[b].state = "BLK_USED"],
                         pre, enough + 1)

MarkMeta(s, cur) ==
    IF \E j \in 0..(NMetaBlk - 1) : cur[j] < 0
    THEN Oops(s, "flush_metadata: blocks[-n] out of bounds")
    ELSE [s EXCEPT !.blocks = [b \in Blocks |->
            IF b \in MetaSet(cur, NMetaBlk) THEN [@[b] EXCEPT !.state = "BLK_USED"]
            ELSE @[b]]]

(* The write loop: page i goes to metadata block i \div (PPB-1), after a   *)
(* header on the first page of each block; a failed page write is a BUG(). *)
RECURSIVE FlushWrite(_, _, _)
FlushWrite(s, cur, i) ==
    IF i >= NMetaPages \/ s.bug # "none" THEN s
    ELSE LET j  == i \div (PPB - 1)
             b  == MetaAt(cur, j)
             s1 == IF i % (PPB - 1) = 0 THEN WriteHdr(s, b * PPB, TRUE, j).st ELSE s
             w  == WritePage(s1, b * PPB + (i % (PPB - 1)) + 1, MetaPg(i))
         IN IF s1.bug # "none" THEN s1
            ELSE IF w.ret # 0 /\ w.st.bug = "none"
            THEN Oops(w.st, "flush_metadata: write_page failed, BUG()")
            ELSE FlushWrite(w.st, cur, i + 1)

FlushBody(s) ==
    LET pre  == s.meta
        cur0 == [j \in MetaDom |-> IF j < NMetaBlk THEN -2 ELSE pre[j]]
        F    == FlushSelect(s, pre, cur0, 0, 0)
        s2   == Then(F.st, LAMBDA x : FlushReuse(x, pre, F.enough))
        s3   == Then(s2, LAMBDA x : MarkMeta(x, F.cur))
        s4   == Then(s3, LAMBDA x : FlushWrite(x, F.cur, 0))
    IN [s4 EXCEPT !.meta = F.cur]

\* Model bound: a flush that would erase an old metadata block already at
\* MaxWorn does not start.
FlushWithinBound(s) ==
    \A j \in 0..(NMetaBlk - 1) : s.meta[j] >= 0 => s.blocks[s.meta[j]].worn < MaxWorn

-----------------------------------------------------------------------------
(***************************************************************************)
(* set_keyval(key, val) from the null-key and size checks on, for a value *)
(* that fits and read_only = 0: search and invalidate the old version, get *)
(* the next block, write the record, hash_add it and list_add its bucket   *)
(* to the head of the target block's list.  Returns [st, ret, held]:       *)
(* held is TRUE when the code returns with erase_lock still taken.        *)
(***************************************************************************)
SetBody(s, k, v) ==
    LET h  == HI!HashSearch(s.ht, k)
        s1 == IF h >= 0 THEN InvalidPg(s, h) ELSE s
        g  == GetNextBlockToWrite(s1)
        tb == g.ret
        idx == tb * PPB + g.st.blocks[tb].offset
        w  == WritePage(g.st, idx, Rec(k, v))
        a  == HI!HashAdd(w.st.ht, k, idx)
    IN IF s1.bug # "none" THEN [st |-> s1, ret |-> 0, held |-> TRUE]
       ELSE IF g.st.bug # "none" THEN [st |-> g.st, ret |-> 0, held |-> TRUE]
       ELSE IF tb = -1 THEN [st |-> g.st, ret |-> -3, held |-> TRUE]
       ELSE IF w.st.bug # "none" THEN [st |-> w.st, ret |-> 0, held |-> TRUE]
       ELSE IF a.ret < 0
       THEN [st |-> Oops([w.st EXCEPT !.ht = a.table],
                         "set_keyval: list_add on hashtable[-1]"),
             ret |-> 0, held |-> TRUE]
       ELSE [st |-> [w.st EXCEPT !.ht = a.table, !.lists[tb] = <<a.ret>> \o @],
             ret |-> IF w.ret = -1 THEN -3 ELSE IF w.ret = -2 THEN -4 ELSE 0,
             held |-> FALSE]

(* get_keyval(key): the value read and the return code. *)
GetResult(s, k) ==
    LET h  == HI!HashSearch(s.ht, k)
        pg == s.ht[h].index
        c  == s.device[pg]
    IN IF h < 0 THEN [val |-> NoVal, ret |-> -1]
       ELSE IF s.blocks[BlockOf(pg)].state # "BLK_USED" THEN [val |-> NoVal, ret |-> -3]
       ELSE IF c.kind = "rec" /\ c.key = k THEN [val |-> c.val, ret |-> pg]
       ELSE [val |-> NoVal, ret |-> -3]

(* format(): erase the whole partition and reset blocks, lists, buckets.   *)
FormatAll(s) ==
    [s EXCEPT !.device = [p \in Pages |-> Erased],
              !.blocks = [b \in Blocks |-> [state |-> "BLK_FREE", worn |-> 0,
                                            nb_invalid |-> 0, offset |-> 0]],
              !.lists  = [b \in Blocks |-> <<>>],
              !.ht     = HI!ResetTable(s.ht),
              !.ro     = 0]

-----------------------------------------------------------------------------
NoReply == [op |-> "none", key |-> NoKey, val |-> NoVal, ret |-> 0]

Init ==
    /\ device = [p \in Pages |-> Erased]
    /\ blocks = [b \in Blocks |-> [state |-> "BLK_FREE", worn |-> 0,
                                   nb_invalid |-> 0, offset |-> 0]]
    /\ hashtable = HI!EmptyTable
    /\ lists = [b \in Blocks |-> <<>>]
    /\ read_only = 0
    /\ meta_blkordr = [j \in MetaDom |-> -1]
    /\ is_gb = 0
    /\ bug = "none"
    /\ erase_lock = None
    /\ write_cnt = 0
    /\ recent_update = 0
    /\ pc = [t \in Threads |-> "idle"]
    /\ cnt = [t \in Threads |-> 0]
    /\ reply = NoReply
    /\ unflushed = FALSE
    /\ counted = 0

\* A client call may start: the thread is idle and takes erase_lock.
CanCall(t) == bug = "none" /\ pc[t] = "idle" /\ erase_lock = None

\* set_keyval with a value too big for a page: returns -1, erase_lock held.
SetTooBig(t, k, v) ==
    /\ CanCall(t) /\ v \in Oversized
    /\ erase_lock' = t
    /\ reply' = [op |-> "set", key |-> k, val |-> v, ret |-> -1]
    /\ UNCHANGED <<device, blocks, hashtable, lists, read_only, meta_blkordr,
                   is_gb, bug, write_cnt, recent_update, pc, unflushed, cnt,
                   counted>>

\* set_keyval in read-only mode: returns -3 and releases erase_lock.
SetReadOnly(t, k, v) ==
    /\ CanCall(t) /\ v \in Vals /\ read_only = 1
    /\ reply' = [op |-> "set", key |-> k, val |-> v, ret |-> -3]
    /\ UNCHANGED <<device, blocks, hashtable, lists, read_only, meta_blkordr,
                   is_gb, bug, erase_lock, write_cnt, recent_update, pc,
                   unflushed, cnt, counted>>

\* set_keyval up to the release of erase_lock; gc_check() follows.
SetKeyval(t, k, v) ==
    /\ CanCall(t) /\ v \in Vals /\ read_only = 0
    /\ LET r == SetBody(St, k, v) IN
       /\ Commit(r.st)
       /\ erase_lock' = IF r.held THEN t ELSE None
       /\ recent_update' = IF r.held THEN recent_update ELSE 1
       /\ pc' = IF r.held THEN pc ELSE [pc EXCEPT ![t] = "gc_check"]
       /\ reply' = [op |-> "set", key |-> k, val |-> v, ret |-> r.ret]
       /\ unflushed' = (unflushed \/ ~r.held)
    /\ UNCHANGED <<is_gb, write_cnt, cnt, counted>>

\* The test of gc_check() that makes the write a forced flush:
\* write_cnt++ >= FLUSH_THRESHOLD2, on the value before the increment.
FlushDueLate(c) == c > FLUSH_THRESHOLD2    \* mutant: off by one

FlushDue(c) == c >= FLUSH_THRESHOLD2

\* gc_check's loop: some block has INVALID_THRESHOLD2 invalid pages.
GcTrigger == \E b \in Blocks : blocks[b].nb_invalid >= INVALID_THRESHOLD2

\* gc_check(), run by the writer after it released erase_lock, up to the
\* load of write_cnt++ (no lock covers the static counter).
GcCheck(t) ==
    /\ bug = "none" /\ pc[t] = "gc_check"
    /\ GcTrigger => GcWithinBound(St, is_gb)
    /\ LET g == IF GcTrigger THEN GcCall(St, is_gb) ELSE [st |-> St, gb |-> is_gb]
       IN Commit(g.st) /\ is_gb' = g.gb
    /\ cnt' = [cnt EXCEPT ![t] = write_cnt]
    /\ pc' = [pc EXCEPT ![t] = "count"]
    /\ UNCHANGED <<erase_lock, write_cnt, recent_update, reply, unflushed,
                   counted>>

\* The store of write_cnt++ and the test of the loaded value.
GcCount(t) ==
    /\ bug = "none" /\ pc[t] = "count"
    /\ write_cnt' = cnt[t] + 1
    /\ counted' = IF FlushDue(cnt[t]) THEN 0 ELSE counted + 1
    /\ pc' = [pc EXCEPT ![t] = IF FlushDue(cnt[t]) THEN "reset" ELSE "idle"]
    /\ UNCHANGED <<device, blocks, hashtable, lists, read_only, meta_blkordr,
                   is_gb, bug, erase_lock, recent_update, cnt, reply,
                   unflushed>>

\* write_cnt = 0, before flush_metadata(true).
GcReset(t) ==
    /\ bug = "none" /\ pc[t] = "reset"
    /\ write_cnt' = 0
    /\ pc' = [pc EXCEPT ![t] = "flush"]
    /\ UNCHANGED <<device, blocks, hashtable, lists, read_only, meta_blkordr,
                   is_gb, bug, erase_lock, recent_update, cnt, reply,
                   unflushed, counted>>

\* flush_metadata(true) from gc_check(): spins on spin_trylock(&erase_lock).
FlushForced(t) ==
    /\ bug = "none" /\ pc[t] = "flush" /\ erase_lock = None
    /\ FlushWithinBound(St)
    /\ Commit(FlushBody(St))
    /\ recent_update' = 0
    /\ pc' = [pc EXCEPT ![t] = "idle"]
    /\ unflushed' = FALSE
    /\ UNCHANGED <<is_gb, erase_lock, write_cnt, reply, cnt, counted>>

GetKeyval(t, k) ==
    /\ CanCall(t)
    /\ LET r == GetResult(St, k) IN
       reply' = [op |-> "get", key |-> k, val |-> r.val, ret |-> r.ret]
    /\ UNCHANGED <<device, blocks, hashtable, lists, read_only, meta_blkordr,
                   is_gb, bug, erase_lock, write_cnt, recent_update, pc,
                   unflushed, cnt, counted>>

DelKey(t, k) ==
    /\ CanCall(t)
    /\ LET h  == HI!HashSearch(hashtable, k)
           pg == hashtable[h].index
           ok == h >= 0 /\ blocks[BlockOf(pg)].state = "BLK_USED"
       IN /\ Commit(IF ok THEN InvalidPg(St, h) ELSE St)
          /\ reply' = [op |-> "del", key |-> k, val |-> NoVal,
                       ret |-> IF ok THEN pg ELSE -1]
    /\ UNCHANGED <<is_gb, erase_lock, write_cnt, recent_update, pc,
                   unflushed, cnt, counted>>

Format(t) ==
    /\ CanCall(t)
    /\ Commit(FormatAll(St))
    /\ reply' = [op |-> "format", key |-> NoKey, val |-> NoVal, ret |-> 0]
    /\ UNCHANGED <<is_gb, erase_lock, write_cnt, recent_update, pc,
                   unflushed, cnt, counted>>

\* wear_timer_callback(): gc()
GcTick ==
    /\ bug = "none"
    /\ GcWithinBound(St, is_gb)
    /\ LET g == GcCall(St, is_gb) IN Commit(g.st) /\ is_gb' = g.gb
    /\ UNCHANGED <<erase_lock, write_cnt, recent_update, pc, reply,
                   unflushed, cnt, counted>>

\* flush_timer_callback(): flush_metadata(false) when recent_update is set;
\* its atomic_cmpxchg on is_flush (always 0) sends it to flush_meta_exit2.
FlushTick ==
    /\ bug = "none" /\ recent_update = 1
    /\ recent_update' = 0
    /\ UNCHANGED <<device, blocks, hashtable, lists, read_only, meta_blkordr,
                   is_gb, bug, erase_lock, write_cnt, pc, reply, unflushed,
                   cnt, counted>>

Next ==
    \/ \E t \in Threads, k \in Keys, v \in Oversized : SetTooBig(t, k, v)
    \/ \E t \in Threads, k \in Keys, v \in Vals : SetReadOnly(t, k, v) \/ SetKeyval(t, k, v)
    \/ \E t \in Threads : GcCheck(t) \/ GcCount(t) \/ GcReset(t) \/ FlushForced(t)
    \/ \E t \in Threads : Format(t)
    \/ \E t \in Threads, k \in Keys : GetKeyval(t, k) \/ DelKey(t, k)
    \/ GcTick \/ FlushTick

(***************************************************************************)
(* Fairness.  The conditions below are ENABLED <<A>>_vars of the actions   *)
(* whose bodies call gc() or flush_metadata(), written as state predicates *)
(* so that TLC decides them without evaluating those bodies unprimed.     *)
(***************************************************************************)
\* wear_timer_callback may run and its gc() changes is_gb or the engine.
GcTickEnabled ==
    /\ bug = "none" /\ GcWithinBound(St, is_gb)
    /\ LET g == GcCall(St, is_gb) IN g.st # St \/ g.gb # is_gb

\* Thread t is in gc_check (the step always moves pc[t] on).
GcCheckEnabled(t) ==
    bug = "none" /\ pc[t] = "gc_check" /\ (GcTrigger => GcWithinBound(St, is_gb))

\* Thread t spins in flush_metadata(true) and erase_lock is free.
FlushForcedEnabled(t) ==
    bug = "none" /\ pc[t] = "flush" /\ erase_lock = None /\ FlushWithinBound(St)

\* The hrtimers fire periodically, so the timer callbacks are weakly fair;
\* a thread inside set_keyval runs on to its return, so its gc_check and
\* the forced flush it may start (a trylock retried while erase_lock is
\* free) are weakly fair too.  A client never has to make a call.
\* Each (<>[]en => []<><<A>>_vars) below is WF_vars(A).
Spec == Init /\ [][Next]_vars
        /\ (<>[]GcTickEnabled => []<><<GcTick>>_vars) /\ WF_vars(FlushTick)
        /\ \A t \in Threads :
             /\ <>[]GcCheckEnabled(t) => []<><<GcCheck(t)>>_vars
             /\ WF_vars(GcCount(t)) /\ WF_vars(GcReset(t))
             /\ <>[]FlushForcedEnabled(t) => []<><<FlushForced(t)>>_vars

-----------------------------------------------------------------------------
BlockInfo == [state : {"BLK_FREE", "BLK_USED"}, worn : 0..MaxWorn,
              nb_invalid : Nat, offset : Nat]

TypeOK ==
    /\ device \in [Pages -> Content]
    /\ blocks \in [Blocks -> BlockInfo]
    /\ hashtable \in [Slots -> HI!Bucket]
    /\ lists \in [Blocks -> Seq(Slots)]
    /\ read_only \in {0, 1}
    /\ meta_blkordr \in [MetaDom -> -2..(NB - 1)]
    /\ is_gb \in {0, 1}
    /\ erase_lock \in Threads \cup {None}
    /\ write_cnt \in 0..(FLUSH_THRESHOLD2 + 1)
    /\ recent_update \in {0, 1}
    /\ pc \in [Threads -> {"idle", "gc_check", "count", "reset", "flush"}]
    /\ cnt \in [Threads -> 0..(FLUSH_THRESHOLD2 + 1)]

(***************************************************************************)
(* The tombstone chain of hash.c holds in the engine: set_keyval, del_key, *)
(* gc and format only ever call hash_add, invalid_pg and the reset of      *)
(* format on the table, so no valid key becomes unreachable by a probe     *)
(* that stops at a clean bucket.                                           *)
(***************************************************************************)
TombstoneChain == HI!TombstoneChain

(***************************************************************************)
(* read_only is set only when the blocks really are full: write_page sets  *)
(* it after is_read_only(), and every erase (format_single, format) that   *)
(* lowers an offset also clears it.                                        *)
(***************************************************************************)
ReadOnlySound == read_only = 1 => IsReadOnly(blocks)

(***************************************************************************)
(* No kernel oops: no BUG(), out-of-bounds index or poisoned list entry is *)
(* reached by any sequence of client calls and timer callbacks.            *)
(***************************************************************************)
NoKernelBug == bug = "none"

(***************************************************************************)
(* gc's write-back never hits its BUG(): the victim that the merge search, *)
(* the free-block search or the fall-back to the target itself picks has  *)
(* a free page, and a hash slot, for every record the walk of the target   *)
(* kept, whatever wear, invalid counts and metadata placement the earlier  *)
(* calls left (core.c:2108).                                               *)
(***************************************************************************)
GcWriteBackFits == bug # "gc: failed to write back, BUG()"

(***************************************************************************)
(* erase_lock is free between handler calls: every return path of         *)
(* set_keyval, get_keyval, del_key, format, gc and flush_metadata that    *)
(* does not end in an oops releases it.                                    *)
(***************************************************************************)
LockReleased == bug = "none" => erase_lock = None

(***************************************************************************)
(* gc() eventually runs on a block over INVALID_THRESHOLD: the wear timer  *)
(* fires periodically, and although gc()'s inverted atomic_cmpxchg test   *)
(* makes every other call only set is_gb, the next call collects.  The    *)
(* exceptions are an oops, a leaked erase_lock (which LockReleased is     *)
(* about) and a target at the model's wear bound.                         *)
(***************************************************************************)
GcBlocked == bug # "none" \/ erase_lock # None \/ ~GcWithinBound(St, 1)

GcEventuallyCollects == (GcTarget(St) # -1) ~> (GcTarget(St) = -1 \/ GcBlocked)

(***************************************************************************)
(* A record set_keyval stored reaches the flash metadata: once it returns, *)
(* a flush_metadata that writes the tables eventually follows, from       *)
(* gc_check's write count or from flush_timer_callback, which runs while  *)
(* recent_update is set.  Exempt are an oops, a leaked erase_lock and an  *)
(* old metadata block at the model's wear bound.                          *)
(***************************************************************************)
SetEventuallyFlushed ==
    unflushed ~> (~unflushed \/ bug # "none" \/ erase_lock # None \/ ~FlushWithinBound(St))

(***************************************************************************)
(* gc_check's forced flush comes on time: write_cnt++ >= FLUSH_THRESHOLD2  *)
(* makes every (FLUSH_THRESHOLD2+1)-th call start flush_metadata(true), so *)
(* at most FLUSH_THRESHOLD2 calls pass between two that decide a flush.   *)
(***************************************************************************)
FlushCadence == counted <= FLUSH_THRESHOLD2

-----------------------------------------------------------------------------
(***************************************************************************)
(* Refinement mapping to KVStore: the value of a key is what get_keyval    *)
(* would read for it now; a reply is successful when set_keyval returned   *)
(* 0, or get_keyval and del_key a page index.                              *)
(***************************************************************************)
Lookup(k) == GetResult(St, k).val

AbsReply ==
    [op  |-> reply.op, key |-> reply.key,
     val |-> IF reply.op = "set" \/ (reply.op = "get" /\ reply.ret >= 0)
             THEN reply.val ELSE NoVal,
     ok  |-> IF reply.op = "set" THEN reply.ret = 0
             ELSE IF reply.op \in {"get", "del"} THEN reply.ret >= 0 ELSE TRUE]

KV == INSTANCE KVStore WITH dict <- [k \in Keys |-> Lookup(k)], reply <- AbsReply,
                             Vals <- Vals \cup Oversized

(***************************************************************************)
(* The engine implements the key-value store: every set, delete, format,   *)
(* gc() and flush_metadata() step changes what get_keyval reads exactly as *)
(* the client-visible operation says (internal steps change nothing).     *)
(***************************************************************************)
ImplementsKVStore == KV!Spec

FrontierErased == \A b \in Blocks : \A i \in 0..(PPB - 1) :
    i >= blocks[b].offset => device[b * PPB + i] = Erased

ListedAreValid == \A b \in Blocks : \A i \in 1..Len(lists[b]) :
    /\ HI!Valid(hashtable, lists[b][i])
    /\ \A c \in Blocks : \A j \in 1..Len(lists[c]) :
          lists[c][j] = lists[b][i] => c = b /\ j = i

=============================================================================
