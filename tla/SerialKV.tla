------------------------------ MODULE SerialKV ------------------------------
(***************************************************************************)
(* The serial prototype of the raw-NAND key-value engine                  *)
(* (src/p6/prototype-serial/kernel/core.c, hash.c).                        *)
(*                                                                         *)
(* It has no timers and no locks: set_keyval itself calls gb_check(),     *)
(* which runs gc(), and flush_metadata() when a clock test passes.  The   *)
(* module is unloaded with a final flush_metadata() and loaded again with *)
(* init_scan(), which rebuilds config.blocks and config.hashtable from    *)
(* the metadata pages on the flash.  This module models those restarts,   *)
(* and a power loss at any moment, including between two device          *)
(* operations of a flush.                                                 *)
(*                                                                         *)
(* State, as in core.c:                                                    *)
(*   device        the flash pages                                         *)
(*   blocks        config.blocks[]: state, worn, nb_invalid, offset        *)
(*   hashtable     config.hashtable[nb_blocks * pages_per_block]           *)
(*   lists         each block's valid-page list (list_add at the head)     *)
(*   read_only     config.read_only                                        *)
(*   meta_blkordr  config.meta_blkordr[nb_meta_blocks]                     *)
(*   bug           an oops (BUG(), an out-of-bounds index, a poisoned      *)
(*                 list entry) or a failed load; the engine stops there    *)
(*   reply         history: the last client reply                          *)
(*   durable       history: what each key read after the last completed   *)
(*                 flush, whether a client write came after it, and        *)
(*                 whether power was ever lost                             *)
(*                                                                         *)
(* A metadata page holds the serialised blocks and hashtable: it is the    *)
(* image MetaPg(q, snap), page q of the buffer, with snap the two arrays   *)
(* as they were when flush_metadata() copied them.                         *)
(***************************************************************************)
EXTENDS Integers, Sequences, FiniteSets

CONSTANTS
    NB,             \* config.nb_blocks
    PPB,            \* config.pages_per_block
    NMetaPages,     \* config.nb_meta_pages (metadata_size / page_size + 1)
    Keys, Vals,
    Oversized,      \* values whose record does not fit in a page
    LongVals,       \* values whose record is longer than PPB bytes
    HashOf,         \* hash(key) % (nb_blocks * pages_per_block)
    NoKey, NoVal, Mangled,
    INVALID_THRESHOLD,
    CrashPoints,    \* where power may be lost: a subset of {"idle", "flush"}
    MaxWorn         \* model bound: no erase makes worn exceed this

ASSUME NB \in Nat \ {0} /\ PPB \in Nat /\ PPB >= 2
ASSUME NMetaPages \in Nat \ {0} /\ LongVals \subseteq Vals

HSize == NB * PPB
Pages == 0..(HSize - 1)
Blocks == 0..(NB - 1)
Slots == 0..(HSize - 1)
RESERVED_PG_CNT == 1
\* config.nb_meta_blocks, as init_scan() computes it
NMetaBlk == NMetaPages \div (PPB - 1) + 1
MetaIdx == 0..(NMetaBlk - 1)

VARIABLES device, blocks, hashtable, lists, read_only, meta_blkordr, bug,
          reply, durable

vars == <<device, blocks, hashtable, lists, read_only, meta_blkordr, bug,
          reply, durable>>

HI == INSTANCE HashIndex WITH table <- hashtable, Indices <- {}

-----------------------------------------------------------------------------
(* Page images *)
Img(kind, k, v, part) == [kind |-> kind, key |-> k, val |-> v, part |-> part]
Erased     == Img("erased", NoKey, NoVal, 0)
ZeroPage   == Img("zero", NoKey, NoVal, 0)      \* write_hdr(NAND_DATA)
Garbage    == Img("garbage", NoKey, NoVal, 0)
MetaHdr(j) == Img("mhdr", NoKey, NoVal, j)      \* META_HDR_BASE, then j
MetaPg(q, snap) == Img("meta", NoKey, snap, q)
Rec(k, v)  == Img("rec", k, v, 0)

\* Programming a page that is not erased ANDs the bits.
Program(old, new) ==
    IF old = Erased THEN new
    ELSE IF old = ZeroPage \/ new = ZeroPage THEN ZeroPage
    ELSE IF old.kind = "rec" /\ new.kind = "rec" /\ old.key = new.key
    THEN IF old.val = new.val THEN old ELSE Rec(old.key, Mangled)
    ELSE Garbage

BlockOf(p) == p \div PPB

(* The engine state as one record; trail is the sequence of device images *)
(* after each erase or program a handler makes (a power loss may stop it   *)
(* after any of them).                                                     *)
St == [device |-> device, blocks |-> blocks, ht |-> hashtable, lists |-> lists,
       ro |-> read_only, meta |-> meta_blkordr, bug |-> bug, trail |-> <<>>]

Commit(s) ==
    /\ device' = s.device
    /\ blocks' = s.blocks
    /\ hashtable' = s.ht
    /\ lists' = s.lists
    /\ read_only' = s.ro
    /\ meta_blkordr' = s.meta
    /\ bug' = s.bug

(* Bind(e, F) is F(e).  The handlers below are chains of calls that pass  *)
(* the engine state along; Bind hands each intermediate state on as a      *)
(* value, so a state is built once however often the next call reads it.  *)
Bind(e, F(_)) == CHOOSE y \in {F(x) : x \in {e}} : TRUE

\* The next call of a handler runs only if the previous one did not oops.
Then(s, F(_)) == Bind(s, LAMBDA x : IF x.bug = "none" THEN F(x) ELSE x)
Oops(s, why) == [s EXCEPT !.bug = why]
SetDevice(s, d) == [s EXCEPT !.device = d, !.trail = Append(@, d)]

LeastWorn(bl, c) ==
    CHOOSE b \in c : \A x \in c : \/ bl[b].worn < bl[x].worn
                                  \/ bl[b].worn = bl[x].worn /\ b <= x

FreshBlock == [state |-> "BLK_FREE", worn |-> 0, nb_invalid |-> 0, offset |-> 0]

-----------------------------------------------------------------------------
\* Mutant: a block with one page left counts as full.
IsReadOnlyEarly(bl) == \A b \in Blocks : bl[b].offset >= PPB - 1

(* is_read_only(): every block is full *)
IsReadOnly(bl) == \A b \in Blocks : bl[b].offset >= PPB

(* write_page(page_index, buf): returns [st, ret] *)
WritePage(s, p, img) ==
    IF s.ro = 1 THEN [st |-> s, ret |-> -1]
    ELSE IF p \notin Pages THEN [st |-> s, ret |-> -2]   \* mtd _write fails
    ELSE Bind([SetDevice(s, [s.device EXCEPT ![p] = Program(@, img)])
               EXCEPT !.blocks[BlockOf(p)].offset = @ + 1],
              LAMBDA s1 : IF IsReadOnly(s1.blocks) THEN [st |-> [s1 EXCEPT !.ro = 1], ret |-> -1]
                          ELSE [st |-> s1, ret |-> 0])

(* write_hdr(pg_idx, data, meta_blk_num): the write's result is dropped *)
WriteHdr(s, p, isMeta, j) ==
    IF isMeta THEN WritePage(s, p, MetaHdr(j)).st
    ELSE [WritePage(s, p, ZeroPage).st EXCEPT !.blocks[BlockOf(p)].state = "BLK_USED"]

\* Mutant: invalid_pg without its list_del.
InvalidPgKeepsLink(s, h) ==
    IF h < 0 THEN Oops(s, "invalid_pg: hashtable[-n] out of bounds")
    ELSE [s EXCEPT !.ht[h].p_state = "PG_FREE",
                   !.blocks[BlockOf(s.ht[h].index)].nb_invalid = @ + 1]

(* invalid_pg(hash_idx) *)
InvalidPg(s, h) ==
    IF h < 0 THEN Oops(s, "invalid_pg: hashtable[-n] out of bounds")
    ELSE IF \A b \in Blocks : \A i \in 1..Len(s.lists[b]) : s.lists[b][i] # h
    THEN Oops(s, "invalid_pg: list_del of a poisoned entry")
    ELSE [s EXCEPT !.ht[h].p_state = "PG_FREE",
                   !.blocks[BlockOf(s.ht[h].index)].nb_invalid = @ + 1,
                   !.lists = [b \in Blocks |-> SelectSeq(@[b], LAMBDA x : x # h)]]

(* get_healthy_block(): the least-worn block that is not BLK_INVALID and  *)
(* has room; the test that would skip BLK_META blocks is commented out.   *)
GetHealthyBlock(s) ==
    LET c == {b \in Blocks : s.blocks[b].state # "BLK_INVALID"
                             /\ s.blocks[b].offset < PPB}
    IN IF c = {} THEN -1 ELSE LeastWorn(s.blocks, c)

(* get_next_page(): returns [st, ret]; a block with nothing written gets   *)
(* the data header first.                                                  *)
GetNextPage(s) == Bind(GetHealthyBlock(s), LAMBDA tb :
    IF tb = -1 THEN [st |-> s, ret |-> -1]
    ELSE IF s.blocks[tb].offset < RESERVED_PG_CNT
    THEN [st |-> WriteHdr([s EXCEPT !.blocks[tb].state = "BLK_USED"],
                          tb * PPB + s.blocks[tb].offset, FALSE, 0),
          ret |-> tb]
    ELSE [st |-> s, ret |-> tb])

(* get_meta_block(): the least-worn non-metadata block with nothing       *)
(* written, else the least-worn non-metadata block with room.             *)
GetMetaBlock(s) ==
    LET c1 == {b \in Blocks : s.blocks[b].state # "BLK_META" /\ s.blocks[b].offset = 0}
        c2 == {b \in Blocks : s.blocks[b].state # "BLK_META" /\ s.blocks[b].offset < PPB}
    IN IF c1 # {} THEN LeastWorn(s.blocks, c1)
       ELSE IF c2 # {} THEN LeastWorn(s.blocks, c2) ELSE -1

\* Mutant: the erase leaves current_page_offset where it was.
FormatSingleKeepsOffset(s, idx) ==
    IF idx < 0 THEN s
    ELSE [SetDevice(s, [p \in Pages |-> IF BlockOf(p) = idx THEN Erased
                                         ELSE s.device[p]])
          EXCEPT !.blocks[idx] = [@ EXCEPT !.state = "BLK_FREE", !.worn = @ + 1,
                                           !.nb_invalid = 0],
                 !.lists[idx] = <<>>,
                 !.ro = 0]

(* format_single(idx), for an erase the driver completes *)
FormatSingle(s, idx) ==
    IF idx < 0 THEN s
    ELSE [SetDevice(s, [p \in Pages |-> IF BlockOf(p) = idx THEN Erased
                                         ELSE s.device[p]])
          EXCEPT !.blocks[idx] = [state |-> "BLK_FREE", worn |-> @.worn + 1,
                                  nb_invalid |-> 0, offset |-> 0],
                 !.lists[idx] = <<>>,
                 !.ro = 0]

(* format(): the whole partition erased, blocks, lists and buckets reset *)
FormatAll(s) ==
    [SetDevice(s, [p \in Pages |-> Erased])
     EXCEPT !.blocks = [b \in Blocks |-> FreshBlock],
            !.lists  = [b \in Blocks |-> <<>>],
            !.ht     = HI!ResetTable(s.ht),
            !.ro     = 0]

-----------------------------------------------------------------------------
(***************************************************************************)
(* move_pages_to_other_block(victim_block), called by flush_metadata() on *)
(* the block it wants for metadata: every page of a BLK_USED victim whose *)
(* key hash_search finds is invalidated where the table points and copied *)
(* to get_next_page(); then the victim is erased.  Erased pages and the   *)
(* zero header have key_len <= 0 and are skipped.                          *)
(***************************************************************************)
RECURSIVE MoveLoop(_, _, _)
MoveLoop(s, vb, i) ==
    IF i >= PPB \/ s.bug # "none" THEN s
    ELSE LET c == s.device[vb * PPB + i] IN
         IF c.kind \in {"erased", "zero"} THEN MoveLoop(s, vb, i + 1)
         ELSE IF c.kind # "rec"
         THEN Oops(s, "move_pages: key_len read from a non-record page")
         ELSE Bind(HI!HashSearch(s.ht, c.key), LAMBDA h :
              IF h < 0 THEN MoveLoop(s, vb, i + 1)
              ELSE Bind(GetNextPage(InvalidPg(s, h)), LAMBDA g :
              IF g.st.bug # "none" THEN g.st
              ELSE IF g.ret = -1 THEN Oops(g.st, "move_pages: blocks[-1] out of bounds")
              ELSE LET idx == g.ret * PPB + g.st.blocks[g.ret].offset IN
              Bind(WritePage(g.st, idx, c), LAMBDA w :
              Bind(HI!HashAdd(w.st.ht, c.key, idx), LAMBDA a :
              IF a.ret < 0
              THEN Oops([w.st EXCEPT !.ht = a.table], "move_pages: list_add on hashtable[-1]")
              ELSE MoveLoop([w.st EXCEPT !.ht = a.table,
                                         !.lists[g.ret] = <<a.ret>> \o @], vb, i + 1)))))

MovePages(s, vb) ==
    IF vb < 0 THEN Oops(s, "move_pages: blocks[-1] out of bounds")
    ELSE IF s.blocks[vb].state = "BLK_FREE" THEN s
    ELSE Then(IF s.blocks[vb].state = "BLK_USED"
              THEN MoveLoop([s EXCEPT !.blocks[vb].state = "BLK_INVALID"], vb, 1)
              ELSE s,
              LAMBDA x : FormatSingle(x, vb))

-----------------------------------------------------------------------------
(***************************************************************************)
(* flush_metadata(): erase the blocks of the current generation, choose   *)
(* and clear nb_meta_blocks new blocks, copy blocks[] and hashtable[] to  *)
(* the buffer, and write a header and pages_per_block - 1 pages on each   *)
(* new block.  The pages past the nb_meta_pages of the buffer are read    *)
(* beyond it (Garbage).  A failed page write abandons the flush.          *)
(***************************************************************************)
RECURSIVE EraseOld(_, _)
EraseOld(s, i) ==
    IF i >= NMetaBlk THEN s ELSE Bind(FormatSingle(s, s.meta[i]), LAMBDA x : EraseOld(x, i + 1))

RECURSIVE ChooseNew(_, _)
ChooseNew(s, i) ==
    IF i >= NMetaBlk \/ s.bug # "none" THEN s
    ELSE Bind(GetMetaBlock(s), LAMBDA tb :
         Bind(MovePages(s, tb), LAMBDA s1 :
         IF s1.bug # "none" THEN s1
         ELSE ChooseNew([s1 EXCEPT !.meta[i] = tb, !.blocks[tb].state = "BLK_META"], i + 1)))

RECURSIVE WriteMeta(_, _, _)
WriteMeta(s, snap, q) ==
    IF q >= NMetaBlk * (PPB - 1) THEN s
    ELSE LET i  == q \div (PPB - 1)
             j  == (q % (PPB - 1)) + 1
             b  == s.meta[i]
         IN Bind(WritePage(IF j = 1 THEN WriteHdr(s, b * PPB, TRUE, i) ELSE s, b * PPB + j,
                           IF q < NMetaPages THEN MetaPg(q, snap) ELSE Garbage),
                 LAMBDA w : IF w.ret # 0 THEN w.st ELSE WriteMeta(w.st, snap, q + 1))

FlushBody(s) ==
    Then(ChooseNew(EraseOld(s, 0), 0),
         LAMBDA x : WriteMeta(x, [blocks |-> x.blocks, ht |-> x.ht], 0))

-----------------------------------------------------------------------------
(***************************************************************************)
(* gc(): the first block with INVALID_THRESHOLD invalid pages is the      *)
(* target.  The victim scan tests "if (BLK_FREE)", which is 0, so the     *)
(* victim is always the target itself.  The valid list of the target is   *)
(* walked (each record read, its key searched and invalidated), the       *)
(* target erased, a data header written, and the records written back.    *)
(***************************************************************************)
GcTarget(s) ==
    LET c == {b \in Blocks : s.blocks[b].nb_invalid >= INVALID_THRESHOLD}
    IN IF c = {} THEN -1 ELSE CHOOSE b \in c : \A x \in c : b <= x

RECURSIVE GcWalk(_, _, _, _)
GcWalk(s, t1, rest, recs) ==
    IF rest = <<>> \/ s.bug # "none" THEN [st |-> s, recs |-> recs]
    ELSE LET e  == Head(rest)
             pg == s.ht[e].index
             c  == s.device[pg]
         IN IF BlockOf(pg) # t1 THEN [st |-> s, recs |-> recs]   \* WARN; break
            ELSE IF Len(recs) >= PPB
            THEN [st |-> Oops(s, "gc: key_len[pages_per_block] overflow"), recs |-> recs]
            ELSE IF c.kind # "rec"
            THEN [st |-> Oops(s, "gc: key_len read from a non-record page"), recs |-> recs]
            ELSE Bind(HI!HashSearch(s.ht, c.key), LAMBDA h :
                 Bind(InvalidPg(s, h), LAMBDA s2 :
                 LET nxt == Tail(rest) IN
                 IF s2.bug # "none" THEN [st |-> s2, recs |-> recs]
                 ELSE IF nxt # <<>> /\ Head(nxt) = h
                 THEN [st |-> Oops(s2, "gc: list walk reaches a deleted entry"), recs |-> recs]
                 ELSE GcWalk(s2, t1, SelectSeq(nxt, LAMBDA x : x # h),
                             Append(recs, [key |-> c.key, val |-> c.val]))))

(* The records are read into the buffer pages_per_block bytes apart, not  *)
(* page_size: each read overwrites the tail of the record before it, so a *)
(* record longer than pages_per_block bytes keeps its own value only if   *)
(* it was read last.                                                       *)
Overlapped(recs) ==
    [i \in 1..Len(recs) |->
        IF i < Len(recs) /\ recs[i].val \in LongVals
        THEN [recs[i] EXCEPT !.val = Mangled] ELSE recs[i]]

\* Mutant: the write-back loop stops one record short.
RECURSIVE GcAppendShort(_, _, _)
GcAppendShort(s, v, recs) ==
    IF Len(recs) <= 1 \/ s.bug # "none" THEN s
    ELSE LET r  == Head(recs)
             pg == v * PPB + s.blocks[v].offset
         IN Bind(WritePage(s, pg, Rec(r.key, r.val)), LAMBDA w :
            Bind(HI!HashAdd(w.st.ht, r.key, pg), LAMBDA a :
            IF w.ret < 0 \/ a.ret < 0
            THEN Oops([w.st EXCEPT !.ht = a.table], "gc: failed to write back, BUG()")
            ELSE GcAppendShort([w.st EXCEPT !.ht = a.table, !.lists[v] = <<a.ret>> \o @],
                       v, Tail(recs))))

RECURSIVE GcAppend(_, _, _)
GcAppend(s, v, recs) ==
    IF recs = <<>> \/ s.bug # "none" THEN s
    ELSE LET r  == Head(recs)
             pg == v * PPB + s.blocks[v].offset
         IN Bind(WritePage(s, pg, Rec(r.key, r.val)), LAMBDA w :
            Bind(HI!HashAdd(w.st.ht, r.key, pg), LAMBDA a :
            IF w.ret < 0 \/ a.ret < 0
            THEN Oops([w.st EXCEPT !.ht = a.table], "gc: failed to write back, BUG()")
            ELSE GcAppend([w.st EXCEPT !.ht = a.table, !.lists[v] = <<a.ret>> \o @],
                       v, Tail(recs))))

GcBody(s) == Bind(GcTarget(s), LAMBDA t1 :
    IF t1 = -1 THEN s
    ELSE Bind(GcWalk(s, t1, s.lists[t1], <<>>), LAMBDA W :
         Then(GcAppend(Then(Then(W.st, LAMBDA x : FormatSingle(x, t1)),
                            LAMBDA x : WriteHdr(x, t1 * PPB + x.blocks[t1].offset, FALSE, 0)),
                       t1, Overlapped(W.recs)),
              LAMBDA x : [x EXCEPT !.blocks[t1].state = "BLK_USED"])))

(* gb_check(): gc() when some block has INVALID_THRESHOLD invalid pages *)
GbCheck(s) ==
    IF \E b \in Blocks : s.blocks[b].nb_invalid >= INVALID_THRESHOLD
    THEN GcBody(s) ELSE s

-----------------------------------------------------------------------------
(***************************************************************************)
(* set_keyval(key, val) for a value that fits and read_only = 0, up to    *)
(* gb_check(): invalidate the key's old bucket, get_next_page(), write    *)
(* the record, hash_add it and list_add its bucket.  Returns [st, ret].   *)
(***************************************************************************)
SetBody(s, k, v) ==
    Bind(HI!HashSearch(s.ht, k), LAMBDA h :
    Bind(IF h >= 0 THEN InvalidPg(s, h) ELSE s, LAMBDA s1 :
    IF s1.bug # "none" THEN [st |-> s1, ret |-> 0]
    ELSE Bind(GetNextPage(s1), LAMBDA g :
    IF g.ret = -1
    THEN [st |-> Oops(g.st, "set_keyval: blocks[-1] out of bounds"), ret |-> 0]
    ELSE LET tb == g.ret
             idx == tb * PPB + g.st.blocks[tb].offset IN
    Bind(WritePage(g.st, idx, Rec(k, v)), LAMBDA w :
    Bind(HI!HashAdd(w.st.ht, k, idx), LAMBDA a :
    IF a.ret < 0
    THEN [st |-> Oops([w.st EXCEPT !.ht = a.table], "set_keyval: list_add on hashtable[-1]"),
          ret |-> 0]
    ELSE [st |-> [w.st EXCEPT !.ht = a.table, !.lists[tb] = <<a.ret>> \o @],
          ret |-> IF w.ret = -1 THEN -3 ELSE IF w.ret = -2 THEN -4 ELSE 0])))))

(* get_keyval(key): the value read and the return code *)
GetResult(s, k) == Bind(HI!HashSearch(s.ht, k), LAMBDA h :
    LET pg == s.ht[h].index
        c  == s.device[pg]
    IN IF h < 0 \/ s.blocks[BlockOf(pg)].state # "BLK_USED" THEN [val |-> NoVal, ret |-> -1]
       ELSE IF c.kind = "rec" /\ c.key = k THEN [val |-> c.val, ret |-> pg]
       ELSE [val |-> NoVal, ret |-> -1])

(* del_key(key): returns [st, ret] *)
DelBody(s, k) == Bind(HI!HashSearch(s.ht, k), LAMBDA h :
    LET pg == s.ht[h].index
    IN IF h >= 0 /\ s.blocks[BlockOf(pg)].state = "BLK_USED"
       THEN [st |-> InvalidPg(s, h), ret |-> pg]
       ELSE [st |-> s, ret |-> -2])

-----------------------------------------------------------------------------
(***************************************************************************)
(* init_scan() after init_config(), on the pages d: page 0 of every block *)
(* is read, and a block whose header is META_HDR_BASE, j becomes          *)
(* meta_blkordr[j] (a later block wins).  With no such block the whole    *)
(* partition is formatted.  Otherwise pages 1..pages_per_block-1 of the   *)
(* cnt blocks meta_blkordr[0..cnt-1] are read in turn into the buffer,    *)
(* and blocks[] and hashtable[] are copied from its first nb_meta_pages   *)
(* pages; each block's list is rebuilt by list_add of every PG_VALID      *)
(* bucket in index order; read_only is set if is_read_only().             *)
(***************************************************************************)
HdrBlocks(d) == {b \in Blocks : d[b * PPB].kind = "mhdr"}

ScanOrder(d) ==
    [i \in MetaIdx |->
        LET c == {b \in HdrBlocks(d) : d[b * PPB].part = i}
        IN IF c = {} THEN -1 ELSE CHOOSE b \in c : \A x \in c : x <= b]

\* Page q of the buffer init_scan() reads.
ScanPage(d, ord, q) == d[ord[q \div (PPB - 1)] * PPB + (q % (PPB - 1)) + 1]

\* The valid buckets of block b, most recently list_add-ed first.
Rebuilt(ht, b) ==
    SelectSeq([i \in 1..HSize |-> HSize - i],
              LAMBDA x : ht[x].p_state = "PG_VALID" /\ BlockOf(ht[x].index) = b)

Recover(d) ==
    LET cnt == Cardinality(HdrBlocks(d))
        Boot == [device |-> d, blocks |-> [b \in Blocks |-> FreshBlock], ht |-> HI!EmptyTable,
                 lists |-> [b \in Blocks |-> <<>>], ro |-> 0,
                 meta |-> [i \in MetaIdx |-> -1], bug |-> "none", trail |-> <<>>]
    IN Bind(ScanOrder(d), LAMBDA ord :
       IF \E b \in HdrBlocks(d) : d[b * PPB].part \notin MetaIdx
       THEN Oops(Boot, "init_scan: meta_blkordr[n] out of bounds")
       ELSE IF cnt = 0 THEN FormatAll(Boot)
       ELSE IF \E i \in 0..(cnt - 1) : i \notin MetaIdx \/ ord[i] = -1
       THEN Oops(Boot, "init_scan: read_page of a missing metadata block, load fails")
       ELSE IF cnt * (PPB - 1) < NMetaPages
       THEN Oops(Boot, "init_scan: blocks and hashtable copied from unread buffer pages")
       ELSE Bind([q \in 0..(NMetaPages - 1) |-> ScanPage(d, ord, q)], LAMBDA buf :
            LET snap == buf[0].val IN
            IF \E q \in DOMAIN buf : buf[q].kind # "meta" \/ buf[q].part # q
                                    \/ buf[q].val # snap
            THEN Oops(Boot, "init_scan: blocks and hashtable copied from non-metadata pages")
            ELSE [Boot EXCEPT !.blocks = snap.blocks, !.ht = snap.ht, !.meta = ord,
                              !.lists = [b \in Blocks |-> Rebuilt(snap.ht, b)],
                              !.ro = IF IsReadOnly(snap.blocks) THEN 1 ELSE 0]))

-----------------------------------------------------------------------------
LookupIn(s) == [k \in Keys |-> GetResult(s, k).val]

\* Every valid bucket points at a page that holds a record of its key.
IndexSound(s) ==
    \A h \in Slots : HI!Valid(s.ht, h) =>
        s.ht[h].index \in Pages /\ s.device[s.ht[h].index].kind = "rec"
        /\ s.device[s.ht[h].index].key = s.ht[h].key

\* Model bound: no step takes a block past MaxWorn erasures.
WithinBound(s) == \A b \in Blocks : s.blocks[b].worn <= MaxWorn

NoReply == [op |-> "none", key |-> NoKey, val |-> NoVal, ret |-> 0]

(* History after a flush f of the state s0 completed: what every key read *)
(* when the flush was called, and the keys the flush made read            *)
(* differently.                                                            *)
Flushed(h, s0, f) ==
    [h EXCEPT !.dict = LookupIn(s0), !.clean = TRUE, !.restarted = FALSE,
              !.flushLost = @ \cup {k \in Keys : LookupIn(s0)[k] # LookupIn(f)[k]}]

\* The module is loaded on an erased partition: init_scan() formats it.
Init ==
    LET s == Recover([p \in Pages |-> Erased]) IN
    /\ device = s.device
    /\ blocks = s.blocks
    /\ hashtable = s.ht
    /\ lists = s.lists
    /\ read_only = s.ro
    /\ meta_blkordr = s.meta
    /\ bug = s.bug
    /\ reply = NoReply
    /\ durable = [dict |-> [k \in Keys |-> NoVal], clean |-> TRUE,
                  restarted |-> FALSE, gcLost |-> {}, flushLost |-> {},
                  powerLost |-> FALSE]

Dirty == durable' = [durable EXCEPT !.clean = FALSE, !.restarted = FALSE]
Quiet == durable' = [durable EXCEPT !.restarted = FALSE]

\* set_keyval with a record too big for a page: returns -1.
SetTooBig(k, v) ==
    /\ bug = "none" /\ v \in Oversized
    /\ reply' = [op |-> "set", key |-> k, val |-> v, ret |-> -1]
    /\ Quiet
    /\ UNCHANGED <<device, blocks, hashtable, lists, read_only, meta_blkordr, bug>>

\* set_keyval in read-only mode: returns -3.
SetReadOnly(k, v) ==
    /\ bug = "none" /\ read_only = 1
    /\ reply' = [op |-> "set", key |-> k, val |-> v, ret |-> -3]
    /\ Quiet
    /\ UNCHANGED <<device, blocks, hashtable, lists, read_only, meta_blkordr, bug>>

(* set_keyval(key, val) with the gb_check() and, when the clock test      *)
(* time_write - time_flush >= 1000000 passes (flush), the                 *)
(* flush_metadata() that follow the write.                                *)
SetKeyval(k, v, flush) ==
    /\ bug = "none" /\ read_only = 0
    /\ \E r \in {SetBody(St, k, v)} :
       \E s2 \in {Then(r.st, GbCheck)} :
       \E s3 \in {IF flush THEN Then(s2, FlushBody) ELSE s2} :
          /\ WithinBound(s3)
          /\ Commit(s3)
          /\ reply' = [op |-> "set", key |-> k, val |-> v, ret |-> r.ret]
          /\ LET h == [durable EXCEPT !.clean = FALSE, !.restarted = FALSE,
                                      !.gcLost = @ \cup {x \in Keys : IndexSound(r.st)
                                                  /\ LookupIn(r.st)[x] # LookupIn(s2)[x]}]
             IN durable' = IF flush /\ s3.bug = "none" THEN Flushed(h, s2, s3) ELSE h

GetKeyval(k) ==
    /\ bug = "none"
    /\ LET r == GetResult(St, k) IN
       reply' = [op |-> "get", key |-> k, val |-> r.val, ret |-> r.ret]
    /\ Quiet
    /\ UNCHANGED <<device, blocks, hashtable, lists, read_only, meta_blkordr, bug>>

DelKey(k) ==
    /\ bug = "none"
    /\ \E r \in {DelBody(St, k)} :
       /\ Commit(r.st)
       /\ reply' = [op |-> "del", key |-> k, val |-> NoVal, ret |-> r.ret]
       /\ IF r.ret >= 0 THEN Dirty ELSE Quiet

\* format(): nothing is left on the flash, metadata included.
Format ==
    /\ bug = "none"
    /\ Commit(FormatAll(St))
    /\ reply' = [op |-> "format", key |-> NoKey, val |-> NoVal, ret |-> 0]
    /\ durable' = [durable EXCEPT !.dict = [k \in Keys |-> NoVal], !.clean = TRUE,
                                  !.restarted = FALSE]

(* rmmod and insmod: lkp_kv_exit() flushes the metadata; lkp_kv_init()    *)
(* runs init_config() and init_scan() on the flash as it was left.        *)
Reload ==
    /\ bug = "none"
    /\ \E f \in {FlushBody(St)} :
       \E s \in {IF f.bug = "none" THEN Recover(f.device) ELSE f} :
          /\ WithinBound(f)
          /\ Commit(s)
          /\ durable' = IF f.bug = "none"
                        THEN [Flushed(durable, St, f) EXCEPT !.restarted = TRUE]
                        ELSE [durable EXCEPT !.restarted = FALSE]
    /\ UNCHANGED reply

(* Power is lost between two calls, and the module is loaded again.       *)
PowerLoss ==
    /\ bug = "none" /\ "idle" \in CrashPoints
    /\ Commit(Recover(device))
    /\ durable' = [durable EXCEPT !.restarted = TRUE, !.powerLost = TRUE]
    /\ UNCHANGED reply

(* Power is lost after some erase or program of a flush_metadata() that   *)
(* started from the current state, and the module is loaded again.        *)
PowerLossInFlush ==
    /\ bug = "none" /\ "flush" \in CrashPoints
    /\ \E f \in {FlushBody(St)} :
       /\ WithinBound(f)
       /\ \E i \in 1..Len(f.trail) : Commit(Recover(f.trail[i]))
    /\ durable' = [durable EXCEPT !.restarted = TRUE, !.powerLost = TRUE]
    /\ UNCHANGED reply

Next ==
    \/ \E k \in Keys, v \in Oversized : SetTooBig(k, v)
    \/ \E k \in Keys, v \in Vals : SetReadOnly(k, v)
    \/ \E k \in Keys, v \in Vals, flush \in BOOLEAN : SetKeyval(k, v, flush)
    \/ \E k \in Keys : GetKeyval(k) \/ DelKey(k)
    \/ Format \/ Reload \/ PowerLoss \/ PowerLossInFlush

Spec == Init /\ [][Next]_vars

-----------------------------------------------------------------------------
BlockInfo == [state : {"BLK_FREE", "BLK_USED", "BLK_META", "BLK_INVALID"},
              worn : 0..MaxWorn, nb_invalid : Nat, offset : 0..PPB]

(* Type invariant: the page images, config.blocks (offsets within a block), *)
(* the hashtable, the lists and meta_blkordr keep their shapes.            *)
TypeOK ==
    /\ \A p \in Pages : device[p].kind \in {"erased", "zero", "garbage", "mhdr", "meta", "rec"}
    /\ blocks \in [Blocks -> BlockInfo]
    /\ hashtable \in [Slots -> HI!Bucket]
    /\ lists \in [Blocks -> Seq(Slots)]
    /\ read_only \in {0, 1}
    /\ meta_blkordr \in [MetaIdx -> -1..(NB - 1)]

(* spec.md: after set, flush and restart every key reads the same.  When  *)
(* the module was reloaded (lkp_kv_exit's flush_metadata, then init_scan) *)
(* or power was lost, with no client write since the last completed       *)
(* flush, the engine loaded and get_keyval reads what it read then.       *)
RestartAfterFlush ==
    durable.restarted /\ durable.clean =>
        bug = "none" /\ LookupIn(St) = durable.dict

(* The same on every run in which power was never lost: rmmod/insmod     *)
(* round trips alone (the exit flush, then init_scan) keep every key.      *)
RestartAfterFlushNoPowerLoss == ~durable.powerLost => RestartAfterFlush

(* The same on every run in which no completed flush_metadata() itself   *)
(* changed a key's get_keyval result (that loss is FlushKeepsValues'):    *)
(* what a restart loses, init_scan and the flushes around it lost.        *)
RestartUnlessFlushLost == durable.flushLost = {} => RestartAfterFlush

(* A completed flush_metadata() changes no key's get_keyval result: it     *)
(* only erases and writes blocks it took for metadata, after moving their  *)
(* records with move_pages_to_other_block().                               *)
FlushKeepsValues == durable.flushLost = {}

(* gc(), run by gb_check() after a write, changes no key's get_keyval     *)
(* result while the index was sound before it: it copies every valid      *)
(* record of the target back after the erase.                              *)
GcKeepsValues == durable.gcLost = {}

(* read_only is 1 only while every block is full: write_page sets it from *)
(* is_read_only(), format_single clears it, init_scan recomputes it.       *)
ReadOnlySound == read_only = 1 => \A b \in Blocks : blocks[b].offset = PPB

(* Each block's list (built by list_add in set_keyval, gc and             *)
(* move_pages, rebuilt by init_scan, cut by invalid_pg and format_single)  *)
(* holds valid buckets only, each in one list once: list_del of a bucket   *)
(* that is not linked would follow poisoned pointers.                      *)
ListedAreValid == \A b \in Blocks : \A i \in 1..Len(lists[b]) :
    /\ HI!Valid(hashtable, lists[b][i])
    /\ \A c \in Blocks : \A j \in 1..Len(lists[c]) :
          lists[c][j] = lists[b][i] => c = b /\ j = i

=============================================================================
