------------------------------ MODULE MetaScan ------------------------------
(***************************************************************************)
(* Metadata persistence of the parallel engine                            *)
(* (src/p6/prototype-parallel/kernel/core.c): flush_metadata() writes the *)
(* in-RAM block table and hash table as NPages pages over the metadata    *)
(* blocks meta_blkordr[0..nb_blocks-1], and init_scan() rebuilds them at  *)
(* module load from the headers it finds on the device.                   *)
(*                                                                         *)
(* The RAM tables are one array of pages: page p < BlkPgs is page p of    *)
(* meta_config.blocks, page p >= BlkPgs is page p - BlkPgs of hashtable.  *)
(* Their contents are abstracted to tags: <<p, g>> is page p as it was in *)
(* RAM generation g (generation 0 is the table init_config allocates;    *)
(* Update stands for the set/del/gc calls that change the tables between *)
(* flushes).  Free-block choice by wear is abstracted: any later free     *)
(* block may be the least worn one.                                       *)
(***************************************************************************)
EXTENDS Integers, FiniteSets

CONSTANTS
    NB,           \* config.nb_blocks
    PPB,          \* config.pages_per_block
    BlkPgs,       \* blk_pgs: pages of the block table
    HsPgs,        \* hs_pgs: pages of the hash table
    DataBlocks,   \* blocks that hold data (not BLK_FREE with offset 0)
    MaxGen,       \* bound on RAM generations
    Crashes       \* whether the machine may lose power

ASSUME PPB >= 2 /\ BlkPgs >= 1 /\ HsPgs >= 1 /\ DataBlocks \subseteq 0..(NB - 1)

Blocks == 0..(NB - 1)
NPages == BlkPgs + HsPgs                 \* nb_pages
NMetaBlk == NPages \div PPB + 1          \* nb_blocks of flush_metadata
MetaIdx == 0..(NMetaBlk - 1)
\* meta_blkordr has MAX_META_BLK entries; one past the used ones is enough
\* for the model to see an index run past them.
OrdDom == 0..NMetaBlk
RamIdx == 0..(NPages - 1)

\* Page images: erased, the all-zero data header, the metadata header
\* "9487940<k>", a RAM page tag, data records, or a mix of two writes.
Erased == <<"erased">>
ZeroHdr == <<"zero">>
DataPg == <<"data">>
Garbage == <<"garbage">>
Hdr(k) == <<"hdr", k>>
Tag(p, g) == <<"pg", p, g>>

Fresh == [p \in RamIdx |-> Tag(p, 0)]
Snap(g) == [p \in RamIdx |-> Tag(p, g)]

\* A NAND page that is not erased cannot be programmed to a new image.
Program(old, new) == IF old = Erased THEN new ELSE Garbage

VARIABLES
    dev,        \* dev[b][j]: page j of block b (page 0 is the header)
    meta,       \* meta_blkordr
    ram,        \* the RAM tables, page by page
    gen,        \* the generation the RAM tables are at
    pc,         \* "idle", "write" (flush_metadata's page loop) or "down"
    after,      \* where the running flush returns: "idle", or "down" at exit
    i,          \* the page loop's i
    jack,       \* the page loop's jack_ofs
    durable,    \* the RAM tables as the last flush that completed wrote them
    durMeta,    \* meta_blkordr of that flush
    loaded,     \* the tables were just rebuilt by init_scan
    bug,        \* "none", or why the kernel stopped (BUG or bad address)
    torn        \* power was lost inside a flush since the last one completed

vars == <<dev, meta, ram, gen, pc, after, i, jack, durable, durMeta, loaded, bug, torn>>

Used(m) == {m[k] : k \in OrdDom} \cap Blocks

-----------------------------------------------------------------------------
(* flush_metadata: choosing the blocks *)

\* Mutant: the wear-levelling scan also considers data blocks.
WinnersAny(x, m, pre) ==
    LET later == {z \in (x + 1)..(NB - 1) : z \notin Used(m) \cup Used(pre)}
    IN  IF later = {} THEN {x} ELSE later

\* The inner loop over z > i: a free, unused block later than i that is
\* least worn wins, else i itself.
Winners(x, m, pre) ==
    LET later == {z \in (x + 1)..(NB - 1) :
                    z \notin DataBlocks \cup Used(m) \cup Used(pre)}
    IN  IF later = {} THEN {x} ELSE later

\* The outer loop from block x with k blocks chosen: the possible outcomes
\* as records of the new order m and the blocks format_single erased.
RECURSIVE Choose(_, _, _, _, _)
Choose(x, k, m, f, pre) ==
    IF x >= NB \/ k >= NMetaBlk THEN {[m |-> m, k |-> k, f |-> f]}
    ELSE IF x \in Used(m) \cup Used(pre) \cup DataBlocks
    THEN Choose(x + 1, k, m, f, pre)
    ELSE UNION {Choose(x + 1, k + 1, [m EXCEPT ![k] = w],
                       IF pre[k] # -1 THEN f \cup {pre[k]} ELSE f, pre)
                : w \in Winners(x, m, pre)}

\* The recycle loop: formats pre[k] and marks it used, without storing it
\* in meta_blkordr[k]; BUG() when there is no previous block.
RECURSIVE Recycle(_, _, _, _)
Recycle(k, m, f, pre) ==
    IF k >= NMetaBlk THEN [m |-> m, f |-> f, bug |-> "none"]
    ELSE IF pre[k] # -1 THEN Recycle(k + 1, m, f \cup {pre[k]}, pre)
    ELSE [m |-> m, f |-> f, bug |-> "BUG in flush_metadata recycle"]

Formatted(d, f) == [b \in Blocks |-> IF b \in f THEN [j \in 0..(PPB - 1) |-> Erased] ELSE d[b]]

\* The forced path of flush_metadata up to the page loop: copy
\* meta_blkordr to pre, set the used entries to -2, choose, recycle.
StartFlush(next) ==
    /\ pc = "idle" /\ bug = "none"
    /\ \E c \in Choose(0, 0, [k \in OrdDom |-> IF k \in MetaIdx THEN -2 ELSE meta[k]], {}, meta) :
         LET r == Recycle(c.k, c.m, c.f, meta)
         IN  /\ meta' = r.m
             /\ dev' = Formatted(dev, r.f)
             /\ bug' = r.bug
    /\ pc' = "write" /\ after' = next /\ i' = 0 /\ jack' = 0
    /\ loaded' = FALSE
    /\ UNCHANGED <<ram, gen, durable, durMeta, torn>>

\* The page of its block that RAM page x goes to: header at page 0.
Slot(x) == (x % (PPB - 1)) + 1

\* The block the page goes to: meta_blkordr[jack_ofs - 1].
Target(j2) == meta[j2 - 1]

\* One turn of the page loop: at the first page of a block write_hdr with
\* jack_ofs and jack_ofs++, then write_page of RAM page i into block
\* meta_blkordr[jack_ofs - 1]; an address off the device is a failed
\* write, which BUG()s.
FlushPage ==
    /\ pc = "write" /\ i < NPages /\ bug = "none"
    /\ LET hdr == i % (PPB - 1) = 0
           j2 == IF hdr THEN jack + 1 ELSE jack
           b == Target(j2)
           d1 == IF hdr /\ b \in Blocks THEN [dev EXCEPT ![b][0] = Program(@, Hdr(jack))] ELSE dev
       IN  /\ jack' = j2
           /\ IF b \notin Blocks
              THEN /\ bug' = "write_page off the device" /\ UNCHANGED dev
              ELSE /\ dev' = [d1 EXCEPT ![b][Slot(i)] = Program(@, ram[i])]
                   /\ UNCHANGED bug
    /\ i' = i + 1
    /\ IF i + 1 = NPages
       THEN pc' = after /\ durable' = ram /\ durMeta' = meta /\ torn' = FALSE
       ELSE UNCHANGED <<pc, durable, durMeta, torn>>
    /\ UNCHANGED <<meta, ram, gen, after, loaded>>

-----------------------------------------------------------------------------
(* init_scan *)

\* Pages j..PPB-1 of block x, a metadata block with index idx, read into
\* RAM: the block-table slot idx*PPB + (j - head) if it is below blk_pgs,
\* else the next hash page jack_ofs; total_ram_pg_cnt past hs_pgs + blk_pgs
\* ends the whole scan.  Then the blocks after x.
RECURSIVE ScanPages(_, _, _, _, _, _), ScanBlocks(_, _, _, _)
ScanPages(x, idx, j, s, cnt, jk) ==
    IF j >= PPB THEN ScanBlocks(x + 1, s, cnt, jk)
    ELSE IF cnt + 1 > HsPgs + BlkPgs THEN s
    ELSE LET o == idx * PPB + (j - 1)
             pg == dev[x][j]
         IN  IF o < BlkPgs
             THEN ScanPages(x, idx, j + 1, [s EXCEPT !.ram[o] = pg], cnt + 1, jk)
             ELSE IF jk >= HsPgs
             THEN [s EXCEPT !.bug = "init_scan writes past hashtable"]
             ELSE ScanPages(x, idx, j + 1, [s EXCEPT !.ram[BlkPgs + jk] = pg], cnt + 1, jk + 1)

\* The loop over all blocks: a header page that starts with META_HDR_BASE
\* names the block's metadata index; other blocks are skipped.
ScanBlocks(x, s, cnt, jk) ==
    IF x >= NB THEN s
    ELSE IF dev[x][0][1] # "hdr" THEN ScanBlocks(x + 1, s, cnt, jk)
    ELSE LET idx == dev[x][0][2]
         IN  ScanPages(x, idx, 1, [s EXCEPT !.meta[idx] = x], cnt, jk)

\* lkp_kv_init -> init_config -> init_scan: the tables start as
\* init_config allocated them, meta_blkordr as all -1.
LoadModule ==
    /\ pc = "down"
    /\ LET s == ScanBlocks(0, [ram |-> Fresh, meta |-> [k \in OrdDom |-> -1],
                               bug |-> "none"], 0, 0)
       IN  /\ ram' = s.ram /\ meta' = s.meta /\ bug' = s.bug
    /\ pc' = "idle" /\ loaded' = TRUE
    /\ UNCHANGED <<dev, gen, after, i, jack, durable, durMeta, torn>>

-----------------------------------------------------------------------------

\* set_keyval, del_key and gc change the tables: a new generation.
Update ==
    /\ pc = "idle" /\ bug = "none" /\ gen < MaxGen
    /\ gen' = gen + 1
    /\ ram' = Snap(gen + 1)
    /\ loaded' = FALSE
    /\ UNCHANGED <<dev, meta, pc, after, i, jack, durable, durMeta, bug, torn>>

\* The periodic flush that gets past its rate limit.
Flush == StartFlush("idle")

\* lkp_kv_exit: timers cleared, flush_metadata(true), then unload.
ExitModule == StartFlush("down")

\* Power loss: RAM is gone, the device keeps what was programmed.
Crash ==
    /\ Crashes /\ pc # "down"
    /\ pc' = "down"
    /\ torn' = (torn \/ pc = "write")
    /\ UNCHANGED <<dev, meta, ram, gen, after, i, jack, durable, durMeta, loaded, bug>>

Init ==
    /\ dev = [b \in Blocks |-> [j \in 0..(PPB - 1) |->
                IF b \in DataBlocks THEN (IF j = 0 THEN ZeroHdr ELSE DataPg) ELSE Erased]]
    /\ meta = [k \in OrdDom |-> -1]
    /\ ram = Fresh /\ gen = 0
    /\ pc = "idle" /\ after = "idle" /\ i = 0 /\ jack = 0
    /\ durable = Fresh /\ durMeta = [k \in OrdDom |-> -1]
    /\ loaded = FALSE
    /\ bug = "none"
    /\ torn = FALSE

Next == Update \/ Flush \/ ExitModule \/ FlushPage \/ Crash \/ LoadModule

Spec == Init /\ [][Next]_vars

-----------------------------------------------------------------------------

TypeOK ==
    /\ meta \in [OrdDom -> Blocks \cup {-1, -2}]
    /\ Used(meta) \cap DataBlocks = {}
    /\ gen \in 0..MaxGen
    /\ pc \in {"idle", "write", "down"} /\ after \in {"idle", "down"}
    /\ i \in 0..NPages /\ jack \in 0..(NMetaBlk + 1)
    /\ loaded \in BOOLEAN /\ torn \in BOOLEAN

\* Module load rebuilds exactly the tables and metadata order of the last
\* flush that completed (spec.md: restart reconstructs the engine state
\* from the device headers).
RecoversLastFlush ==
    loaded => ram = durable /\ \A k \in MetaIdx : meta[k] = durMeta[k]

\* The same through power losses, as long as none of them cut a flush
\* short: a machine that stops between flushes, or after a torn flush and
\* a later complete one, reloads the last complete flush.
RecoversUnlessTorn == ~torn => RecoversLastFlush

\* Neither flush_metadata nor init_scan stops the kernel.
NoMetaBug == bug = "none"

=============================================================================
