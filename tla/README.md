# TLA+ models of the raw-NAND key-value engine (src/p6) and the lottery scheduler (src/p3)

This directory holds TLA+ models of two systems in this repository:
- the log-structured key-value engine in `src/p6/prototype-parallel/kernel`
  (`core.c`, `hash.c`, `core.h`, `hash.h`) and its single-threaded
  predecessor in `src/p6/prototype-serial/kernel`;
- the lottery scheduling class `src/p3/linux-2.6.32.27/kernel/sched_lottery.c`
  and its test harness `src/p3/tasks/lottery_system.c`,
  `lottery_system_fair.c` and `lottery_task.c`.

It also holds the TLC configurations that check them, and `PROJECT.json`.
That file lists the components, the runs, the mutants, the
definition-to-source map, the findings and the hazards.

## 1. The system

The engine is a Linux kernel module. It keeps key/value records in the pages
of a raw flash partition. A page can be programmed only while it is erased, and
a whole block is erased at once.

| Part | Code | State | Operations |
|---|---|---|---|
| Hash index | `hash.c`, `invalid_pg`, the table loop of `format` | `hashtable[HASH_SIZE]` of buckets `{p_state, dirty, key, index}`, with linear probing and a `dirty` tombstone | `hash_add`, `hash_search`, `invalid_pg` |
| Allocator and page writer | `get_healthy_block`, `get_next_block_to_write`, `write_hdr`, `write_page`, `is_read_only` | `blocks[]` = `{state, worn, nb_invalid, current_page_offset, list}`, `config.read_only`, the flash pages | choose the least-worn non-metadata block with room; write a header on a block's first page; write a page and advance the offset; switch to read-only |
| Client operations | `set_keyval`, `get_keyval`, `del_key`, `format` | all of the above | called through the device node by user programs |
| Garbage collector | `gc` | `is_gb`; it reads and writes all of the above | choose a target block with at least `INVALID_THRESHOLD` invalid pages and a victim (MERGE: another block with room, else a free block, else the target); copy the valid records; erase the target |
| Metadata flush | `flush_metadata` | `meta_blkordr[]`, `recent_update`, `is_flush` | choose fresh blocks for a new metadata generation, erase the old one, write a header and the pages |
| Recovery | `init_scan` | — | rebuild `blocks[]` and `hashtable` from the metadata pages at load |
| Timers | `flush_timer_callback`, `wear_timer_callback` | — | periodic `flush_metadata(false)` and `gc()` |

How the parts interact:
- `erase_lock` serialises set, get, del and format (spin_lock), and gc and
  flush (spin_trylock). `list_lock` nests inside it, and `one_lock` guards
  device writes.
- After releasing `erase_lock`, `set_keyval` calls `gc_check()`. That runs
  `gc()` when a block has at least `INVALID_THRESHOLD2` invalid pages, and
  `flush_metadata(true)` every `FLUSH_THRESHOLD2` writes.
- A forced flush spins on `spin_trylock(&erase_lock)`.
- The two hrtimers call `gc()` and `flush_metadata(false)` concurrently with
  client threads.

What makes the engine hard:
- client threads and timer callbacks interleave around the lock;
- two atomic flags are tested with `atomic_cmpxchg`;
- return paths must release the lock;
- the arithmetic between block offsets, the metadata block count and
  read-only mode;
- list links threaded through the hash buckets;
- a flush that must not lose the metadata if the machine stops in the middle.

### The lottery scheduler (src/p3)

`sched_lottery.c` is a Linux 2.6.32 scheduling class. Every task has
`ticket` tickets. The global `total_ticket` is the sum over the queued tasks.
`pick_next_task_lottery` draws `lucky_ticket = random % total_ticket` and
returns the task whose cumulative tickets first exceed it.

There are two policies, chosen at compile time:
- a list per runqueue, walked in order;
- a red-black tree on the runqueue. Each node keeps `accu_ticket`, the sum of
  its subtree, and the pick descends the tree.

Both policies update `total_ticket` and `lucky_ticket` under only their
runqueue's lock. `prio_changed_lottery` changes a task's tickets. A shared
event log (`register_lottery_event`) records enqueues, dequeues and picks.

The harness works as follows:
- `lottery_system.c` forks one `lottery_task` per configured task;
- it waits for each child's SIGUSR2 with `pause()`;
- it starts them all with SIGUSR1 and reaps them.

`lottery_system_fair.c` replaces the handshake with `sleep(1)` and an alarm
that ends the simulation with `kill(pid, SIGUSR2)`. The children run
`lottery_task.c`: they install their handlers, signal the parent, wait to be
started, and exit on SIGUSR2.

## 2. Modules

- **`HashIndex`**: `hash.c`.
  - `AddProbe`/`HashAdd` and `SearchProbe`/`HashSearch` are recursive
    operators that translate the probe loops.
  - `InvalidBucket` and `ResetTable` are the bucket parts of `invalid_pg` and
    `format`.
  - A standalone variable `table` with actions `Insert` (the
    search–invalidate–add of `set_keyval`), `Remove` (`del_key`) and `Reset`
    (`format`) checks the table under every sequence of engine calls.
  - Reference operators (`RefAddSlot`, `RefSearch`: the first bucket on the
    probe sequence with a property) state what the loops should compute.
- **`FlashKV`**: `core.c`. It uses `HashIndex` through `INSTANCE`.
  - Variables: `device` (page images), `blocks`, `hashtable`, `lists` (each
    block's valid list, head first, as `list_add` builds it), `read_only`,
    `meta_blkordr`, `is_gb`, `erase_lock`, `write_cnt` (gc_check's static),
    `recent_update`, `pc` (per client thread: idle, in gc_check, between the
    load and the store of `write_cnt++`, before `write_cnt = 0`, or spinning
    for a forced flush), `cnt` (the `write_cnt` value each thread loaded),
    `bug` (an oops: `BUG()`, an out-of-bounds index, or `list_del` of a
    poisoned entry), and three history variables: `reply` (the last
    answer), `unflushed` (a set returned since the last forced flush) and
    `counted` (gc_check calls since the last one that decided a flush).
  - Every C function that changes state is a transformer of a record `St`
    that returns the new state and the return value: `WritePage`, `WriteHdr`,
    `InvalidPg`, `GetHealthyBlock`, `GetNextBlockToWrite`, `FormatSingle`,
    `GcWalk`, `GcAppend`, `GcBody`, `GcCall`, `FlushSelect`, `FlushReuse`,
    `MarkMeta`, `FlushWrite`, `FlushBody`, `SetBody`, `GetResult`,
    `FormatAll`.
  - A handler is the sequence of its calls, so each action is the whole
    handler. `Then` skips the calls after an oops.
  - Actions:
    - `SetTooBig`, `SetReadOnly` and `SetKeyval`: the return paths of
      `set_keyval`;
    - `GcCheck` (gc and the load of `write_cnt`), `GcCount` (the store of
      `write_cnt++` and its test), `GcReset` (`write_cnt = 0`): gc_check
      runs outside `erase_lock`, so two writers interleave here;
    - `FlushForced`, `GetKeyval`, `DelKey` and `Format`;
    - `GcTick` and `FlushTick`: the timers.
- **`KVStore`**: the abstract store that spec.md promises (sections 6–8). It
  has a map and a reply, and the actions set, set-rejected, get, delete and
  format. `FlashKV` maps `dict[k]` to what `get_keyval` would read now
  (`Lookup`) and `reply` to `AbsReply`. The property `ImplementsKVStore` is
  `KV!Spec`.
- **`SerialKV`**: `src/p6/prototype-serial/kernel/core.c`. This engine has
  no locks and no timers. `set_keyval` itself calls `gb_check()` (and so
  `gc()`), and then `flush_metadata()` when a clock test passes. The module
  is unloaded with a final flush (`lkp_kv_exit`) and loaded with
  `init_config`/`init_scan`, which rebuild `blocks[]` and `hashtable[]` from
  the metadata pages on the flash.
  - It has the same variables as `FlashKV`, plus `durable`, a history
    variable. `durable` holds what every key read after the last completed
    flush, whether a client write came since, whether power was ever lost,
    and the keys a gc or a completed flush made read differently.
  - A metadata page is the image `MetaPg(q, snap)`. `snap` is `blocks[]` and
    `hashtable[]` as `flush_metadata` copied them into its buffer (line 422,
    after the new blocks were chosen and before they are written).
  - `Recover(d)` is `init_scan` on the pages `d`:
    - a header `META_HDR_BASE, j` makes the block `meta_blkordr[j]`;
    - with no header, `format()` runs;
    - otherwise the first `nb_meta_pages` pages of the buffer are copied back,
      the valid-page lists are rebuilt, and `read_only` is recomputed;
    - a missing block or a buffer that is not one snapshot is an oops.
  - The record `St` carries `trail`, the device after each erase or program
    of the handler. `PowerLossInFlush` recovers from any prefix of a flush;
    `PowerLoss` recovers between calls.
  - Actions: `SetTooBig`, `SetReadOnly`, `SetKeyval(k, v, flush)` (the
    whole handler with gb_check and, when `flush`, flush_metadata),
    `GetKeyval`, `DelKey`, `Format`, `Reload`, `PowerLoss`,
    `PowerLossInFlush`.
  - `Bind(e, F)` is `F(e)` with `e` computed once. TLC does not cache LET
    values when it collects coverage, and the handler chains would otherwise
    be recomputed exponentially often.
  - The serial `hash.c` is the same code as the parallel one, so `SerialKV`
    uses `HashIndex`. The serial `INVALID_THRESHOLD` is a constant of the
    model.
- **`MetaScan`**: metadata recovery of the parallel engine. It covers the
  part of `flush_metadata` that chooses and writes a metadata generation, and
  the first half of `init_scan`, which finds and loads it.
  - The metadata buffer is abstracted. Each page of `blocks[]` and
    `hashtable[]` is a tag `<<"pg", p, g>>`: page `p` as generation `g` had
    it. `RecoversLastFlush` asks whether the load puts every page back where
    it was.
  - Variables:
    - `dev`: the flash pages;
    - `meta`: `meta_blkordr`;
    - `ram`: the tables;
    - `gen`: the generation in memory;
    - `pc`, `after`, `i` and `jack`: the page loop's position;
    - `durable` and `durMeta`: history variables holding the last completed
      flush;
    - `loaded`: a load happened since that flush;
    - `torn`: a history variable; power was lost inside a flush since the
      last complete one;
    - `bug`: a `BUG()`, a `BUG_ON` or a write to a block index < 0.
  - The wear-levelled block choice is nondeterministic among the least-worn
    candidates (`Winners`, `Choose`). `Recycle` translates the loop that
    reuses the old metadata blocks when no free block is left.
  - `StartFlush` covers the choice, the erase of the old generation and the
    header, and `FlushPage` writes one page.
  - `Slot` and `Target` translate the loop's page and block arithmetic.
  - `ScanBlocks` and `ScanPages` translate `init_scan`'s header scan and its
    routing of pages into the buffer.
  - Actions:
    - `Update`: a write changes the tables;
    - `Flush`: the flush timer or a forced flush;
    - `ExitModule`: the final flush of `lkp_kv_exit`;
    - `FlushPage`;
    - `Crash`: power loss, enabled by the constant `Crashes`;
    - `LoadModule`: `init_scan`.
- **`LotterySched`**: the list policy of `sched_lottery.c`, with one list per
  CPU and the globals `total_ticket` and `lucky_ticket`.
  - Each CPU has a program counter `pc[c]`. Its handlers are the steps it
    takes under its own `rq->lock`.
  - `total_ticket += x` is a load (into `tmp[c]`) and a `TotalStore`, and
    wraps at `2^TicketBits`. The draw (`DrawLucky`) and the list walk
    (`PickWinnerTask`, which re-reads `lucky_ticket`) are separate steps.
    Two CPUs can therefore interleave on the globals.
  - Actions:
    - `EnqueueTask` and `DequeueTask`;
    - `TotalStore`;
    - `PrioChangedLottery`;
    - `PickNextTaskLottery`;
    - `TaskTickLottery`: `check_preempt_curr_lottery`;
    - `DrawLucky`, `PickWinnerTask` and `ReturnWinner`.
- **`LotteryTree`**: the red-black-tree policy on one runqueue.
  - A subtree is the tuple `<<left, task, right, accu_ticket>>`.
  - `lib/rbtree.c` is not in the repository. Its rotations keep the in-order
    sequence, so after `LinkNode` inserts a task, `Shapes` lets
    `rb_insert_color`/`rb_erase` leave any tree with that sequence.
  - `UpdatePostorder` recomputes `accu_ticket` (`recalc_accu_lottery`), and
    `PickRb` is the descent of `pick_winner_rb_task`.
  - Actions: `EnqueueTaskRb`, `DequeueTaskRb`, `PrioChangedRb` and
    `PickNextTaskRb`.
- **`LotteryLog`**: `register_lottery_event`.
  - The bound check, the entry write at index `lines` and the load and store
    of `++lines` are four steps of a CPU: `CheckLines`, `WriteEntry`,
    `LoadLines` and `StoreLines`.
  - `accepted` records the events that passed the check, and `overrun`
    records the writes past the array.
  - A call that finds the log full changes nothing (the `printk` branch).
- **`LotterySchedLog`**: `LotterySched` and `LotteryLog` composed, each taken
  in with `INSTANCE` (the log's `pc` and `tmp` renamed `lpc` and `ltmp`).
  - Each handler that reports to the log ends with its
    `register_lottery_event` calls, made by the same CPU before it returns:
    `EnqueueTask` owes an EN line (after the `total_ticket` store),
    `DequeueTask` a DE line and, for an exiting task, a DONE line, and
    `PickWinnerTask` a WIN line and, inside `pick_next_task_lottery`, a PICK
    line.
  - `pend[c]` holds the calls CPU `c` still owes. The CPU starts no other
    handler (`Free(c)`) until they have returned through the log's four steps.
  - `what[e]` records which scheduler event log event `e` reports: the
    `msg` text the code formats. `dead` holds the tasks that exited; they
    are never enqueued again.
  - `init_lottery_event_log`'s own line is owed by one CPU at `Init`.
- **`LotterySystem`**: the harness, one parent and the children of `Children`.
  - The variable `harness`, chosen by `Init` from the constant `Harnesses`
    and fixed for the behaviour, selects the parent program:
    - `"pause"` is `lottery_system.c`: a pause/SIGUSR2 handshake per child;
    - `"sleep"` is `lottery_system_fair.c`: `sleep(1)` per child, and an
      `ITIMER_REAL` alarm whose handler sends SIGUSR2 to every pid.
  - Signals are pending flags: `usr2` for the parent, and `usr1[c]` and
    `usr2c[c]` for each child. Standard signals do not queue. A handler runs
    when its process next runs, and a signal with the default action
    terminates the process.
  - The fair harness passes the child `argv[4] = "0.000000"`, so the child's
    `kill(atoi(argv[4]), SIGUSR2)` is `kill(0, ...)`, a signal to the whole
    process group: the parent and every child forked so far. A pid of 0 in
    `end_simulation` (a task not yet forked) has the same effect.
  - Parent actions: `ForkChild`, `Pause`, `SleepDone`, `ParentSignal` or
    `ParentKilled` (which of the two depends on `harness`), `Alarm`,
    `StartSimulation` and `WaitChild`.
  - Child actions:
    - `ChildExec`: `execv`, which may fail when `ExecCanFail` holds;
    - `ChildHandlers`;
    - `ChildSetScheduler`;
    - `ChildNotify`: the `kill` to the parent, then `pause()`;
    - `ChildSignal`: SIGUSR1 runs `do_work`, or kills the child before its
      handlers are installed;
    - `ChildEndTask`: SIGUSR2 runs `end_task`, or kills the child before its
      handlers are installed.
- **`MC_*` modules**: the model values and definitions that the `.cfg`
  files use.

Data abstraction:
- Keys and values are model values.
- A page is an image record: erased, zero (data header), metadata header,
  metadata page, record, or garbage.
- `Program` is the NAND AND of programming a page that is not erased:
  - with a zero image, the result is zero;
  - two records of one key with different values give `Mangled`;
  - anything else gives garbage.
- `djb2 % HASH_SIZE` is the constant function `HashOf`.
- `metadata_size / page_size` is the constant `NMetaPages`.
- `gc()` returns at once when `pages_per_block < 64`; that bound is the
  constant `GC_MIN_PPB`, set to the model's PPB.

## 3. Runs

The runs listed in `PROJECT.json`:

| Run | cfg | Expect | What it shows |
|---|---|---|---|
| `hash_index` | `MC_HashIndex.cfg` | pass | `TombstoneChain` holds: each bucket a probe passes on the way to a valid key is dirty. `AddMatchesReference` holds: `hash_add` takes the first free bucket of the probe sequence. |
| `engine` | `MC_FlashKV.cfg` | pass | Through every interleaving of sets, gets, deletes, formats, gc from both triggers and flushes, up to read-only mode and oops states, five invariants hold (listed below the table). |
| `engine_refines_kvstore` | `MC_FlashKV_refine.cfg` | violation | The third set of one key on a fresh device returns 0, but the record overwrote block 1's header and `get_keyval` returns -3 (core.c:1074). |
| `engine_lock` | `MC_FlashKV_lock.cfg` | violation | With the two data blocks full and the metadata block not full, `read_only` is 0 but no block is eligible. `set_keyval` returns -3 holding `erase_lock`, after it invalidated the key's old record (13 steps). |
| `engine_timers` | `MC_FlashKV_timers.cfg` | pass | One key, one writer, both timers weakly fair (10,217 states). A block over the gc threshold is eventually collected (`GcEventuallyCollects`): gc()'s inverted `is_gb` test makes every other timer call return at once, but the next one collects. |
| `serial` | `MC_SerialKV.cfg` | pass | Power is lost between calls or after any erase or program of a flush. Through every sequence of sets (with and without the clock-triggered flush), gets, deletes, formats, reloads and power losses, the recovered lists hold only valid buckets (`ListedAreValid`), `read_only` implies a full device (`ReadOnlySound`) and gc loses no value (`GcKeepsValues`): with four pages a block and a threshold of two invalid pages, a block gc collects can still hold the key's live record, which gc copies back. |
| `serial_powerloss` | `MC_SerialKV_powerloss.cfg` | violation | `RestartUnlessFlushLost` (a restart reads what was read before the last completed flush, on runs where no flush itself lost a key), in 6 states. Set k1 twice (the second with a flush), then set k2. Power is lost and init_scan restores offsets older than the flash. The exit flush writes its header onto a programmed page and gets zero. The next load finds no header and formats the device, so k1 is lost. |
| `metascan` | `MC_MetaScan.cfg` | pass | Power may be lost at any step. The tables, the block table and `meta_blkordr` keep their shape and metadata is never placed on a data block (`TypeOK`). With one metadata block and a geometry that fits, recovery and the BUG()-freedom of the flush would hold only because the bounds exclude the order, recycle and fit bugs, which the counterexample configurations below show; they are not claimed here. |
| `metascan_crash` | `MC_MetaScan_crash.cfg` | violation | The first flush, with nothing to erase: the metadata header and page 0 are written (the header first, core.c:643), power is lost, and `init_scan`, which trusts any block with a header (core.c:348-395), loads the block's erased pages. spec.md §3 says a crash leaves the old or the new generation intact. The early erase of `meta_blkordr_pre` (core.c:565) opens the same window on later flushes. |
| `sched` | `MC_LotterySchedLog.cfg` | pass | The list scheduler composed with its event log, on one CPU with one priority change and a four-line log. Through `prio_changed_lottery` the draw range `1..total_ticket` still covers every queued task's tickets (`EveryQueuedTaskCanWin`). The ticket, walk and log properties of these modules hold on one CPU only by construction (one CPU's calls cannot interleave), so they are checked where they fail, on two CPUs, by the counterexample configurations below. |
| `tree` | `MC_LotteryTree.cfg` | pass | Under every tree shape rebalancing can leave, after `recalc_accu_lottery` the descent picks the task the weighted walk of the in-order sequence picks (`PickMatchesFreshTree`). |
| `harness` | `MC_LotterySystem.cfg` | pass | Both parent programs, three children. Under `lottery_system.c` no child is killed by a SIGUSR1 sent before its handler (`NoChildKilled`), and once the handshake completes every task runs and is reaped (`SimulationCompletes`). `lottery_system_fair.c` always ends, with the parent killed or every task reaped (`FairHarnessEnds`). |

Further counterexample configurations are kept beside the runs. Each one checks one property, and TLC finds it violated. The findings in `PROJECT.json` say what each one shows; their `run` is empty because they are not among the runs.

| cfg | Property | What TLC finds |
|---|---|---|
| `MC_HashIndex_search.cfg` | `SearchMatchesReference` | Three keys with one hash: the third is stored at probe distance 2 = HASH_SIZE-1 and `hash_search` returns -1 for it (hash.c:63). |
| `MC_FlashKV_oops.cfg` | `NoKernelBug` | After the misplaced record of the `engine_refines_kvstore` run, gc's walk of block 0's list breaks and `format_single` unlinks a bucket that stays valid. The next set of the key calls `list_del` on a poisoned entry (9 steps). |
| `MC_FlashKV_flushlive.cfg` | `SetEventuallyFlushed` | Two sets, then no more calls. `flush_timer_callback` runs, but `flush_metadata(false)`'s inverted `atomic_cmpxchg` test sends it to the exit that clears `recent_update` without writing (core.c:472). `write_cnt` is 2, so no forced flush comes either, and the records never reach the metadata. |
| `MC_FlashKV_cntrace.cfg` | `FlushCadence` | Two writers in gc_check both load `write_cnt = 1` and both store 2. Three calls pass and none decides the forced flush (core.c:720). |
| `MC_SerialKV_flush.cfg` | `FlushKeepsValues` | Reload, format, then a set with a flush. `format()` kept the old `meta_blkordr`, the set wrote into that block, and the flush erased it first (core.c:404). |
| `MC_SerialKV_midflush.cfg` | `RestartUnlessFlushLost` | Power is lost after the new header and before its pages (core.c:429). The load copies erased pages as `blocks[]`. The erase-first order of line 404 gives the same result. |
| `MC_SerialKV_stride.cfg` | `GcKeepsValues` | Two records longer than `pages_per_block` bytes in one gc target. The first one written back has a mangled value (core.c:1163). With `LongVals = {}` the same model passes (118,681 states). |
| `MC_MetaScan_order.cfg` | `RecoversLastFlush` | With two metadata blocks, `init_scan` loads the hash pages in physical block order, not in `meta_blkordr` order. When the chosen blocks are in descending order, the tables come back permuted (core.c:390). |
| `MC_MetaScan_recycle.cfg` | `NoMetaBug` | With no free block left, the recycle loop never sets `meta_blkordr[k]`. It stays -2 and the page loop writes to block -2 (core.c:583). |
| `MC_MetaScan_fit.cfg` | `NoMetaBug` | `nb_blocks = nb_pages / PPB + 1` ignores the header page of each block. With 5 pages in blocks of 3, the page loop runs past the chosen blocks (core.c:495). |
| `MC_LotterySched_priototal.cfg` | `TicketConservation` | One `prio_changed_lottery` re-adds every listed ticket: `total_ticket` exceeds the queued tickets. |
| `MC_LotterySched_smprace.cfg` | `TicketConservation` | Two CPUs load `total_ticket` under different `rq->lock`s and one store is lost. |
| `MC_LotterySched_smpidle.cfg` | `PickFindsQueuedTaskExactTotal` | Even with an exact total, a CPU draws over all CPUs' tickets and walks only its own list: NULL with tasks queued. |
| `MC_LotterySched_tick.cfg` | `TickPreemptsCurrent` | A tick whose lottery another task wins never marks the running task for rescheduling: `resched_task` is called on the winner. |
| `MC_LotteryTree_stale.cfg` | `PickMatchesList` | After `prio_changed_lottery` the cached `accu_ticket` sums are stale, and the descent picks another task or none. |
| `MC_LotteryTree_total.cfg` | `TicketConservationRb` | Under the tree policy `prio_changed_lottery` leaves `total_ticket` unchanged, so it no longer equals the tree's tickets. |
| `MC_LotteryLog_smp.cfg` | `EventsKept` | Two CPUs write the same line before either increments `lines`, and an event is lost. |
| `MC_LotteryLog_overrun.cfg` | `WritesInBounds` | Two CPUs pass the bound check at the last free line, and one writes past the array. |
| `MC_SerialKV_roundtrip.cfg` | `RestartAfterFlushNoPowerLoss` | No power loss: a reload, `format()` (which keeps `meta_blkordr`), a set of k1 into the block `meta_blkordr` still names, and a reload. The exit flush erases that block first (core.c:404) and k1 reads -1 after `init_scan` (core.c:999). |
| `MC_LotterySchedLog_smp.cfg` | `LogConsistent` | On two CPUs an EN line is overwritten by the other CPU's line, and the log then shows a WIN for a task it never enqueued. |
| `MC_LotterySystem_hang.cfg` | `ParentFinishes` | A child's SIGUSR2 that arrives before the parent's `pause()` runs the handler early, and the parent then pauses forever. |
| `MC_LotterySystem_fairkill.cfg` | `ParentSurvives` | The alarm fires before every task is forked. `end_simulation` sends `kill(0, SIGUSR2)` for the unforked ones, which kills the parent (lottery_system_fair.c:147). |
| `MC_LotterySystem_childkill.cfg` | `ParentSurvivesChildren` | The first child to get ready sends `kill(0, SIGUSR2)`. The parent has no SIGUSR2 handler and dies (lottery_system_fair.c:192). |

The five invariants of the `engine` run:
- `TombstoneChain`: the hash chains stay searchable.
- `ReadOnlySound`: `read_only` implies the blocks are full.
- `FrontierErased`: every page at or after a block's offset is erased.
- `ListedAreValid`: every list entry is a valid bucket and is listed once.
- `GcWriteBackFits`: gc's write-back never reaches its `BUG()`
  (core.c:2108). The victim the merge search, the free-block search or the
  fall-back to the target picks always takes every kept record without the
  device turning read-only. This holds on the engine instance, although the
  instance reaches the other oops of gc (`MC_FlashKV_oops.cfg`).

Each property of a passing run has a mutant in `PROJECT.json`: a plausible
slip in the code it is about, which TLC then catches.

| Mutant | Caught by |
|---|---|
| dirty written as a counter | `TypeOK` |
| tombstone not marked | `TombstoneChain` |
| probe loop one short | `AddMatchesReference` |
| `>` for `>=` in gc_check | `TypeOK` |
| `invalid_pg` clearing dirty | `TombstoneChain` |
| gc erasing the victim instead of the target (the commented-out `format_single(victim_blk)`) | `GcWriteBackFits` |
| erase not clearing `read_only` | `ReadOnlySound` |
| `write_page` not advancing the offset | `FrontierErased` |
| `invalid_pg` without `list_del` | `ListedAreValid` |
| timers: gc's `is_gb` exchange that never arms | `GcEventuallyCollects` |
| serial: `format_single` leaving `current_page_offset` unreset | `TypeOK` |
| serial: gc write-back one record short | `GcKeepsValues` |
| serial: `invalid_pg` without `list_del` | `ListedAreValid` |
| serial: `is_read_only` one page early | `ReadOnlySound` |
| MetaScan: the wear-levelling scan also taking data blocks (`WinnersAny`) | `TypeOK` |
| sched: `remove_task` that does not unlink | `TypeOK` |
| sched: `prio_changed_lottery` not touching `total_ticket` | `EveryQueuedTaskCanWin` |
| tree: insert replacing a node with equal tickets instead of going right | `TypeOK` |
| tree: `update_postorder` summing only the left subtree | `PickMatchesFreshTree` |
| harness: `wait` that does not block | `TypeOK` |
| harness: no `pause()` after a fork | `NoChildKilled` |
| harness: SIGUSR1 loop one child short | `SimulationCompletes` |
| harness: `wait` loop one child short | `FairHarnessEnds` |

## 4. Bounds, and why they are enough

- `MC_HashIndex`: HASH_SIZE 3, three keys hashing to one bucket, page indices
  {0,1}. Every probe distance up to HASH_SIZE-1 occurs, and so do deletes in
  the middle of a chain.
- `MC_FlashKV`: 3 blocks of 3 pages, so HASH_SIZE 6. A block holds a header
  and two records, so blocks fill, switch and are collected within a few
  sets.
  - Keys k1 and k2 collide, and there is one storable value and one
    oversized value.
  - `INVALID_THRESHOLD = INVALID_THRESHOLD2 = 1`, so gc runs as soon as a
    page is invalid.
  - `FLUSH_THRESHOLD2 = 2`, so a forced flush comes every third write.
  - `MaxWorn = 2` is a bound in the guards: no erase takes a block past two
    erasures. It is what makes the state space finite.
  - `NMetaPages = 2` in the pass run makes the metadata block full, so
    read-only mode is reachable. With `NMetaPages = 1` (the `lock` and `oops`
    runs) the metadata block is not full, and data blocks can fill while
    `read_only` stays 0.
- The pass run reaches 1,069,320 distinct states in about 75 s. Every action
  fires in it, including `SetTooBig` and `SetReadOnly`.
- One client thread is enough for the `engine` run: the handlers are atomic
  under `erase_lock`, and the timers are the second and third actors. The
  second thread matters only in gc_check, outside the lock, and
  `MC_FlashKV_cntrace.cfg` has two.
- `MC_FlashKV_timers.cfg` (the `engine_timers` run) is the same geometry
  with one key: 10,217 states, in which blocks still fill and are collected
  and both gc triggers and both flush paths fire. The liveness check over
  the `engine` instance's million states did not finish in 30 minutes.
- `MC_SerialKV`: the `serial` run uses 2 blocks of 4 pages, one metadata
  page, one key, `INVALID_THRESHOLD = 2` and `MaxWorn = 2`. It has power
  loss between calls and after every device operation of a flush, and
  reaches 49,628 states. Four pages a block leave a live record beside
  two invalid ones when gc runs, so the write-back has something to keep;
  with three, the threshold only ever picks blocks holding nothing live.
  Long values are left out here: with them gc's stride corrupts records,
  which `MC_SerialKV_stride.cfg` shows.
  - With one key on three blocks, every full layout has a gc target, so
    read-only mode could not be reached there. On two blocks it is reached.
  - Two keys on this instance did not finish in 15 minutes.
  - The counterexample configurations use 3 blocks and two colliding keys
    (with `SYMMETRY`, sound because the model treats them alike) or, for
    the stride, 4 pages per block, so that a gc target holds two valid
    records.
  - Without power loss, the 3-block, two-key instance reaches 154,069
    states in about 45 s. Every action of that instance except the power
    losses also fires in the `serial` run, so the project checks the
    smaller instance with power loss instead. The round-trip property
    `RestartAfterFlushNoPowerLoss` fails on both (`MC_SerialKV_roundtrip.cfg`):
    `format()` keeps `meta_blkordr`, so the exit flush erases live data.

- `MC_MetaScan`: 4 blocks of 4 pages, one `blocks[]` page and two hash
  pages. That makes 3 metadata pages and `nb_blocks = 1`: one block holding
  a header and three pages.
  - Block 1 holds data, so wear levelling has candidates to skip.
  - `MaxGen = 2` caps the updates, which allows two full flushes with a
    table change between them.
  - Power can be lost after every erase and program of both flushes and of
    the exit flush, and between them (9,040 states).
  - Each counterexample configuration uses the smallest geometry that
    reaches its case:
    - `order`: blocks of 3 pages and 3 hash pages, so two metadata blocks;
    - `recycle`: 3 blocks, two of them data, so no free block is left;
    - `fit`: 5 pages in blocks of 3.
- `MC_LotterySched`: two tasks with 1 or 2 tickets, and `total_ticket` 4
  bits wide (3 in the SMP configurations). In the C code it is 64 bits. The
  model keeps the unsigned wrap-around as `% 2^TicketBits`.
  - The `sched` run (`MC_LotterySchedLog`) uses one CPU, one priority
    change and a log of 4 lines: the boot line and three more, enough for
    EN, DE and a WIN of the same task (2,269,518 states, 40 s). The
    priority change is one rather than two to keep the composed run short;
    the re-adding loop of `prio_changed_lottery` already inflates the total
    on the first call.
  - The SMP counterexamples use two CPUs.
- `MC_LotteryTree`: four tasks with tickets {1,2}, two of each. Equal
  tickets exercise the "equal goes right" insert, and four nodes give trees
  of depth 3. Up to one priority change (94,739 states).
- `MC_LotteryLog`: the two counterexample configurations use 2 lines and
  2 CPUs, the smallest case of each race.
- `MC_LotterySystem`: both programs with three children (41,741 states,
  4 s). Three are enough for the alarm of the fair harness to fire before,
  during and after the forks, and for a handshake to be in progress while
  others are done.
  - A fourth child would make the liveness check of the fair harness take
    98 s, for no new order of events.
  - `ExecCanFail` lets `execv` fail in the pass runs.

## 5. Fairness

The hrtimers re-arm themselves (`HRTIMER_RESTART`), so the `FlashKV` `Spec`
assumes weak fairness of `GcTick` and `FlushTick`. A thread inside
`set_keyval` runs on to its return, so its `GcCheck`, `GcCount`, `GcReset`
and `FlushForced` steps are weakly fair too. The forced flush is a trylock
retried in a loop, so it is enabled whenever `erase_lock` is free. Clients
are not obliged to call.

For the actions whose bodies call `gc()` or `flush_metadata()`, the
weak-fairness conjuncts are written `<>[]en => []<><<A>>_vars`, with `en` a
state predicate equal to `ENABLED <<A>>_vars`: `GcTickEnabled`,
`GcCheckEnabled`, `FlushForcedEnabled`. TLC evaluates `ENABLED` of those
bodies without caching their `LET`s, which did not finish even on the first
state. `GcTickEnabled` is computed from `GcCall` itself, so a mutant of
the call changes its enabledness too. On every reachable state of both
FlashKV instances it agrees with the condition read off the code.

`LotterySystem` assumes weak fairness of the parent and of each child
(`WF_vars(Parent)`, `WF_vars(Child(c))`). The kernel eventually runs every
runnable process and delivers its pending signals. A process blocked in
`pause()` or `wait()` is not enabled, so this fairness never forces it past
the block. The liveness properties `SimulationCompletes`, `ParentFinishes`
and `FairHarnessEnds` are checked under it.

`LotterySched`, `LotteryTree`, `LotteryLog`, `LotterySchedLog` and `MetaScan` have no fairness.
They check safety only. Nothing in the scheduler obliges a CPU to schedule,
or a user to update the store or reload the module.

`CHECK_DEADLOCK FALSE` is set where the system really stops:
- in every engine cfg, because after an oops every action requires
  `bug = "none"`;
- in `LotterySystem`, because the harness ends once every child is reaped;
- in `LotteryLog`, because a CPU's event budget runs out;
- in `MC_LotterySchedLog_smp.cfg`, for the same reason.

The `sched` run (`MC_LotterySchedLog.cfg`), the `LotteryTree` cfgs and the
`MetaScan` cfgs check deadlock: on one CPU the log fills up and every
later call takes the full branch, so the scheduler never stops.

## 6. Not modelled, and the plan

- **Crash and restart of the whole parallel engine.** `MetaScan` models
  power loss inside the parallel `flush_metadata` and the reload by
  `init_scan`, on the metadata alone. `SerialKV` models crashes of the whole
  serial engine. `FlashKV` still has no crash, and client data written since
  the last flush is not tracked across a reload.
- **Liveness of the engine on the large instance**: `GcEventuallyCollects`
  is checked on the one-key instance only (see §4). A leaked `erase_lock`
  (the `engine_lock` run) stops gc for good, and the property exempts it.
- **Metadata block count arithmetic**: `MetaScan`'s `fit` run shows
  `nb_pages/PPB+1` blocks falling short.
- **The second half of `init_scan`**: the valid-page lists, the reset of
  blocks with the `0xFFFFFFFF` marker, and `is_read_only`. `MetaScan` stops
  once the tables and `meta_blkordr` are loaded. `write_hdr`'s ignored
  return value (core.c:643) is listed as a hazard with no property yet.
- **Lottery scheduler**:
  - the hooks of the class that change no state (`yield_task`,
    `set_curr_task`, `switched_to`, `switched_from`, `get_rr_interval`);
  - `lib/rbtree.c`, abstracted to the in-order-preserving `Shapes`;
  - `sched.c`'s locking beyond one `rq->lock` per CPU;
  - load balancing between CPUs.
  - `pick_winner_task`'s `% total_ticket` with a total of 0 is listed as a
    hazard. The model's guards follow the code's `total == 0` checks.
- **Lottery harness**: the configuration-file parser and `argv` formatting,
  modelled only by their consequence (`argv[4]` is `"0.000000"`), and
  `do_work`'s busy loop, which is one step ending in `exit`.
- **`core_bak.c`**: an older copy of the parallel engine that does not
  compile (a stray `meta_config` at line 4).
- **The serial engine's byte-level buffers**: the `init_scan` read of
  `cnt*(ppb-1)` pages into a buffer of `nb_meta_pages` pages, which always
  overflows it; and erase failures (`format_single` returning -1).
- **Left out on purpose**:
  - `lkp_kv_exit`'s teardown after its final flush (`device_exit`,
    `destroy_config`: frees and releases the MTD devices); the final flush
    itself is modelled (`ExitModule`, and `Reload` in `SerialKV`);
  - the dead code (`gc_merge`, `update_meta_blocks`, `meta_on_disk_format`,
    `write_meta_page`, `read_meta_page`);
  - byte layouts (the serial gc stride is modelled by its effect,
    `Overlapped`);
  - the device node;
  - the user programs;
  - the other course projects (p1, p2, p4, p5): single-threaded user
    programs and module boilerplate with nothing for a model checker to
    interleave.
