--------------------------- MODULE LotterySched ---------------------------
(***************************************************************************)
(* The lottery scheduling class of src/p3/.../kernel/sched_lottery.c,     *)
(* list policy (CONFIG_SCHED_LOTTERY_RB_POLICY unset; the red-black tree  *)
(* policy is LotteryTree).                                                 *)
(*                                                                         *)
(* Every CPU has its own runqueue, protected by its rq->lock, but the      *)
(* ticket total total_ticket and the drawn lucky_ticket are single globals *)
(* that every CPU reads and writes without a lock.  A read-modify-write   *)
(* "total_ticket += x" is therefore two steps, a load into a register and *)
(* a store, and the draw and the list walk of pick_winner_task are two    *)
(* steps that re-read lucky_ticket.  All other work of a handler happens  *)
(* under the CPU's own rq->lock and is one step.                          *)
(***************************************************************************)
EXTENDS Integers, Sequences, FiniteSets, SequencesExt

CONSTANTS
    CPUs,            \* the CPUs, each with its struct rq
    Tasks,           \* SCHED_LOTTERY tasks
    Tickets,         \* rt_priority values a task's ticket can take
    NoTask,          \* NULL task / an idle CPU
    TicketBits,      \* width of unsigned long long total_ticket, scaled down
    PrioChanges,     \* whether sched_setscheduler reaches prio_changed_lottery
    MaxPrioChanges   \* bound on prio_changed_lottery calls

ASSUME Tickets \subseteq Nat \ {0} /\ NoTask \notin Tasks
ASSUME TicketBits \in Nat \ {0} /\ PrioChanges \in BOOLEAN /\ MaxPrioChanges \in Nat

M == 2 ^ TicketBits

VARIABLES
    rq,       \* rq[c]: lottery_list_head of CPU c, in list order
    nr,       \* nr[c]: lottery_rq.nr_running
    ticket,   \* ticket[t]: task_struct ticket
    total,    \* total_ticket (global)
    lucky,    \* lucky_ticket (global)
    curr,     \* curr[c]: the lottery task CPU c runs, or NoTask
    resched,  \* tasks with TIF_NEED_RESCHED set
    pc,       \* pc[c]: "idle", "store" (a total_ticket store pending),
              \*   "draw", "walk" (inside who_is_winner) or "done"
    op,       \* op[c]: "pick" or "tick", the caller of who_is_winner
    win,      \* win[c]: the task who_is_winner returned to CPU c
    tmp,      \* tmp[c]: total_ticket as loaded by CPU c
    delta,    \* delta[c]: what CPU c adds to the loaded total
    changes   \* prio_changed_lottery calls so far

vars == <<rq, nr, ticket, total, lucky, curr, resched, pc, op, win, tmp, delta, changes>>

Queued(t) == \E c \in CPUs : t \in Range(rq[c])

\* Mutant: the entry is never unlinked.
RemoveTaskKept(q, t) == q

\* list_del: the task leaves the list.
RemoveTask(q, t) == SelectSeq(q, LAMBDA x : x # t)

\* list_for_each_entry in pick_winner_task: the first task at which the
\* running sum of tickets reaches lucky, or NULL when the list runs out.
RECURSIVE WalkList(_, _, _, _)
WalkList(q, tk, soFar, lk) ==
    IF q = <<>> THEN NoTask
    ELSE IF soFar + tk[Head(q)] >= lk THEN Head(q)
    ELSE WalkList(Tail(q), tk, soFar + tk[Head(q)], lk)

\* The tickets of the tasks on a list.
TicketSum(q, tk) == FoldSeq(LAMBDA t, acc : acc + tk[t], 0, q)

Init ==
    /\ rq = [c \in CPUs |-> <<>>]
    /\ nr = [c \in CPUs |-> 0]
    /\ ticket \in [Tasks -> Tickets]
    /\ total = 0
    /\ lucky = 0
    /\ curr = [c \in CPUs |-> NoTask]
    /\ resched = {}
    /\ pc = [c \in CPUs |-> "idle"]
    /\ op = [c \in CPUs |-> "pick"]
    /\ win = [c \in CPUs |-> NoTask]
    /\ tmp = [c \in CPUs |-> 0]
    /\ delta = [c \in CPUs |-> 0]
    /\ changes = 0

\* enqueue_task_lottery: insert_lottery_task (list_add_tail) and
\* atomic_inc(nr_running) under rq->lock, then "total_ticket += p->ticket",
\* whose load is taken here and whose store is TotalStore.
EnqueueTask(c, t) ==
    /\ pc[c] = "idle"
    /\ ~Queued(t)
    /\ rq' = [rq EXCEPT ![c] = Append(@, t)]
    /\ nr' = [nr EXCEPT ![c] = @ + 1]
    /\ tmp' = [tmp EXCEPT ![c] = total]
    /\ delta' = [delta EXCEPT ![c] = ticket[t]]
    /\ pc' = [pc EXCEPT ![c] = "store"]
    /\ UNCHANGED <<ticket, total, lucky, curr, resched, op, win, changes>>

\* dequeue_task_lottery: remove_lottery_task and atomic_dec, then
\* "total_ticket -= p->ticket" with the ticket the task has now.  A running
\* task that blocks leaves the CPU to schedule().
DequeueTask(c, t) ==
    /\ pc[c] = "idle"
    /\ t \in Range(rq[c])
    /\ rq' = [rq EXCEPT ![c] = RemoveTask(@, t)]
    /\ nr' = [nr EXCEPT ![c] = @ - 1]
    /\ curr' = IF curr[c] = t THEN [curr EXCEPT ![c] = NoTask] ELSE curr
    /\ tmp' = [tmp EXCEPT ![c] = total]
    /\ delta' = [delta EXCEPT ![c] = -ticket[t]]
    /\ pc' = [pc EXCEPT ![c] = "store"]
    /\ UNCHANGED <<ticket, total, lucky, resched, op, win, changes>>

\* The store half of a "total_ticket += x" of CPU c, wrapping like the
\* unsigned 64-bit counter.
TotalStore(c) ==
    /\ pc[c] = "store"
    /\ total' = (tmp[c] + delta[c]) % M
    /\ pc' = [pc EXCEPT ![c] = "idle"]
    /\ UNCHANGED <<rq, nr, ticket, lucky, curr, resched, op, win, tmp, delta, changes>>

\* Mutant: the ticket changes and total_ticket is not touched.
PrioDeltaNone(c, p, tk, diff) == 0

\* What the loop of prio_changed_lottery adds to total_ticket: every
\* listed task's (new) ticket, and diff once more for p.
PrioDelta(c, p, tk, diff) ==
    TicketSum(rq[c], tk) + (IF p \in Range(rq[c]) THEN diff ELSE 0)

\* prio_changed_lottery(rq, p): diff = rt_priority - ticket; ticket =
\* rt_priority; then the list loop.  p is on this CPU's list or asleep.
\* The loop's read-modify-writes of total_ticket are one load and one
\* store here.
PrioChangedLottery(c, p, prio) ==
    /\ PrioChanges /\ changes < MaxPrioChanges
    /\ pc[c] = "idle"
    /\ p \in Range(rq[c]) \/ ~Queued(p)
    /\ LET tk == [ticket EXCEPT ![p] = prio]
       IN  /\ ticket' = tk
           /\ delta' = [delta EXCEPT ![c] = PrioDelta(c, p, tk, prio - ticket[p])]
    /\ tmp' = [tmp EXCEPT ![c] = total]
    /\ pc' = [pc EXCEPT ![c] = "store"]
    /\ changes' = changes + 1
    /\ UNCHANGED <<rq, nr, total, lucky, curr, resched, op, win>>

\* schedule() -> pick_next_task_lottery: NULL at once when total_ticket is
\* 0, else who_is_winner, which first clears lucky_ticket.  The CPU
\* schedules when its task left it or is marked TIF_NEED_RESCHED.
PickNextTaskLottery(c) ==
    /\ pc[c] = "idle"
    /\ curr[c] = NoTask \/ curr[c] \in resched
    /\ op' = [op EXCEPT ![c] = "pick"]
    /\ IF total = 0
       THEN /\ win' = [win EXCEPT ![c] = NoTask]
            /\ pc' = [pc EXCEPT ![c] = "done"]
            /\ UNCHANGED lucky
       ELSE /\ lucky' = 0
            /\ pc' = [pc EXCEPT ![c] = "draw"]
            /\ UNCHANGED win
    /\ UNCHANGED <<rq, nr, ticket, total, curr, resched, tmp, delta, changes>>

\* task_tick_lottery -> check_preempt_curr_lottery(rq, curr) with a lottery
\* task running: who_is_winner clears lucky_ticket.
TaskTickLottery(c) ==
    /\ pc[c] = "idle"
    /\ curr[c] # NoTask
    /\ op' = [op EXCEPT ![c] = "tick"]
    /\ lucky' = 0
    /\ pc' = [pc EXCEPT ![c] = "draw"]
    /\ UNCHANGED <<rq, nr, ticket, total, curr, resched, win, tmp, delta, changes>>

\* pick_winner_task, first half: NULL if total_ticket is 0, else
\* lucky_ticket = get_random_int() % total_ticket + 1.
DrawLucky(c) ==
    /\ pc[c] = "draw"
    /\ IF total = 0
       THEN /\ win' = [win EXCEPT ![c] = NoTask]
            /\ pc' = [pc EXCEPT ![c] = "done"]
            /\ UNCHANGED lucky
       ELSE /\ lucky' \in 1..total
            /\ pc' = [pc EXCEPT ![c] = "walk"]
            /\ UNCHANGED win
    /\ UNCHANGED <<rq, nr, ticket, total, curr, resched, op, tmp, delta, changes>>

\* pick_winner_task, second half: the list walk against lucky_ticket as it
\* is in memory now.
PickWinnerTask(c) ==
    /\ pc[c] = "walk"
    /\ win' = [win EXCEPT ![c] = WalkList(rq[c], ticket, 0, lucky)]
    /\ pc' = [pc EXCEPT ![c] = "done"]
    /\ UNCHANGED <<rq, nr, ticket, total, lucky, curr, resched, op, tmp, delta, changes>>

\* The caller uses the winner.  pick_next_task_lottery returns it (schedule()
\* clears the previous task's TIF_NEED_RESCHED); check_preempt_curr_lottery
\* calls resched_task(t->task) when the winner is not the ticking task p.
ReturnWinner(c) ==
    /\ pc[c] = "done"
    /\ IF op[c] = "pick"
       THEN /\ curr' = [curr EXCEPT ![c] = win[c]]
            /\ resched' = resched \ {curr[c]}
       ELSE /\ resched' = IF win[c] \notin {NoTask, curr[c]}
                         THEN resched \cup {win[c]} ELSE resched
            /\ UNCHANGED curr
    /\ pc' = [pc EXCEPT ![c] = "idle"]
    /\ UNCHANGED <<rq, nr, ticket, total, lucky, op, win, tmp, delta, changes>>

Next ==
    \E c \in CPUs :
        \/ \E t \in Tasks : EnqueueTask(c, t) \/ DequeueTask(c, t)
        \/ TotalStore(c)
        \/ \E p \in Tasks, prio \in Tickets : PrioChangedLottery(c, p, prio)
        \/ PickNextTaskLottery(c)
        \/ TaskTickLottery(c)
        \/ DrawLucky(c)
        \/ PickWinnerTask(c)
        \/ ReturnWinner(c)

Spec == Init /\ [][Next]_vars

-----------------------------------------------------------------------------

TypeOK ==
    /\ rq \in [CPUs -> Seq(Tasks)]
    /\ \A c \in CPUs : IsInjective(rq[c]) /\ nr[c] = Len(rq[c])
    /\ \A c, d \in CPUs : c # d => Range(rq[c]) \cap Range(rq[d]) = {}
    /\ ticket \in [Tasks -> Tickets]
    /\ total \in 0..(M - 1) /\ lucky \in 0..(M - 1)
    /\ curr \in [CPUs -> Tasks \cup {NoTask}]
    /\ resched \subseteq Tasks
    /\ pc \in [CPUs -> {"idle", "store", "draw", "walk", "done"}]
    /\ op \in [CPUs -> {"pick", "tick"}]
    /\ win \in [CPUs -> Tasks \cup {NoTask}]
    /\ changes \in 0..MaxPrioChanges

\* No total_ticket update is half done.
Quiescent == \A c \in CPUs : pc[c] # "store"

\* The tickets queued on all runqueues.
QueuedTickets == FoldFunctionOnSet(LAMBDA x, acc : x + acc, 0,
                     [c \in CPUs |-> TicketSum(rq[c], ticket)], CPUs)

\* total_ticket, which enqueue/dequeue/prio_changed keep up to date, is the
\* sum of the tickets of the queued tasks whenever no update is in flight.
TicketConservation == Quiescent => total = QueuedTickets % M

\* The same until the first prio_changed_lottery (whose re-adding loop
\* breaks it by design of that handler): enqueue and dequeue alone keep
\* total_ticket exact.
TicketConservationBeforePrio == changes = 0 => TicketConservation

\* Every task on a runqueue can win: the draw range 1..total_ticket covers
\* the tickets of each CPU's list (a shortfall starves the list's tail).
EveryQueuedTaskCanWin ==
    Quiescent => \A c \in CPUs : TicketSum(rq[c], ticket) <= total

\* pick_next_task_lottery finds a winner whenever its CPU has queued
\* lottery tasks: a NULL result leaves runnable tasks waiting on an idle CPU.
PickFindsQueuedTask ==
    \A c \in CPUs : (pc[c] = "done" /\ op[c] = "pick" /\ rq[c] # <<>>)
                        => win[c] # NoTask

\* The same while total_ticket is exact (no update lost or in flight): the
\* draw then covers exactly the tickets of all CPUs' lists.
PickFindsQueuedTaskExactTotal ==
    \A c \in CPUs : (pc[c] = "done" /\ op[c] = "pick" /\ rq[c] # <<>>
                     /\ Quiescent /\ total = QueuedTickets % M)
                        => win[c] # NoTask

\* A tick whose lottery is won by another task preempts the running task:
\* the running task is marked TIF_NEED_RESCHED.
TickPreemptsCurrent ==
    [][\A c \in CPUs : (pc[c] = "done" /\ pc'[c] = "idle" /\ op[c] = "tick"
                         /\ win[c] \notin {NoTask, curr[c]})
                         => curr[c] \in resched']_vars

=============================================================================
