---------------------------- MODULE LotteryTree ----------------------------
(***************************************************************************)
(* The red-black tree policy of sched_lottery.c                           *)
(* (CONFIG_SCHED_LOTTERY_RB_POLICY) on one runqueue.  Tasks are kept in a *)
(* binary search tree by ticket; every node caches in accu_ticket the     *)
(* tickets of its subtree (update_postorder), and pick_winner_rb_task     *)
(* descends the tree with those sums instead of walking a list.           *)
(*                                                                         *)
(* rb_insert_color and rb_erase (lib/rbtree.c) are not in the repository: *)
(* they rebalance by rotations, which keep the in-order sequence, so the  *)
(* model lets them produce any tree with that in-order sequence.  One CPU *)
(* and its rq->lock make every handler one atomic step.                   *)
(***************************************************************************)
EXTENDS Integers, Sequences, FiniteSets, SequencesExt

CONSTANTS
    Tasks,           \* SCHED_LOTTERY tasks
    Tickets,         \* rt_priority values a task's ticket can take
    InitTickets,     \* the tickets the tasks start with
    NoTask,          \* NULL
    TicketBits,      \* width of unsigned long long total_ticket, scaled down
    PrioChanges,     \* whether sched_setscheduler reaches prio_changed_lottery
    MaxPrioChanges   \* bound on prio_changed_lottery calls

ASSUME Tickets \subseteq Nat \ {0} /\ NoTask \notin Tasks
ASSUME InitTickets \subseteq [Tasks -> Tickets]
ASSUME TicketBits \in Nat \ {0} /\ PrioChanges \in BOOLEAN /\ MaxPrioChanges \in Nat

M == 2 ^ TicketBits

\* A subtree is <<>> when empty (a NULL rb_node pointer), else the tuple
\* <<rb_left, lottery_task, rb_right, accu_ticket>>.
Nil == <<>>
Node(l, t, r) == <<l, t, r, 0>>
Lft(tr) == tr[1]
Tsk(tr) == tr[2]
Rgt(tr) == tr[3]
Accu(tr) == IF tr = Nil THEN 0 ELSE tr[4]

VARIABLES
    root,     \* lottery_rb_root.rb_node
    onrq,     \* tasks enqueued on this runqueue (p->se.on_rq)
    ticket,   \* ticket[t]
    total,    \* total_ticket
    lucky,    \* lucky_ticket2
    win,      \* the task the last pick_winner_rb_task returned
    drawn,    \* the last step was a pick that drew lucky_ticket2
    stale,    \* a ticket changed since the last recalc_accu_lottery
    changes   \* prio_changed_lottery calls so far

vars == <<root, onrq, ticket, total, lucky, win, drawn, stale, changes>>

RECURSIVE InOrder(_)
InOrder(tr) == IF tr = Nil THEN <<>> ELSE InOrder(Lft(tr)) \o <<Tsk(tr)>> \o InOrder(Rgt(tr))

\* Every tree whose in-order sequence is s: the shapes rotations reach.
RECURSIVE Shapes(_)
Shapes(s) ==
    IF s = <<>> THEN {Nil}
    ELSE UNION {{Node(L, s[i], R) : L \in Shapes(SubSeq(s, 1, i - 1)),
                                    R \in Shapes(SubSeq(s, i + 1, Len(s)))}
                : i \in 1..Len(s)}

\* Mutant: with two children only the left subtree is counted.
RECURSIVE UpdatePostorderLeftOnly(_, _)
UpdatePostorderLeftOnly(tr, tk) ==
    IF tr = Nil THEN Nil
    ELSE LET l == UpdatePostorderLeftOnly(Lft(tr), tk)
             r == UpdatePostorderLeftOnly(Rgt(tr), tk)
         IN  <<l, Tsk(tr), r, IF l # Nil THEN Accu(l) + tk[Tsk(tr)]
                              ELSE Accu(r) + tk[Tsk(tr)]>>

\* update_postorder: children first, then the node's accu_ticket from
\* whichever children it has.
RECURSIVE UpdatePostorder(_, _)
UpdatePostorder(tr, tk) ==
    IF tr = Nil THEN Nil
    ELSE LET l == UpdatePostorder(Lft(tr), tk)
             r == UpdatePostorder(Rgt(tr), tk)
         IN  <<l, Tsk(tr), r, Accu(l) + Accu(r) + tk[Tsk(tr)]>>

\* Mutant: an equal ticket replaces the node it meets.
RECURSIVE LinkNodeReplace(_, _, _)
LinkNodeReplace(tr, t, tk) ==
    IF tr = Nil THEN Node(Nil, t, Nil)
    ELSE IF tk[t] = tk[Tsk(tr)] THEN Node(Lft(tr), t, Rgt(tr))
    ELSE IF tk[t] < tk[Tsk(tr)] THEN [tr EXCEPT ![1] = LinkNodeReplace(Lft(tr), t, tk)]
    ELSE [tr EXCEPT ![3] = LinkNodeReplace(Rgt(tr), t, tk)]

\* The while loop of insert_lottery_rb_task and rb_link_node: smaller
\* tickets go left, equal and larger ones right, down to an empty link.
RECURSIVE LinkNode(_, _, _)
LinkNode(tr, t, tk) ==
    IF tr = Nil THEN Node(Nil, t, Nil)
    ELSE IF tk[t] < tk[Tsk(tr)] THEN [tr EXCEPT ![1] = LinkNode(Lft(tr), t, tk)]
    ELSE [tr EXCEPT ![3] = LinkNode(Rgt(tr), t, tk)]

\* The descent of pick_winner_rb_task from node with left_total already
\* passed: into the left subtree if lucky falls in it, the node itself if
\* lucky falls in its tickets, else into the right subtree, NULL if none.
RECURSIVE PickRb(_, _, _, _)
PickRb(node, leftTotal, lk, tk) ==
    IF node = Nil THEN NoTask
    ELSE IF Lft(node) # Nil /\ lk <= Accu(Lft(node)) + leftTotal
         THEN PickRb(Lft(node), leftTotal, lk, tk)
    ELSE LET soFar == Accu(Lft(node)) + tk[Tsk(node)]
         IN  IF lk <= soFar + leftTotal THEN Tsk(node)
             ELSE IF Rgt(node) # Nil THEN PickRb(Rgt(node), leftTotal + soFar, lk, tk)
             ELSE NoTask

Init ==
    /\ root = Nil
    /\ onrq = {}
    /\ ticket \in InitTickets
    /\ total = 0
    /\ lucky = 0
    /\ win = NoTask
    /\ drawn = FALSE
    /\ stale = FALSE
    /\ changes = 0

\* enqueue_task_lottery: insert_lottery_rb_task (descent, rb_link_node,
\* rb_insert_color, recalc_accu_lottery), then total_ticket += p->ticket.
EnqueueTaskRb(t) ==
    /\ t \notin onrq
    /\ onrq' = onrq \cup {t}
    /\ \E tr \in Shapes(InOrder(LinkNode(root, t, ticket))) :
           root' = UpdatePostorder(tr, ticket)
    /\ total' = (total + ticket[t]) % M
    /\ drawn' = FALSE /\ stale' = FALSE
    /\ UNCHANGED <<ticket, lucky, win, changes>>

\* dequeue_task_lottery: remove_lottery_rb_task (rb_erase,
\* recalc_accu_lottery), then total_ticket -= p->ticket.
DequeueTaskRb(t) ==
    /\ t \in onrq
    /\ onrq' = onrq \ {t}
    /\ \E tr \in Shapes(SelectSeq(InOrder(root), LAMBDA x : x # t)) :
           root' = UpdatePostorder(tr, ticket)
    /\ total' = (total - ticket[t]) % M
    /\ drawn' = FALSE /\ stale' = FALSE
    /\ UNCHANGED <<ticket, lucky, win, changes>>

\* prio_changed_lottery under the tree policy: only p->ticket changes.
PrioChangedRb(p, prio) ==
    /\ PrioChanges /\ changes < MaxPrioChanges
    /\ ticket' = [ticket EXCEPT ![p] = prio]
    /\ changes' = changes + 1
    /\ drawn' = FALSE /\ stale' = TRUE
    /\ UNCHANGED <<root, onrq, total, lucky, win>>

\* pick_next_task_lottery -> who_is_winner -> pick_winner_rb_task: NULL
\* when total_ticket is 0, else lucky_ticket2 = random % total_ticket + 1
\* and the descent from the root.
PickNextTaskRb ==
    /\ IF total = 0
       THEN /\ win' = NoTask /\ drawn' = FALSE /\ UNCHANGED lucky
       ELSE \E lk \in 1..total :
                /\ lucky' = lk
                /\ win' = PickRb(root, 0, lk, ticket)
                /\ drawn' = TRUE
    /\ UNCHANGED <<root, onrq, ticket, total, stale, changes>>

Next ==
    \/ \E t \in Tasks : EnqueueTaskRb(t) \/ DequeueTaskRb(t)
    \/ \E p \in Tasks, prio \in Tickets : PrioChangedRb(p, prio)
    \/ PickNextTaskRb

Spec == Init /\ [][Next]_vars

-----------------------------------------------------------------------------

\* The tickets of the tasks of a sequence.
SeqTickets(s, tk) == FoldSeq(LAMBDA t, acc : acc + tk[t], 0, s)

TypeOK ==
    /\ onrq \subseteq Tasks
    /\ IsInjective(InOrder(root)) /\ Range(InOrder(root)) = onrq
    /\ ticket \in [Tasks -> Tickets]
    /\ total \in 0..(M - 1) /\ lucky \in 0..(M - 1)
    /\ win \in Tasks \cup {NoTask}
    /\ drawn \in BOOLEAN /\ stale \in BOOLEAN /\ changes \in 0..MaxPrioChanges

\* Reference lottery over the in-order sequence: the first task at which
\* the tickets of the tasks up to it reach lucky.
RefWinner(s, tk, lk) ==
    LET hits == {i \in 1..Len(s) : SeqTickets(SubSeq(s, 1, i), tk) >= lk}
    IN  IF hits = {} THEN NoTask ELSE s[Min(hits)]

\* The tree descent with its cached accu_ticket sums picks the task the
\* ticket-weighted lottery over the in-order sequence picks, for every
\* tree shape the rebalancing produces.
PickMatchesList == drawn => win = RefWinner(InOrder(root), ticket, lucky)

\* recalc_accu_lottery rebuilds every accu_ticket from the current tickets
\* on each insert and remove, so whatever prio_changed_lottery did before,
\* a pick after the next enqueue or dequeue matches the list lottery.
PickMatchesFreshTree ==
    (drawn /\ ~stale) => win = RefWinner(InOrder(root), ticket, lucky)

\* total_ticket is the tickets of the tasks in the tree.
TicketConservationRb == total = SeqTickets(InOrder(root), ticket) % M

=============================================================================
