-------------------------- MODULE LotterySchedLog --------------------------
(***************************************************************************)
(* The lottery scheduling class (LotterySched) composed with its event log *)
(* (LotteryLog).  Every handler of sched_lottery.c that reports to the log *)
(* ends with one or two register_lottery_event calls, made by the same CPU *)
(* under the same rq->lock before the handler returns:                    *)
(*   enqueue_task_lottery      LOTTERY_ENQUEUE, after total_ticket +=      *)
(*   dequeue_task_lottery      LOTTERY_DEQUEUE, after total_ticket -=, and *)
(*                             LOTTERY_TASK_DONE for an exiting task       *)
(*   pick_winner_task          LOTTERY_WIN, when the walk finds a task     *)
(*   pick_next_task_lottery    LOTTERY_MSG "PICK", after a non-NULL winner *)
(* The calls a CPU still has to make are queued in pend[c]; the CPU starts *)
(* no other handler until they have returned.  what[e] remembers which     *)
(* scheduler event log event e stands for (the msg text the code formats). *)
(***************************************************************************)
EXTENDS Integers, Sequences

CONSTANTS CPUs, Tasks, Tickets, NoTask, TicketBits, PrioChanges, MaxPrioChanges,
          MaxLines, EventsPerCPU

VARIABLES
    rq, nr, ticket, total, lucky, curr, resched, pc, op, win, tmp, delta,
    changes,                                    \* LotterySched
    lines, log, overrun, lpc, ltmp, sent, accepted, \* LotteryLog
    pend,   \* pend[c]: the register_lottery_event calls CPU c owes, in order
    what,   \* what[e]: the scheduler event the log event e reports
    dead    \* tasks dequeued as TASK_DEAD/EXIT_*: they are never queued again

S == INSTANCE LotterySched
L == INSTANCE LotteryLog WITH pc <- lpc, tmp <- ltmp

schedVars == <<rq, nr, ticket, total, lucky, curr, resched, pc, op, win, tmp,
               delta, changes>>
logVars == <<lines, log, overrun, lpc, ltmp, sent, accepted>>
vars == <<schedVars, logVars, pend, what, dead>>

Kinds == {"MSG", "EN", "DE", "DONE", "WIN", "PICK"}
Report(k, t) == [kind |-> k, task |-> t]
NoReport == Report("none", NoTask)

\* init_lottery_event_log registers its own LOTTERY_MSG line on the CPU
\* that boots the scheduler.
Boot == CHOOSE c \in CPUs : TRUE

Init ==
    /\ S!Init /\ L!Init
    /\ pend = [c \in CPUs |-> IF c = Boot THEN <<Report("MSG", NoTask)>> ELSE <<>>]
    /\ what = [e \in L!Events |-> NoReport]
    /\ dead = {}

\* CPU c is between handlers: no register_lottery_event call is owed or
\* under way.
Free(c) == pend[c] = <<>> /\ lpc[c] = "idle"

\* A handler without a log call: only the scheduler moves.
SchedOnly(A) == A /\ UNCHANGED <<logVars, pend, what, dead>>

EnqueueTask(c, t) ==
    /\ Free(c) /\ t \notin dead
    /\ S!EnqueueTask(c, t)
    /\ pend' = [pend EXCEPT ![c] = <<Report("EN", t)>>]
    /\ UNCHANGED <<logVars, what, dead>>

\* Whether p->state is TASK_DEAD or EXIT_* is the caller's choice.
DequeueTask(c, t) ==
    /\ Free(c)
    /\ S!DequeueTask(c, t)
    /\ \E exiting \in BOOLEAN :
          /\ pend' = [pend EXCEPT ![c] = <<Report("DE", t)>> \o
                        (IF exiting THEN <<Report("DONE", t)>> ELSE <<>>)]
          /\ dead' = IF exiting THEN dead \cup {t} ELSE dead
    /\ UNCHANGED <<logVars, what>>

\* The walk of pick_winner_task; a winner is reported at once, and
\* pick_next_task_lottery reports it again before returning it.
PickWinnerTask(c) ==
    /\ S!PickWinnerTask(c)
    /\ pend' = [pend EXCEPT ![c] =
                  IF win'[c] = NoTask THEN <<>>
                  ELSE <<Report("WIN", win'[c])>> \o
                       (IF op[c] = "pick" THEN <<Report("PICK", win'[c])>>
                        ELSE <<>>)]
    /\ UNCHANGED <<logVars, what, dead>>

\* register_lottery_event, made by CPU c once its handler has reached the
\* call (its total_ticket store or its walk is done).  The bound check
\* either accepts the event, which is then what[e] for the log, or finds
\* the log full and the call returns.
CheckLines(c) ==
    /\ pend[c] # <<>> /\ pc[c] \in {"idle", "done"}
    /\ L!CheckLines(c)
    /\ IF lpc'[c] = "write"
       THEN /\ what' = [what EXCEPT ![L!Ev(c)] = Head(pend[c])]
            /\ UNCHANGED pend
       ELSE /\ pend' = [pend EXCEPT ![c] = Tail(@)]
            /\ UNCHANGED what
    /\ UNCHANGED <<schedVars, dead>>

LogStep(A) == A /\ UNCHANGED <<schedVars, pend, what, dead>>

\* The store of ++lines ends the call.
StoreLines(c) ==
    /\ L!StoreLines(c)
    /\ pend' = [pend EXCEPT ![c] = Tail(@)]
    /\ UNCHANGED <<schedVars, what, dead>>

Next ==
    \E c \in CPUs :
        \/ \E t \in Tasks : EnqueueTask(c, t) \/ DequeueTask(c, t)
        \/ SchedOnly(S!TotalStore(c))
        \/ \E p \in Tasks, prio \in Tickets :
              Free(c) /\ SchedOnly(S!PrioChangedLottery(c, p, prio))
        \/ Free(c) /\ SchedOnly(S!PickNextTaskLottery(c))
        \/ Free(c) /\ SchedOnly(S!TaskTickLottery(c))
        \/ SchedOnly(S!DrawLucky(c))
        \/ PickWinnerTask(c)
        \/ Free(c) /\ SchedOnly(S!ReturnWinner(c))
        \/ CheckLines(c)
        \/ LogStep(L!WriteEntry(c))
        \/ LogStep(L!LoadLines(c))
        \/ StoreLines(c)

Spec == Init /\ [][Next]_vars

-----------------------------------------------------------------------------

TypeOK ==
    /\ S!TypeOK /\ L!TypeOK
    /\ pend \in [CPUs -> Seq([kind : Kinds, task : Tasks \cup {NoTask}])]
    /\ what \in [L!Events -> [kind : Kinds \cup {"none"}, task : Tasks \cup {NoTask}]]
    /\ dead \subseteq Tasks

\* The scheduler event the i-th line of the log reports; a line never
\* written is the zeroed entry, which reports nothing.
Line(i) == IF log[i] = L!Empty THEN NoReport ELSE what[log[i]]

\* Whether, by the lines before line i, task t is on a runqueue: an EN line
\* for t after which no DE line for t follows.
LoggedQueued(i, t) ==
    \E j \in 0..(i - 1) :
        /\ Line(j) = Report("EN", t)
        /\ \A k \in (j + 1)..(i - 1) : Line(k) # Report("DE", t)

\* The log a reader of the event log sees tells a consistent story: every
\* LOTTERY_WIN and PICK line names a task that the EN and DE lines before
\* it leave queued.  It takes the list walk, the list updates of enqueue
\* and dequeue and the order of their register_lottery_event calls to
\* agree.
LogConsistent ==
    \A i \in 0..(lines - 1) :
        Line(i).kind \in {"WIN", "PICK"} => LoggedQueued(i, Line(i).task)

\* Every accepted event has its own line and lines counts them
\* (LotteryLog's EventsKept for the composed system).
EventsKept == L!EventsKept

TicketConservationBeforePrio == S!TicketConservationBeforePrio
EveryQueuedTaskCanWin == S!EveryQueuedTaskCanWin
PickFindsQueuedTaskExactTotal == S!PickFindsQueuedTaskExactTotal

=============================================================================
