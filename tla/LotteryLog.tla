----------------------------- MODULE LotteryLog -----------------------------
(***************************************************************************)
(* The lottery event log of sched_lottery.c: one global array of          *)
(* LOTTERY_MAX_EVENT_LINES entries and a line counter, written by          *)
(* register_lottery_event from enqueue, dequeue and the pick of every CPU, *)
(* each holding only its own rq->lock.  The bound check, the entry write   *)
(* at index lines and "++lines" (a load and a store) are separate steps   *)
(* that other CPUs can interleave.                                         *)
(***************************************************************************)
EXTENDS Integers, FiniteSets

CONSTANTS
    CPUs,            \* CPUs registering events
    MaxLines,        \* LOTTERY_MAX_EVENT_LINES, scaled down
    EventsPerCPU     \* bound on the events a CPU registers

ASSUME MaxLines \in Nat \ {0} /\ EventsPerCPU \in Nat \ {0}

\* An event: the k-th message of CPU c.
Events == CPUs \X (1..EventsPerCPU)
Empty == <<>>

VARIABLES
    lines,     \* lottery_event_log.lines
    log,       \* log[i]: lottery_event[i] for i in 0..MaxLines-1
    overrun,   \* events written at an index >= LOTTERY_MAX_EVENT_LINES
    pc,        \* pc[c]: "idle", "write", "load" or "store"
    tmp,       \* tmp[c]: lines as loaded for the increment
    sent,      \* sent[c]: events of CPU c that passed the check and returned
    accepted   \* events that passed the bound check

vars == <<lines, log, overrun, pc, tmp, sent, accepted>>

Ev(c) == <<c, sent[c] + 1>>

\* init_lottery_event_log: lines = cursor = 0 (its own first event is an
\* ordinary register_lottery_event).
Init ==
    /\ lines = 0
    /\ log = [i \in 0..(MaxLines - 1) |-> Empty]
    /\ overrun = {}
    /\ pc = [c \in CPUs |-> "idle"]
    /\ tmp = [c \in CPUs |-> 0]
    /\ sent = [c \in CPUs |-> 0]
    /\ accepted = {}

\* register_lottery_event, the check "lines < LOTTERY_MAX_EVENT_LINES";
\* when the log is full only the printk is left and the call returns
\* without a change.  Only accepted events count against EventsPerCPU.
CheckLines(c) ==
    /\ pc[c] = "idle"
    /\ IF lines < MaxLines
       THEN /\ sent[c] < EventsPerCPU
            /\ pc' = [pc EXCEPT ![c] = "write"]
            /\ accepted' = accepted \cup {Ev(c)}
       ELSE UNCHANGED <<pc, accepted>>
    /\ UNCHANGED <<lines, log, overrun, tmp, sent>>

\* The writes of action, timestamp and msg into lottery_event[lines], with
\* lines read again now; past the array they land on whatever follows it.
WriteEntry(c) ==
    /\ pc[c] = "write"
    /\ IF lines < MaxLines
       THEN /\ log' = [log EXCEPT ![lines] = Ev(c)]
            /\ UNCHANGED overrun
       ELSE /\ overrun' = overrun \cup {Ev(c)}
            /\ UNCHANGED log
    /\ pc' = [pc EXCEPT ![c] = "load"]
    /\ UNCHANGED <<lines, tmp, sent, accepted>>

\* ++lines: the load ...
LoadLines(c) ==
    /\ pc[c] = "load"
    /\ tmp' = [tmp EXCEPT ![c] = lines]
    /\ pc' = [pc EXCEPT ![c] = "store"]
    /\ UNCHANGED <<lines, log, overrun, sent, accepted>>

\* ... and the store; the call returns.
StoreLines(c) ==
    /\ pc[c] = "store"
    /\ lines' = tmp[c] + 1
    /\ pc' = [pc EXCEPT ![c] = "idle"]
    /\ sent' = [sent EXCEPT ![c] = @ + 1]
    /\ UNCHANGED <<log, overrun, tmp, accepted>>

Next ==
    \E c \in CPUs :
        \/ CheckLines(c)
        \/ WriteEntry(c)
        \/ LoadLines(c)
        \/ StoreLines(c)

Spec == Init /\ [][Next]_vars

-----------------------------------------------------------------------------

TypeOK ==
    /\ lines \in 0..MaxLines
    /\ log \in [0..(MaxLines - 1) -> Events \cup {Empty}]
    /\ overrun \subseteq Events
    /\ pc \in [CPUs -> {"idle", "write", "load", "store"}]
    /\ sent \in [CPUs -> 0..EventsPerCPU]
    /\ accepted \subseteq Events

\* Every event register_lottery_event accepted and finished is in its own
\* line of the log, and lines counts them: none is overwritten by another
\* CPU's event or written past the array.
EventsKept ==
    (\A c \in CPUs : pc[c] = "idle") =>
        /\ lines = Cardinality(accepted)
        /\ lines <= MaxLines
        /\ {log[i] : i \in 0..(lines - 1)} = accepted

\* No event is written beyond lottery_event[LOTTERY_MAX_EVENT_LINES - 1].
WritesInBounds == overrun = {}

=============================================================================
