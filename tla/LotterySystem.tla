---------------------------- MODULE LotterySystem ----------------------------
(***************************************************************************)
(* The user-space test harness of the lottery scheduler:                   *)
(* src/p3/tasks/lottery_system.c (the parent) and lottery_task.c (each     *)
(* child).  The parent installs a SIGUSR2 handler, then for each task     *)
(* forks a child that execs lottery_task and pause()s until the child's   *)
(* SIGUSR2 says it is ready; then it sends SIGUSR1 to every child and      *)
(* waits for them all.  A child installs its SIGUSR1 (do_work) and        *)
(* SIGUSR2 handlers, switches to SCHED_LOTTERY, signals the parent and     *)
(* pause()s; do_work burns the CPU and exits.                              *)
(*                                                                         *)
(* src/p3/tasks/lottery_system_fair.c is the same parent with two changes *)
(* (harness = "sleep"): it sleeps one second after each fork instead of   *)
(* pausing for SIGUSR2, and it arms a one-shot ITIMER_REAL whose SIGALRM  *)
(* handler end_simulation sends SIGUSR2 to every lottery_tasks_pid[i].   *)
(* It installs no SIGUSR2 handler, and it passes the child as argv[4] the *)
(* "%f" text of min_inter_arrival, which the configuration never sets, so *)
(* the child's kill(atoi(argv[4]), SIGUSR2) is kill(0, SIGUSR2): a signal *)
(* to the whole process group.                                            *)
(*                                                                         *)
(* Standard signals do not queue: a pending signal is a flag.  A handler   *)
(* runs when its process runs, and a signal with the default action        *)
(* (after execv) terminates the process.  pause() returns only after a     *)
(* handler ran while the process was blocked in it.                        *)
(***************************************************************************)
EXTENDS Integers, FiniteSets

CONSTANTS
    Children,        \* the lottery tasks, lottery_tasks_pid[0..n-1]
    ExecCanFail,     \* whether execv("./lottery_task") may fail
    Harnesses        \* the programs run: "pause" is lottery_system.c,
                     \*   "sleep" is lottery_system_fair.c

ASSUME Children # {} /\ ExecCanFail \in BOOLEAN
       /\ Harnesses # {} /\ Harnesses \subseteq {"pause", "sleep"}

N == Cardinality(Children)

\* Child i of the loop: the children in a fixed order.
Order == CHOOSE f \in [1..N -> Children] : \A i, j \in 1..N : i # j => f[i] # f[j]

VARIABLES
    harness,   \* the parent program of this behaviour, fixed at its start
    ppc,       \* the parent: "fork", "pause", "paused", "sleep", "start", "wait",
               \*   "done" or "killed"
    i,         \* the fork loop's index: children forked and acknowledged
    j,         \* start_simulation's loop index
    reaped,    \* children the parent's wait(NULL) loop collected
    usr2,      \* a SIGUSR2 is pending for the parent
    cpc,       \* cpc[c]: "none" (not forked), "exec", "handlers", "setsched",
               \*   "kill", "paused", "exited" or "killed"
    usr1,      \* usr1[c]: a SIGUSR1 is pending for child c
    usr2c,     \* usr2c[c]: a SIGUSR2 is pending for child c
    alarm      \* the one-shot SIGALRM of the fair harness has fired

vars == <<harness, ppc, i, j, reaped, usr2, cpc, usr1, usr2c, alarm>>

Init ==
    /\ harness \in Harnesses
    /\ ppc = "fork"
    /\ i = 0
    /\ j = 0
    /\ reaped = 0
    /\ usr2 = FALSE
    /\ cpc = [c \in Children |-> "none"]
    /\ usr1 = [c \in Children |-> FALSE]
    /\ usr2c = [c \in Children |-> FALSE]
    /\ alarm = FALSE

Terminated(c) == cpc[c] \in {"exited", "killed"}

\* The children fork() has created: i, and one more while the parent waits
\* for the latest one.
Forked == IF ppc \in {"pause", "paused", "sleep"} THEN i + 1 ELSE i

\* The members of the parent's process group a kill(0, ...) reaches besides
\* the parent: the children forked and still alive.
Group == {c \in Children : cpc[c] # "none" /\ ~Terminated(c)}

-----------------------------------------------------------------------------
(* The parent, lottery_system.c main (lottery_system_fair.c main when     *)
(* harness = "sleep").                                                     *)

\* Mutant: the parent goes on without waiting for the child.
ForkChildNoPause ==
    /\ ppc = "fork" /\ i < N
    /\ cpc' = [cpc EXCEPT ![Order[i + 1]] = "exec"]
    /\ i' = i + 1
    /\ ppc' = IF i + 1 < N THEN "fork" ELSE "start"
    /\ UNCHANGED <<j, reaped, usr2, usr1, usr2c, alarm>>

\* lottery_tasks_pid[i] = fork(): the child starts at its execv; the
\* parent goes on to pause() or, in the fair harness, to sleep(1).
ForkChild ==
    /\ ppc = "fork" /\ i < N
    /\ cpc' = [cpc EXCEPT ![Order[i + 1]] = "exec"]
    /\ ppc' = IF harness = "pause" THEN "pause" ELSE "sleep"
    /\ UNCHANGED <<i, j, reaped, usr2, usr1, usr2c, alarm>>

\* pause(): the parent blocks until a handler runs.
Pause ==
    /\ ppc = "pause"
    /\ ppc' = "paused"
    /\ UNCHANGED <<i, j, reaped, usr2, cpc, usr1, usr2c, alarm>>

\* sleep(1) returns; nothing orders it after the child's own steps.
SleepDone ==
    /\ ppc = "sleep"
    /\ i' = i + 1
    /\ ppc' = IF i + 1 < N THEN "fork" ELSE "start"
    /\ UNCHANGED <<j, reaped, usr2, cpc, usr1, usr2c, alarm>>

\* SIGUSR2 is delivered and goahead runs (its g_go = 1 stores the value
\* g_go already has, and nothing reads g_go); a parent blocked in pause()
\* returns from it and goes round the loop.
ParentSignal ==
    /\ usr2
    /\ ppc \notin {"done"}
    /\ usr2' = FALSE
    /\ IF ppc = "paused"
       THEN /\ i' = i + 1
            /\ ppc' = IF i + 1 < N THEN "fork" ELSE "start"
       ELSE UNCHANGED <<i, ppc>>
    /\ UNCHANGED <<j, reaped, cpc, usr1, usr2c, alarm>>

\* The fair harness has no SIGUSR2 handler: the default action terminates
\* the parent (i then counts the children it had forked).
ParentKilled ==
    /\ usr2
    /\ ppc \notin {"done", "killed"}
    /\ usr2' = FALSE
    /\ i' = Forked
    /\ ppc' = "killed"
    /\ UNCHANGED <<j, reaped, cpc, usr1, usr2c, alarm>>

\* The fair harness's ITIMER_REAL expires once and end_simulation sends
\* SIGUSR2 to lottery_tasks_pid[i] for every task: a forked child gets it,
\* and the pid 0 of a task not yet forked makes it kill(0, SIGUSR2), which
\* reaches the whole process group, the parent included.
Alarm ==
    /\ harness = "sleep" /\ ~alarm
    /\ ppc \notin {"done", "killed"}
    /\ alarm' = TRUE
    /\ usr2c' = [c \in Children |-> usr2c[c] \/ c \in Group]
    /\ usr2' = (usr2 \/ Forked < N)
    /\ UNCHANGED <<ppc, i, j, reaped, cpc, usr1>>

\* Mutant: the loop stops one child short.
StartSimulationShort ==
    /\ ppc = "start"
    /\ LET c == Order[j + 1]
       IN  usr1' = IF Terminated(c) THEN usr1 ELSE [usr1 EXCEPT ![c] = TRUE]
    /\ j' = j + 1
    /\ ppc' = IF j + 1 < N - 1 THEN "start" ELSE "wait"
    /\ UNCHANGED <<i, reaped, usr2, cpc, usr2c, alarm>>

\* sleep(1); start_simulation(): kill(lottery_tasks_pid[j], SIGUSR1) for
\* each child in turn (a signal to a dead child is dropped).
StartSimulation ==
    /\ ppc = "start"
    /\ LET c == Order[j + 1]
       IN  usr1' = IF Terminated(c) THEN usr1 ELSE [usr1 EXCEPT ![c] = TRUE]
    /\ j' = j + 1
    /\ ppc' = IF j + 1 < N THEN "start" ELSE "wait"
    /\ UNCHANGED <<i, reaped, usr2, cpc, usr2c, alarm>>

\* Mutant: wait(NULL) counts a return without a child.
WaitChildNoBlock ==
    /\ ppc = "wait"
    /\ reaped' = reaped + 1
    /\ ppc' = IF reaped + 1 < N THEN "wait" ELSE "done"
    /\ UNCHANGED <<i, j, usr2, cpc, usr1, usr2c, alarm>>

\* Mutant: wait(NULL) returns only while another ended child is left.
WaitChildLastMissed ==
    /\ ppc = "wait"
    /\ reaped + 1 < Cardinality({c \in Children : Terminated(c)})
    /\ reaped' = reaped + 1
    /\ ppc' = IF reaped + 1 < N THEN "wait" ELSE "done"
    /\ UNCHANGED <<i, j, usr2, cpc, usr1, usr2c, alarm>>

\* One wait(NULL) of the final loop: it returns when a child has ended.
WaitChild ==
    /\ ppc = "wait"
    /\ reaped < Cardinality({c \in Children : Terminated(c)})
    /\ reaped' = reaped + 1
    /\ ppc' = IF reaped + 1 < N THEN "wait" ELSE "done"
    /\ UNCHANGED <<i, j, usr2, cpc, usr1, usr2c, alarm>>

-----------------------------------------------------------------------------
(* A child, lottery_task.c main.                                           *)

\* execv("./lottery_task"): the new image starts with default dispositions;
\* on failure the child calls perror and exit(0).
ChildExec(c) ==
    /\ cpc[c] = "exec"
    /\ \/ cpc' = [cpc EXCEPT ![c] = "handlers"]
       \/ ExecCanFail /\ cpc' = [cpc EXCEPT ![c] = "exited"]
    /\ UNCHANGED <<ppc, i, j, reaped, usr2, usr1, usr2c, alarm>>

\* signal(SIGUSR1, do_work); signal(SIGUSR2, end_task).
ChildHandlers(c) ==
    /\ cpc[c] = "handlers"
    /\ cpc' = [cpc EXCEPT ![c] = "setsched"]
    /\ UNCHANGED <<ppc, i, j, reaped, usr2, usr1, usr2c, alarm>>

\* sched_setscheduler(0, SCHED_LOTTERY, ...); a failure is only reported.
ChildSetScheduler(c) ==
    /\ cpc[c] = "setsched"
    /\ cpc' = [cpc EXCEPT ![c] = "kill"]
    /\ UNCHANGED <<ppc, i, j, reaped, usr2, usr1, usr2c, alarm>>

\* kill(atoi(argv[4]), SIGUSR2), then while(1) pause().  argv[4] is the
\* parent's pid in lottery_system.c; in the fair harness it is "0.000000",
\* so the signal goes to the process group: the parent, if alive, and
\* every live child, this one included.
ChildNotify(c) ==
    /\ cpc[c] = "kill"
    /\ usr2' = (usr2 \/ ppc \notin {"done", "killed"})
    /\ usr2c' = IF harness = "pause" THEN usr2c
                 ELSE [d \in Children |-> usr2c[d] \/ d \in Group]
    /\ cpc' = [cpc EXCEPT ![c] = "paused"]
    /\ UNCHANGED <<ppc, i, j, reaped, usr1, alarm>>

\* SIGUSR1 is delivered: before the handlers are installed its default
\* action kills the child; afterwards do_work burns the CPU and exits.
ChildSignal(c) ==
    /\ usr1[c]
    /\ ~Terminated(c)
    /\ usr1' = [usr1 EXCEPT ![c] = FALSE]
    /\ cpc' = [cpc EXCEPT ![c] = IF @ \in {"exec", "handlers"} THEN "killed" ELSE "exited"]
    /\ UNCHANGED <<ppc, i, j, reaped, usr2, usr2c, alarm>>

\* SIGUSR2 is delivered: before the handlers are installed its default
\* action kills the child; afterwards end_task exits.
ChildEndTask(c) ==
    /\ usr2c[c]
    /\ ~Terminated(c)
    /\ usr2c' = [usr2c EXCEPT ![c] = FALSE]
    /\ cpc' = [cpc EXCEPT ![c] = IF @ \in {"exec", "handlers"} THEN "killed" ELSE "exited"]
    /\ UNCHANGED <<ppc, i, j, reaped, usr2, usr1, alarm>>

\* Which handler a parent SIGUSR2 meets depends on the harness.
ParentUsr2 ==
    IF harness = "pause" THEN ParentSignal ELSE ParentKilled

Parent ==
    /\ \/ ForkChild
       \/ Pause
       \/ SleepDone
       \/ ParentUsr2
       \/ Alarm
       \/ StartSimulation
       \/ WaitChild
    /\ UNCHANGED harness

Child(c) ==
    /\ \/ ChildExec(c)
       \/ ChildHandlers(c)
       \/ ChildSetScheduler(c)
       \/ ChildNotify(c)
       \/ ChildSignal(c)
       \/ ChildEndTask(c)
    /\ UNCHANGED harness

Next == Parent \/ \E c \in Children : Child(c)

\* The kernel runs every runnable process and delivers a pending signal
\* when its process runs.
Fairness == WF_vars(Parent) /\ \A c \in Children : WF_vars(Child(c))

Spec == Init /\ [][Next]_vars /\ Fairness

-----------------------------------------------------------------------------

TypeOK ==
    /\ harness \in Harnesses
    /\ ppc \in {"fork", "pause", "paused", "sleep", "start", "wait", "done", "killed"}
    /\ i \in 0..N /\ j \in 0..N /\ reaped \in 0..N
    /\ usr2 \in BOOLEAN
    /\ cpc \in [Children -> {"none", "exec", "handlers", "setsched", "kill",
                              "paused", "exited", "killed"}]
    /\ usr1 \in [Children -> BOOLEAN] /\ usr2c \in [Children -> BOOLEAN]
    /\ alarm \in BOOLEAN
    /\ \A k \in 1..N : cpc[Order[k]] = "none" <=> k > Forked
    /\ reaped <= Cardinality({c \in Children : Terminated(c)})

\* The handshake's purpose in lottery_system.c: no child is sent SIGUSR1
\* before it installed do_work, so none is killed by the signal's default
\* action.
NoChildKilled == harness = "pause" => \A c \in Children : cpc[c] # "killed"

\* Once the parent of lottery_system.c starts the simulation, every child
\* runs do_work and exits and the parent's wait loop collects them all.
SimulationCompletes == (harness = "pause" /\ ppc = "start") ~> ppc = "done"

\* The parent gets through the fork loop and finishes: every child's
\* SIGUSR2 releases the parent from its pause().
ParentFinishes == <>(ppc = "done")

\* The parent is never terminated by a signal: the children and the timer
\* only ever signal the lottery tasks, and the parent's SIGUSR2 has a
\* handler.
ParentSurvives == ppc # "killed"

\* The fair harness ends whatever the signals do: every forked task ends
\* (by do_work, end_task or a default action) and, unless a signal killed
\* it, the parent's wait(NULL) loop collects them all.
FairHarnessEnds == harness = "sleep" => <>(ppc \in {"done", "killed"})

\* Before the simulation timer fires, nothing but a lottery task's own
\* kill(atoi(argv[4]), SIGUSR2) signals the parent, and that signal is
\* meant for the parent's pid.
ParentSurvivesChildren == alarm \/ ppc # "killed"

=============================================================================
