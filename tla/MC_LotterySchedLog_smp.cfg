\* Two CPUs, no priority changes: the log lines the CPUs register under
\* their own runqueue locks, read back as a story of the runqueues.
CONSTANTS
    c1 = c1  c2 = c2  t1 = t1  t2 = t2
    CPUs <- MC_CPUs2
    Tasks <- MC_Tasks
    Tickets <- MC_Tickets
    NoTask = NoTask
    TicketBits = 4
    PrioChanges = FALSE
    MaxPrioChanges = 0
    MaxLines = 4
    EventsPerCPU = 3
SPECIFICATION Spec
INVARIANT LogConsistent
CHECK_DEADLOCK FALSE
