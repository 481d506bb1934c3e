\* One CPU, two tasks, one prio_changed_lottery call, and a log of
\* four lines (the boot line and three more): the draw range covers every
\* queued task's tickets through the priority change.
CONSTANTS
    c1 = c1  c2 = c2  t1 = t1  t2 = t2
    CPUs <- MC_CPUs1
    Tasks <- MC_Tasks
    Tickets <- MC_Tickets
    NoTask = NoTask
    TicketBits = 4
    PrioChanges = TRUE
    MaxPrioChanges = 1
    MaxLines = 4
    EventsPerCPU = 5
SPECIFICATION Spec
INVARIANT TypeOK EveryQueuedTaskCanWin
