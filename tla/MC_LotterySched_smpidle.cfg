\* Two CPUs: the draw over the global total against one CPU's list.
CONSTANTS
    c1 = c1  c2 = c2  t1 = t1  t2 = t2
    CPUs <- MC_CPUs2
    Tasks <- MC_Tasks
    Tickets <- MC_Tickets
    NoTask = NoTask
    TicketBits = 3
    PrioChanges = FALSE
    MaxPrioChanges = 0
SPECIFICATION Spec
INVARIANT PickFindsQueuedTaskExactTotal
