\* Tree policy, four tasks, prio_changed allowed once: the descent against
\* the list lottery whenever the subtree sums are fresh.
CONSTANTS
    t1 = t1  t2 = t2  t3 = t3  t4 = t4
    Tasks <- MC_Tasks
    Tickets <- MC_Tickets
    InitTickets <- MC_InitTickets
    NoTask = NoTask
    TicketBits = 4
    PrioChanges = TRUE
    MaxPrioChanges = 1
SPECIFICATION Spec
INVARIANT TypeOK PickMatchesFreshTree
