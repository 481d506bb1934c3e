\* One CPU, one prio_changed_lottery call: the total drifts from the queued tickets.
CONSTANTS
    c1 = c1  c2 = c2  t1 = t1  t2 = t2
    CPUs <- MC_CPUs1
    Tasks <- MC_Tasks
    Tickets <- MC_Tickets
    NoTask = NoTask
    TicketBits = 4
    PrioChanges = TRUE
    MaxPrioChanges = 1
SPECIFICATION Spec
INVARIANT TicketConservation
