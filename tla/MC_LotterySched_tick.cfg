\* One CPU: what a tick does when another task wins the lottery.
CONSTANTS
    c1 = c1  c2 = c2  t1 = t1  t2 = t2
    CPUs <- MC_CPUs1
    Tasks <- MC_Tasks
    Tickets <- MC_Tickets
    NoTask = NoTask
    TicketBits = 3
    PrioChanges = FALSE
    MaxPrioChanges = 0
SPECIFICATION Spec
PROPERTY TickPreemptsCurrent
