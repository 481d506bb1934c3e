\* Two CPUs registering events under their own runqueue locks.
CONSTANTS
    c1 = c1  c2 = c2
    CPUs <- MC_CPUs2
    MaxLines = 2
    EventsPerCPU = 2
SPECIFICATION Spec
INVARIANT EventsKept
CHECK_DEADLOCK FALSE
