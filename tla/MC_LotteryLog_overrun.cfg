\* Two CPUs registering events while the log is nearly full.
CONSTANTS
    c1 = c1  c2 = c2
    CPUs <- MC_CPUs2
    MaxLines = 2
    EventsPerCPU = 2
SPECIFICATION Spec
INVARIANT WritesInBounds
CHECK_DEADLOCK FALSE
