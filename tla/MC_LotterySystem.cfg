\* Both harness programs with three children whose execv may fail.
\* lottery_system.c stops when the parent has collected every child or
\* hangs in pause(); lottery_system_fair.c may leave the parent killed or
\* waiting: the harness really stops.
CONSTANTS
    k1 = k1  k2 = k2  k3 = k3  k4 = k4
    Children <- MC_Children3
    Harnesses = {"pause", "sleep"}
    ExecCanFail = TRUE
SPECIFICATION Spec
INVARIANT TypeOK NoChildKilled
PROPERTY SimulationCompletes FairHarnessEnds
CHECK_DEADLOCK FALSE
