\* lottery_system_fair.c: can a signal terminate the parent? (the timer)
CONSTANTS
    k1 = k1  k2 = k2  k3 = k3  k4 = k4
    Children <- MC_Children
    Harnesses = {"sleep"}
    ExecCanFail = FALSE
SPECIFICATION Spec
INVARIANT ParentSurvives
CHECK_DEADLOCK FALSE
