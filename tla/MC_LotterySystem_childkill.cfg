\* lottery_system_fair.c: can a lottery task terminate the parent before the timer fires?
CONSTANTS
    k1 = k1  k2 = k2  k3 = k3  k4 = k4
    Children <- MC_Children
    Harnesses = {"sleep"}
    ExecCanFail = FALSE
SPECIFICATION Spec
INVARIANT ParentSurvivesChildren
CHECK_DEADLOCK FALSE
