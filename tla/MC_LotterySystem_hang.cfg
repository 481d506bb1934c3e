\* Four children whose execv succeeds: can the parent finish?
CONSTANTS
    k1 = k1  k2 = k2  k3 = k3  k4 = k4
    Children <- MC_Children
    Harnesses = {"pause"}
    ExecCanFail = FALSE
SPECIFICATION Spec
PROPERTY ParentFinishes
CHECK_DEADLOCK FALSE
