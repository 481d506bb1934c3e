\* Power lost inside flush_metadata(), then init_scan() (spec.md: the old or the new generation is intact).
CONSTANTS
    k1 = k1  k2 = k2  v1 = v1  v2 = v2  vbig = vbig
    NoKey = NoKey  NoVal = NoVal  Mangled = Mangled
    NB = 3
    PPB = 3
    NMetaPages = 1
    Keys <- MC_Keys
    Vals = {v1}
    Oversized = {vbig}
    LongVals = {}
    HashOf <- MC_HashOf
    INVALID_THRESHOLD = 1
    CrashPoints = {"flush"}
    MaxWorn = 1
SPECIFICATION Spec
INVARIANT RestartUnlessFlushLost
SYMMETRY MC_Symmetry
\* After an oops the engine stops: every action requires bug = "none".
CHECK_DEADLOCK FALSE
