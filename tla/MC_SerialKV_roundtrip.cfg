\* format(), a set of k1 on the block meta_blkordr still names, rmmod and
\* insmod: the exit flush erases that block and k1 reads -1.
CONSTANTS
    k1 = k1  k2 = k2  v1 = v1  v2 = v2  vbig = vbig
    NoKey = NoKey  NoVal = NoVal  Mangled = Mangled
    NB = 2
    PPB = 4
    NMetaPages = 1
    Keys <- MC_Keys1
    Vals = {v1}
    Oversized = {vbig}
    LongVals = {}
    HashOf <- MC_HashOf
    INVALID_THRESHOLD = 2
    CrashPoints = {"idle", "flush"}
    MaxWorn = 2
SPECIFICATION Spec
INVARIANT RestartAfterFlushNoPowerLoss
CHECK_DEADLOCK FALSE
