\* gc() copies two records whose length exceeds pages_per_block bytes.
CONSTANTS
    k1 = k1  k2 = k2  v1 = v1  v2 = v2  vbig = vbig
    NoKey = NoKey  NoVal = NoVal  Mangled = Mangled
    NB = 3
    PPB = 4
    NMetaPages = 1
    Keys <- MC_Keys
    Vals = {v1}
    Oversized = {vbig}
    LongVals = {v1}
    HashOf <- MC_HashOf
    INVALID_THRESHOLD = 1
    CrashPoints = {}
    MaxWorn = 1
SPECIFICATION Spec
INVARIANT GcKeepsValues
SYMMETRY MC_Symmetry
\* After an oops the engine stops: every action requires bug = "none".
CHECK_DEADLOCK FALSE
