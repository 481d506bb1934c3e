\* Does the engine implement KVStore? Valid values only.
CONSTANTS
    k1 = k1  k2 = k2  v1 = v1  v2 = v2  vbig = vbig  t1 = t1  t2 = t2
    NoKey = NoKey  NoVal = NoVal  None = None  Mangled = Mangled
    NB = 3
    PPB = 3
    NMetaPages = 2
    Keys <- MC_Keys
    Vals <- MC_Vals
    Oversized = {}
    HashOf <- MC_HashOf
    Threads <- MC_Threads1
    INVALID_THRESHOLD = 1
    INVALID_THRESHOLD2 = 1
    FLUSH_THRESHOLD2 = 2
    GC_MIN_PPB = 3
    MaxWorn = 2
SPECIFICATION Spec
PROPERTY ImplementsKVStore
\* After an oops the engine stops: every action requires bug = "none".
CHECK_DEADLOCK FALSE
