\* Two blocks of four pages (a header and three records), one key, one
\* metadata page; power lost between calls or after any erase or program
\* of a flush.  With INVALID_THRESHOLD = 2 a block gc collects can still
\* hold the key's live record, which gc copies back.  Lists stay sound,
\* read_only implies a full device and gc loses no value.
CONSTANTS
    k1 = k1  k2 = k2  v1 = v1  v2 = v2  vbig = vbig
    NoKey = NoKey  NoVal = NoVal  Mangled = Mangled
    NB = 2
    PPB = 4
    NMetaPages = 1
    Keys <- MC_Keys1
    Vals = {v1}
    Oversized = {vbig}
    LongVals = {}
    HashOf <- MC_HashOf
    INVALID_THRESHOLD = 2
    CrashPoints = {"idle", "flush"}
    MaxWorn = 2
SPECIFICATION Spec
INVARIANT TypeOK ListedAreValid ReadOnlySound GcKeepsValues
CHECK_DEADLOCK FALSE
