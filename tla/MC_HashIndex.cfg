CONSTANTS
    k1 = k1
    k2 = k2
    k3 = k3
    NoKey = NoKey
    Keys <- MC_Keys
    HSize <- MC_HSize
    HashOf <- MC_HashOf
    Indices <- MC_Indices

SPECIFICATION Spec

INVARIANT TypeOK
INVARIANT TombstoneChain
INVARIANT AddMatchesReference
