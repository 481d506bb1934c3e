\* One metadata block, power may fail during a flush.
CONSTANTS
    NB = 4
    PPB = 4
    BlkPgs = 1
    HsPgs = 2
    DataBlocks <- MC_Data1
    MaxGen = 1
    Crashes = TRUE
SPECIFICATION Spec
INVARIANT RecoversLastFlush
