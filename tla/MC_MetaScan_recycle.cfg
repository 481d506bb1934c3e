\* A device whose blocks are all data but the metadata ones.
CONSTANTS
    NB = 3
    PPB = 4
    BlkPgs = 1
    HsPgs = 2
    DataBlocks <- MC_Data2
    MaxGen = 1
    Crashes = FALSE
SPECIFICATION Spec
INVARIANT NoMetaBug
