\* Five metadata pages in blocks of 3: nb_pages / PPB + 1 = 2 blocks of 2.
CONSTANTS
    NB = 5
    PPB = 3
    BlkPgs = 1
    HsPgs = 4
    DataBlocks <- MC_Data1
    MaxGen = 0
    Crashes = FALSE
SPECIFICATION Spec
INVARIANT NoMetaBug
