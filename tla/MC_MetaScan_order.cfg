\* Two metadata blocks (4 pages in blocks of 3): the physical order of the
\* chosen blocks need not follow their metadata index.
CONSTANTS
    NB = 4
    PPB = 3
    BlkPgs = 1
    HsPgs = 3
    DataBlocks <- MC_Data1
    MaxGen = 1
    Crashes = FALSE
SPECIFICATION Spec
INVARIANT RecoversLastFlush
