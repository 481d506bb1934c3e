\* Four blocks of four pages, block 1 holding data, one block-table page
\* and two hash pages (one metadata block), two table generations, power
\* loss at any step: the tables and meta_blkordr keep their shape and no
\* metadata block is a data block.
CONSTANTS
    NB = 4
    PPB = 4
    BlkPgs = 1
    HsPgs = 2
    DataBlocks <- MC_Data1
    MaxGen = 2
    Crashes = TRUE
SPECIFICATION Spec
INVARIANT TypeOK
