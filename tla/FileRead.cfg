\* Files of up to three blocks and a half, requests within a block, over one and
\* over several, and beyond the end of the file.
CONSTANTS
    BLOCKSIZE = 4
    WORD = 64
    Sizes = {0, 1, 3, 4, 5, 8, 9, 14}
    Lengths = {0, 1, 2, 3, 4, 5, 9, 20}
    EmptyReads = {0}
SPECIFICATION FairSpec
INVARIANTS
    TypeOK
    BufferIsSlice
    ReturnsWhatFits
PROPERTY
    ReadsWholeFile
