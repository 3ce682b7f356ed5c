CONSTANTS
    BLOCKSIZE = 4
    WORD = 64
    Sizes = {5}
    Lengths = {0, 3}
    EmptyReads = {3}
SPECIFICATION Spec
INVARIANT CopiesAtMostLength
