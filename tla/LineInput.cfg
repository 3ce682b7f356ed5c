\* Lines of up to two characters on two terminals.
CONSTANTS
    BUFFER_SIZE = 2
    Terminals = {0, 1}
    Readers = {0}
    Keys = {1}
SPECIFICATION FairSpec
INVARIANTS
    TypeOK
    LinesKept
    ReadDeliversLine
    NoForeignBytes
PROPERTY
    EnterEndsRead
