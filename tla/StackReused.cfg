CONSTANTS
    SIZE_OF_PCB_ARRAY = 4
    NUM_TERMINALS = 2
    Statuses = {0}
SPECIFICATION XSpec
CONSTRAINT NotRelocated
CHECK_DEADLOCK FALSE
INVARIANT HaltKeepsItsStack
