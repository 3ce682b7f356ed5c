CONSTANTS
    SIZE_OF_PCB_ARRAY = 4
    NUM_TERMINALS = 3
    Statuses = {0}
SPECIFICATION Spec
CHECK_DEADLOCK FALSE
INVARIANT HaltReturnsToExecute
