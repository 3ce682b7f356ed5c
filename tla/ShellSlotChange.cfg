CONSTANTS
    SIZE_OF_PCB_ARRAY = 5
    NUM_TERMINALS = 3
    Statuses = {0}
SPECIFICATION Spec
CHECK_DEADLOCK FALSE
INVARIANT TerminalHasProcess
