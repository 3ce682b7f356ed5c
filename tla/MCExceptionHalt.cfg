\* Two terminals and two programs on top of their shells; the key may come at any
\* point of a halt.
CONSTANTS
    SIZE_OF_PCB_ARRAY = 4
    NUM_TERMINALS = 2
    Statuses = {0}
SPECIFICATION XSpec
CONSTRAINT StillRestored
CHECK_DEADLOCK FALSE
INVARIANTS
    RestoredUnlessCut
    StackKeptUntilRelease
