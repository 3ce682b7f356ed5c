CONSTANTS
    Terminals = {0, 1}
    DEFAULT_FREQ = 1024
    TIMER_FREQ = 10
SPECIFICATION FairSpec
CHECK_DEADLOCK FALSE
INVARIANTS
    InterruptsTypeOK
    NothingInService
    NoEdgeLost
    ReadWaitsForTick
PROPERTIES
    SwitchSafeAfterBoot
    TickEndsRead
    KeysTaken
