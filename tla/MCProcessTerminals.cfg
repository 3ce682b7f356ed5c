\* Three shells and two programs, or one shell and four nested programs.
CONSTANTS
    SIZE_OF_PCB_ARRAY = 5
    NUM_TERMINALS = 3
    Statuses = {0}
SPECIFICATION HealthySpec
VIEW AllButRet
\* HealthySpec ends before a restarted shell changes its slot.
CHECK_DEADLOCK FALSE
INVARIANTS
    TypeOK
    RunningProcess
    ParentsWait
    OneRunnerPerTerminal
    SavedContext
    NoOrphans
PROPERTIES
    BackgroundUntouched
    ImplementsJobStacks
