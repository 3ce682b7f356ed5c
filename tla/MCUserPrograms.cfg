\* Four descriptors, four slots, two terminals: a program beside a program, or
\* shells that fill the table.
CONSTANTS
    SIZE_OF_PCB_ARRAY = 4
    NUM_TERMINALS = 2
    Statuses = {0, 2, 3}
    SIZE_OF_FILE_ARRAY = 4
    NAMESIZE = 3
    NUM_DIRECTORY = 7
    Chars = {".", "h", "e", "f", "l", "s", "g", "r", "c", "a", "t", "y", "x"}
    Directory <- MCDirectory
    ShellName <- MCShellName
    LineLengths = {2}
    Calls <- MCCalls
    Commands = {}
    Typed <- MCTyped
    Requests = {1024}
SPECIFICATION USpec
CHECK_DEADLOCK FALSE
VIEW View
CONSTRAINT ListingsApart
INVARIANTS
    FilesTypeOK
    DescriptorsSound
    NoNullCall
    SyserrPasses
    ListsWholeDirectory
    GrepNeverFails
    CatPrintsItsFile
PROPERTY
    BackgroundFilesUntouched
