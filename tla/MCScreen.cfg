\* Two rows of two columns and one more cell on the page, lines of two characters.
\* Terminal 0 takes Enter, Backspace, shift and a and runs programs; terminal 1
\* takes l, with Ctrl and caps lock.
CONSTANTS
    TERMINAL_WIDTH = 2
    TERMINAL_HEIGHT = 1
    PAGE_CELLS = 5
    BUFFER_SIZE = 2
    Terminals = {0, 1}
    Letters = {"a"}
    Symbols = {}
    Backslash = {}
    Plain = {}
    KeysOn <- MCKeysOn
    Busy = {0}
SPECIFICATION Spec
CHECK_DEADLOCK FALSE
VIEW View
CONSTRAINT OneModifier FewCharacters
INVARIANTS
    ScreenTypeOK
    NoForeignText
    EchoIsLine
    CursorFollows
