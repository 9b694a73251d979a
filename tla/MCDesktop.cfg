SPECIFICATION Spec
CONSTANTS
    MAX_WINDOWS = 2
    MAX_TERMINALS = 2
    TERM_BUF_SIZE = 4
    TERM_LINE_SIZE = 2
    BYTE = 4
    NEWLINE = 2
    PROMPT = 1
    SCREEN_H = 400
    Pointer <- MCPointer
    Held <- MCHeld
    Outputs = {1}
    MaxId = 3
INVARIANTS IdsUnique OneFocus DragHeld TerminalsOwned
PROPERTIES ClickFocusesSeen LostForGood TextKept
CHECK_DEADLOCK FALSE
