SPECIFICATION ConsoleSpec
CONSTANTS
    a = a
    b = b
    dollar = dollar
    NL = NL
    CR = CR
    HT = HT
    BS = BS
    Blank = Blank
    Glyphs = {a, b, dollar, Blank}
    Chars = {a, b}
    MAX_LEN = 3
    SLOT_LEN = 2
    HIST = 2
    MaxLines = 4
    VGA_WIDTH = 3
    VGA_HEIGHT = 2
    TAB = 2
    PromptText <- MCPrompt
    Outputs <- MCOutputs
INVARIANTS ShowsLine PromptKept
PROPERTIES Recalls ComesBack
CHECK_DEADLOCK FALSE
