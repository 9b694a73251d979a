SPECIFICATION Spec
CONSTANTS
    a = a
    b = b
    KFIFO_SIZE = 4
    Chars <- MCChars
    NoChar = NoChar
PROPERTIES NoOverwrite Fifo Answered
