SPECIFICATION PipeSpec
CONSTANTS
    PIPE_BUF_SIZE = 3
    Bytes = {0, 1}
    Writes <- MCWrites
    Reads = {0, 1, 2, 3, 4}
PROPERTIES InOrder
