SPECIFICATION ShellSpec
CONSTANTS
    WORD = 8
    Requests <- MCRequests
    SCALE = 100
    MAX_TRUSTED = 4
    Ports = {1, 2}
    Lines <- MCLines
    None = None
    Hosts = {"localhost"}
    MaxLasted = 10
PROPERTY StopsAsTold
CHECK_DEADLOCK FALSE
