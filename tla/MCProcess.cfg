SPECIFICATION Spec
CONSTANTS
    MAX_PROCESSES = 3
    STACK_PAGES = 2
    HEAP_PAGES = 3
    KERNEL_PAGES = {1, 2}
    BASE_PAGE = 2
    Pools <- MCPools
    Names <- MCNames
    MaxPid = 4
    MaxTicks = 2
INVARIANTS PidsUnique
PROPERTIES NoResurrection SlotLoss
CHECK_DEADLOCK FALSE
