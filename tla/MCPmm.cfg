SPECIFICATION Spec
CONSTANTS
    MAX_PAGES = 6
    PMM_PAGE_SIZE = 2
    KERNEL_END = 3
    WORD = 8
    MemoryMaps <- MCMemoryMaps
    FlatRanges <- MCFlatRanges
INVARIANTS HeldSafe UsedFollowsBitmap
PROPERTIES NeverTwice
