SPECIFICATION HeapSpec
CONSTANTS
    ALIGN = 4
    HDR = 4
    MIN_FRAG = 4
    PMM_PAGE_SIZE = 16
    HEAP_START = 96
    WORD = 256
    Sizes <- MCSizes
    Arrays <- MCArrays
    Supplies <- MCSupplies
INVARIANTS Tiles LiveSafe FreedWhole
PROPERTIES OthersUntouched
