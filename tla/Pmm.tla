-------------------------------- MODULE Pmm --------------------------------
(***************************************************************************)
(* The physical memory manager of pmm.c: a bitmap with one bit per page    *)
(* (set: not available), and the two counters the "free" and "mem"         *)
(* commands print.  Until pmm_init runs, all three are the zeroes of .bss. *)
(*                                                                         *)
(* The specification is that of pmm.c under callers that give back only    *)
(* what they were given; a caller that does not is modelled where it is.   *)
(***************************************************************************)
EXTENDS PageUnits, FiniteSets, FiniteSetsExt

CONSTANTS
    MAX_PAGES,      \* bits of the bitmap (65536)
    KERNEL_END,     \* &_kernel_end, a byte address
    MemoryMaps,     \* multiboot memory maps: sequences of [base, length, type]
    FlatRanges      \* arguments of pmm_init_flat: <<mem_start, mem_end>>

ASSUME PmmAssumption ==
    /\ MAX_PAGES \in Nat \ {0}
    /\ KERNEL_END \in Nat
    /\ MAX_PAGES < WORD

ASSUME MapsAssumption ==
    /\ \A mmap \in MemoryMaps : \A i \in DOMAIN mmap :
         mmap[i].base \in Nat /\ mmap[i].length \in Nat
    /\ \A range \in FlatRanges : range[1] \in Nat /\ range[2] \in Nat

VARIABLES
    bitmap,       \* the pages whose bit is set
    total_pages,
    used_pages,
    up,           \* FALSE while kernel_main has not passed the pmm_init call
    granted,      \* pages the last initialisation made available
    held,         \* pages handed out and not given back
    ret           \* what the last call returned

vars == <<bitmap, total_pages, used_pages, up, granted, held, ret>>

Pages == 0 .. MAX_PAGES - 1

Clear == Pages \ bitmap

\* The pages pmm_init takes from one entry of the map: usable memory, not the
\* first page, nothing below the end of the kernel.
RegionPages(r) ==
    LET first == r.base \div PMM_PAGE_SIZE
        after == first + r.length \div PMM_PAGE_SIZE
    IN  IF r.type = 1 /\ r.base >= PMM_PAGE_SIZE
        THEN {p \in Pages : first <= p /\ p < after /\ p >= PagesUp(KERNEL_END)}
        ELSE {}

MapPages(mmap) == UNION {RegionPages(mmap[i]) : i \in DOMAIN mmap}

\* total_pages counts a page once per entry that covers it.
MapCount(mmap) ==
    MapThenSumSet(LAMBDA i : Cardinality(RegionPages(mmap[i])), DOMAIN mmap)

\* A sum of cardinalities is a number: true of every map with finitely many
\* entries, stated because a fold is opaque to the provers.
ASSUME MapCountAssumption == \A mmap \in MemoryMaps : MapCount(mmap) \in Nat

FlatPages(range) ==
    {p \in Pages : PagesUp(range[1]) <= p /\ p < range[2] \div PMM_PAGE_SIZE}

\* The .bss contents: every bit clear.
Init ==
    /\ bitmap = {}
    /\ total_pages = 0
    /\ used_pages = 0
    /\ up = FALSE
    /\ granted = Pages
    /\ held = {}
    /\ ret = 0

\* Mutant: the bitmap is not filled with ones first.
GrantOnly(pages, count) ==
    /\ ~up
    /\ up' = TRUE
    /\ bitmap' = bitmap \ pages
    /\ granted' = pages
    /\ total_pages' = count % WORD
    /\ used_pages' = total_pages'
    /\ UNCHANGED <<held, ret>>

\* Both initialisers set every bit, then clear the usable ones, and end with
\* used_pages = total_pages.
Grant(pages, count) ==
    /\ ~up
    /\ up' = TRUE
    /\ bitmap' = Pages \ pages
    /\ granted' = pages
    /\ total_pages' = count % WORD
    /\ used_pages' = total_pages'
    /\ UNCHANGED <<held, ret>>

PmmInit(mmap) == Grant(MapPages(mmap), MapCount(mmap))

PmmInitFlat(range) == Grant(FlatPages(range), Cardinality(FlatPages(range)))

\* kernel_main goes past pmm_init when it is not given the multiboot magic.
SkipInit ==
    /\ ~up
    /\ up' = TRUE
    /\ UNCHANGED <<bitmap, total_pages, used_pages, granted, held, ret>>

\* Mutant: the bit is not set.
AllocPageUnmarked ==
    /\ up
    /\ \E p \in Clear :
         /\ \A other \in Clear : p <= other
         /\ used_pages' = (used_pages + 1) % WORD
         /\ ret' = p * PMM_PAGE_SIZE
         /\ held' = IF ret' = 0 THEN held ELSE held \cup {p}
    /\ UNCHANGED <<bitmap, total_pages, up, granted>>

\* The lowest clear bit.  Page 0 has the address that means "no page": its bit
\* is set and the caller believes it was given nothing.
AllocPage ==
    /\ up
    /\ \E p \in Clear :
         /\ \A other \in Clear : p <= other
         /\ bitmap' = bitmap \cup {p}
         /\ used_pages' = (used_pages + 1) % WORD
         /\ ret' = p * PMM_PAGE_SIZE
         /\ held' = IF ret' = 0 THEN held ELSE held \cup {p}
    /\ UNCHANGED <<total_pages, up, granted>>

AllocFails ==
    /\ up
    /\ Clear = {}
    /\ ret' = 0
    /\ UNCHANGED <<bitmap, total_pages, used_pages, up, granted, held>>

\* Mutant: a freed page is not counted back.
FreeBitUncounted(addr) ==
    /\ bitmap' = bitmap \ {addr \div PMM_PAGE_SIZE}
    /\ UNCHANGED used_pages

\* pmm_free_page: nothing happens to an address past the bitmap or to a clear bit.
FreeBit(addr) ==
    LET p == addr \div PMM_PAGE_SIZE
    IN  IF p \in bitmap
        THEN /\ bitmap' = bitmap \ {p}
             /\ used_pages' = (used_pages - 1) % WORD
        ELSE UNCHANGED <<bitmap, used_pages>>

FreePage(p) ==
    /\ up
    /\ p \in held
    /\ FreeBit(p * PMM_PAGE_SIZE)
    /\ held' = held \ {p}
    /\ UNCHANGED <<total_pages, up, granted, ret>>

Next ==
    \/ \E mmap \in MemoryMaps : PmmInit(mmap)
    \/ \E range \in FlatRanges : PmmInitFlat(range)
    \/ SkipInit
    \/ AllocPage
    \/ AllocFails
    \/ \E p \in held : FreePage(p)

Spec == Init /\ [][Next]_vars

-----------------------------------------------------------------------------
(* Properties.                                                             *)

TypeOK ==
    /\ bitmap \subseteq Pages
    /\ total_pages \in 0 .. WORD - 1
    /\ used_pages \in 0 .. WORD - 1
    /\ up \in BOOLEAN
    /\ granted \subseteq Pages
    /\ held \subseteq Pages
    /\ ret \in Nat

\* What a caller holds is marked, was granted by the memory map, and is not page
\* 0: pmm_alloc_page (pmm.c:85-100) and pmm_free_page (pmm.c:102-108) keep the
\* bitmap and the callers' view of it in step.
HeldSafe ==
    /\ held \subseteq bitmap
    /\ held \subseteq granted
    /\ 0 \notin held

\* A page is never handed to a second caller while a first one holds it.
NeverTwice ==
    [][AllocPage => (ret' = 0 \/ (ret' \div PMM_PAGE_SIZE) \notin held)]_vars

\* used_pages moves with the bitmap: a page more or less in use is one more or
\* less counted, across exhaustion, refused frees and counter wrap-around; the
\* distance between the two is the one the initialisation left.
UsedFollowsBitmap ==
    (used_pages - Cardinality(bitmap)) % WORD
      = (total_pages - (MAX_PAGES - Cardinality(granted))) % WORD
=============================================================================
