-------------------------------- MODULE Heap --------------------------------
(***************************************************************************)
(* The kernel heap of heap.c: one linked list of blocks, each a header and *)
(* its payload, first fit, split on allocation and coalesced on release.   *)
(* The list grows at its head by whole pages, at addresses heap_expand     *)
(* picks itself; the pages it takes from pmm are only counted.             *)
(*                                                                         *)
(* The specification is that of heap.c under its contract: callers give    *)
(* back, once, pointers they were given.                                   *)
(***************************************************************************)
EXTENDS PageUnits, Sequences, FiniteSetsExt, SequencesExt

CONSTANTS
    ALIGN,          \* sizes are rounded up to it (4)
    HDR,            \* sizeof(block_header_t) (16)
    MIN_FRAG,       \* smallest payload worth splitting off (16)
    HEAP_START,     \* (0x01000000)
    Sizes,          \* what callers ask for
    Arrays,         \* what callers ask kcalloc for: <<num, size>>
    Supplies        \* what pmm_alloc_page may have to give: page addresses in order

ASSUME HeapAssumption ==
    /\ {ALIGN, HDR, MIN_FRAG} \subseteq Nat \ {0}
    /\ HEAP_START \in Nat
    /\ HDR % ALIGN = 0 /\ PMM_PAGE_SIZE % ALIGN = 0 /\ WORD % PMM_PAGE_SIZE = 0

\* No request comes near the end of the address space, so no size computation
\* wraps: the kernel's largest is a window of w * h * 4 bytes.
ASSUME SizesAssumption ==
    /\ \A size \in Sizes : size \in Nat /\ size + HDR + PMM_PAGE_SIZE < WORD
    /\ \A arr \in Arrays : /\ arr \in Nat \X Nat
                           /\ arr[1] * arr[2] + HDR + PMM_PAGE_SIZE < WORD

\* There are no more pages than addresses: the bitmap of pmm.c has 2^20.
ASSUME SuppliesAssumption ==
    \A pages \in Supplies : pages \in Seq(Nat) /\ Len(pages) * PMM_PAGE_SIZE <= WORD

VARIABLES
    list,          \* free_list: every block, used or not, in list order
    heap_current,  \* where the next expansion is put
    supply,        \* what pmm_alloc_page has left to return
    live           \* what callers hold: records [ptr, size], size as asked for

heapVars == <<list, heap_current, supply, live>>

Align(size) == ((size + ALIGN - 1) \div ALIGN) * ALIGN

Block(addr, size, used) == [addr |-> addr, size |-> size, used |-> used]

End(blk) == blk.addr + HDR + blk.size

HeapInit ==
    /\ list = <<>>
    /\ heap_current = HEAP_START
    /\ supply \in Supplies
    /\ live = {}

-----------------------------------------------------------------------------
(* kmalloc, as a function of the heap h = [list, top, supply]: the new     *)
(* heap and the pointer, 0 for NULL.                                       *)

\* pmm_alloc_page until enough pages were taken or it returned 0, which is also
\* the address of page 0.  (Each page is filled with zeroes, which no caller holds
\* here; what that does to a page of the kernel is in Process.)
Refusal(h, pages) == {i \in 1 .. pages : i > Len(h.supply) \/ h.supply[i] = 0}

Expand(h, size) ==
    LET pages == PagesUp(HDR + size)
        refused == Refusal(h, pages)
        taken == IF refused = {} THEN pages ELSE Min(refused)
        grown == pages * PMM_PAGE_SIZE
        left == SubSeq(h.supply, taken + 1, Len(h.supply))
    IN  IF refused = {}
        THEN [h |-> [list |-> <<Block(h.top, grown - HDR, TRUE)>> \o h.list,
                     top |-> h.top + grown,
                     supply |-> left],
              ptr |-> h.top + HDR]
        ELSE [h |-> [h EXCEPT !.supply = left], ptr |-> 0]

\* Mutant: the search does not skip used blocks.
FittingUsed(h, size) == {i \in DOMAIN h.list : h.list[i].size >= size}

Fitting(h, size) ==
    {i \in DOMAIN h.list : ~h.list[i].used /\ h.list[i].size >= size}

\* Mutant: a split forgets its own header.
CarveNoHeader(blk, size) ==
    IF blk.size >= size + HDR + MIN_FRAG
    THEN <<Block(blk.addr, size, TRUE),
           Block(blk.addr + HDR + size, blk.size - size, FALSE)>>
    ELSE <<[blk EXCEPT !.used = TRUE]>>

\* The blocks the chosen one becomes: it alone, or it and what is split off.
Carve(blk, size) ==
    IF blk.size >= size + HDR + MIN_FRAG
    THEN <<Block(blk.addr, size, TRUE),
           Block(blk.addr + HDR + size, blk.size - size - HDR, FALSE)>>
    ELSE <<[blk EXCEPT !.used = TRUE]>>

FirstFit(h, size) ==
    LET i == Min(Fitting(h, size))
        blk == h.list[i]
    IN  [h |-> [h EXCEPT !.list = SubSeq(h.list, 1, i - 1)
                                    \o Carve(blk, size)
                                    \o SubSeq(h.list, i + 1, Len(h.list))],
         ptr |-> blk.addr + HDR]

Allocate(h, asked) ==
    LET size == Align(asked)
    IN  IF asked = 0 THEN [h |-> h, ptr |-> 0]
        ELSE IF Fitting(h, size) # {} THEN FirstFit(h, size)
        ELSE Expand(h, size)

-----------------------------------------------------------------------------
(* kfree.                                                                  *)

\* Mutant: a used block swallows its free neighbour.
SwallowUsed(done, blk) ==
    IF done # <<>> /\ ~blk.used /\ End(Last(done)) = blk.addr
    THEN Append(Front(done), [Last(done) EXCEPT !.size = @ + HDR + blk.size])
    ELSE Append(done, blk)

\* The loop from the head of the list: a free block swallows its successor in
\* the list when that one is free and starts where it ends.
Swallow(done, blk) ==
    IF done # <<>> /\ ~Last(done).used /\ ~blk.used /\ End(Last(done)) = blk.addr
    THEN Append(Front(done), [Last(done) EXCEPT !.size = @ + HDR + blk.size])
    ELSE Append(done, blk)

\* Mutant: released blocks are left as they are.
CoalesceNever(blocks) == blocks

Coalesce(blocks) ==
    LET done[n \in Nat] == IF n \in 1 .. Len(blocks) THEN Swallow(done[n - 1], blocks[n])
                           ELSE <<>>
    IN  done[Len(blocks)]

Release(h, ptr) ==
    [h EXCEPT !.list =
        Coalesce([i \in DOMAIN @ |->
                    IF @[i].addr + HDR = ptr THEN [@[i] EXCEPT !.used = FALSE] ELSE @[i]])]

-----------------------------------------------------------------------------
Now == [list |-> list, top |-> heap_current, supply |-> supply]

Become(h) ==
    /\ list' = h.list
    /\ heap_current' = h.top
    /\ supply' = h.supply

Grants(ptr, size) == IF ptr = 0 THEN {} ELSE {[ptr |-> ptr, size |-> size]}

Kmalloc(size) ==
    LET r == Allocate(Now, size)
    IN  /\ Become(r.h)
        /\ live' = live \cup Grants(r.ptr, size)

Kcalloc(num, size) == Kmalloc((num * size) % WORD)

Kfree(l) ==
    /\ Become(Release(Now, l.ptr))
    /\ live' = live \ {l}

\* krealloc keeps a block that is large enough; otherwise it allocates, copies
\* and releases, and leaves the old block alone when there is no memory.
Krealloc(l, size) ==
    LET blk == CHOOSE b \in ToSet(list) : b.addr + HDR = l.ptr
        r == Allocate(Now, size)
    IN  IF size = 0 THEN Kfree(l)
        ELSE IF blk.size >= size
        THEN /\ live' = (live \ {l}) \cup Grants(l.ptr, size)
             /\ UNCHANGED <<list, heap_current, supply>>
        ELSE IF r.ptr = 0
        THEN Become(r.h) /\ UNCHANGED live
        ELSE /\ Become(Release(r.h, l.ptr))
             /\ live' = (live \ {l}) \cup Grants(r.ptr, size)

HeapNext ==
    \/ \E size \in Sizes : Kmalloc(size)
    \/ \E arr \in Arrays : Kcalloc(arr[1], arr[2])
    \/ \E l \in live : Kfree(l)
    \/ \E l \in live, size \in Sizes : Krealloc(l, size)

HeapSpec == HeapInit /\ [][HeapNext]_heapVars

-----------------------------------------------------------------------------
(* Properties.                                                             *)

Blocks == ToSet(list)

HeapTypeOK ==
    /\ \A i \in DOMAIN list :
         /\ list[i].addr \in Nat /\ list[i].size \in 0 .. WORD - 1
         /\ list[i].used \in BOOLEAN
    /\ heap_current \in Nat
    /\ supply \in Seq(Nat)
    /\ \A l \in live : l.ptr \in Nat /\ l.size \in Nat

\* Splitting and coalescing neither lose nor duplicate memory: the blocks tile
\* the heap from HEAP_START to heap_current (heap.c:50-70, 97-113).
Tiles ==
    /\ HeapTypeOK
    /\ \A i, j \in DOMAIN list :
         i # j => End(list[i]) <= list[j].addr \/ End(list[j]) <= list[i].addr
    /\ \A a \in HEAP_START .. heap_current - 1 :
         \E b \in Blocks : b.addr <= a /\ a < End(b)
    /\ \A b \in Blocks : HEAP_START <= b.addr /\ End(b) <= heap_current

\* Every allocation is the payload of its own used block, at least as large as
\* what was asked for, through any order of allocations, resizes and releases,
\* refused ones included; nothing else is marked used.
LiveSafe ==
    /\ \A l \in live : \E b \in Blocks :
         b.used /\ b.addr + HDR = l.ptr /\ b.size >= l.size
    /\ \A l, k \in live : l.ptr = k.ptr => l = k
    /\ \A b \in Blocks : b.used => \E l \in live : b.addr + HDR = l.ptr

\* Coalescing is complete: no two blocks that follow each other in the list and
\* in memory are both free (the "continue" of heap.c:109 and the split of :52-60),
\* and when everything has been given back the heap is in blocks as large as
\* heap_expand made them: whole pages, nothing left fragmented.
FreedWhole ==
    /\ \A i \in 1 .. Len(list) - 1 :
         End(list[i]) = list[i + 1].addr => list[i].used \/ list[i + 1].used
    /\ live = {} => \A b \in Blocks : (HDR + b.size) % PMM_PAGE_SIZE = 0

\* A pointer stays valid until its own release: no operation moves, shrinks below
\* its size, or reuses a block somebody else holds.
OthersUntouched ==
    [][\A l \in live \cap live' : \E b \in Blocks : \E n \in ToSet(list') :
         /\ b.addr + HDR = l.ptr
         /\ n.addr = b.addr /\ n.used /\ n.size = b.size]_heapVars
=============================================================================
