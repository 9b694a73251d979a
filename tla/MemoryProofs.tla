---------------------------- MODULE MemoryProofs ----------------------------
(***************************************************************************)
(* Proofs about the two allocators, Pmm and Heap.                          *)
(*                                                                         *)
(* Of the pages, for every bitmap size, page size, kernel and memory map:  *)
(* types, that a held page is marked and granted, that no page is handed   *)
(* out twice, and that used_pages follows the bitmap.                      *)
(*                                                                         *)
(* Of the heap, for every alignment, header, page and fragment size and    *)
(* every run of pages it may be given: that the blocks tile what was taken *)
(* from the machine, that every pointer a caller holds is a block of its   *)
(* own, big enough, that the last release leaves whole pages, and that no  *)
(* call disturbs what another caller holds.                                *)
(***************************************************************************)
EXTENDS Pmm, Heap, Basics, FiniteSetTheorems, TLAPS

-----------------------------------------------------------------------------
(* The pages of pmm.c.                                                     *)

\* A whole turn does not change a residue.
LEMMA TurnUp ==
    ASSUME NEW x \in Int
    PROVE  (x + WORD) % WORD = x % WORD
<1> DEFINE q1 == x \div WORD
           r1 == x % WORD
           q2 == (x + WORD) \div WORD
           r2 == (x + WORD) % WORD
<1>1. WORD \in Nat \ {0}
  BY PmmAssumption, UnitsAssumption
<1>2. /\ q1 \in Int /\ r1 \in 0 .. WORD - 1 /\ x = WORD * q1 + r1
      /\ q2 \in Int /\ r2 \in 0 .. WORD - 1 /\ x + WORD = WORD * q2 + r2
  BY <1>1
<1> HIDE DEF q1, r1, q2, r2
<1>3. WORD * q2 + r2 = WORD * q1 + r1 + WORD
  BY <1>2
<1>4. CASE q2 >= q1 + 2
  <2>1. WORD * q2 >= WORD * (q1 + 2)
    BY <1>1, <1>2, <1>4
  <2>2. WORD * (q1 + 2) = WORD * q1 + 2 * WORD
    BY <1>1, <1>2
  <2> QED
    BY <1>1, <1>2, <1>3, <2>1, <2>2
<1>5. CASE q2 <= q1
  <2>1. WORD * q2 <= WORD * q1
    BY <1>1, <1>2, <1>5
  <2> QED
    BY <1>1, <1>2, <1>3, <2>1
<1>6. CASE q2 = q1 + 1
  <2>1. WORD * q2 = WORD * q1 + WORD
    BY <1>1, <1>2, <1>6
  <2>2. r2 = r1
    BY <1>1, <1>2, <1>3, <2>1
  <2> QED
    BY <2>2 DEF r1, r2
<1> QED
  BY <1>2, <1>4, <1>5, <1>6

\* Counting one more or one less modulo WORD on both sides of a difference.
LEMMA DifferenceUp ==
    ASSUME NEW a \in 0 .. WORD - 1, NEW b \in Int
    PROVE  (((a + 1) % WORD) - (b + 1)) % WORD = (a - b) % WORD
<1>1. CASE a + 1 < WORD
  <2>1. (a + 1) % WORD = a + 1
    BY <1>1, PmmAssumption, UnitsAssumption
  <2> QED
    BY <2>1, PmmAssumption, UnitsAssumption
<1>2. CASE a + 1 = WORD
  <2>1. (a + 1) % WORD = 0
    BY <1>2, PmmAssumption, UnitsAssumption
  <2>2. ((0 - (b + 1)) + WORD) % WORD = (0 - (b + 1)) % WORD
    <3>1. 0 - (b + 1) \in Int
      OBVIOUS
    <3> QED
      BY <3>1, TurnUp
  <2>3. (0 - (b + 1)) + WORD = a - b
    BY <1>2, PmmAssumption, UnitsAssumption
  <2> QED
    BY <2>1, <2>2, <2>3
<1> QED
  BY <1>1, <1>2, PmmAssumption, UnitsAssumption

LEMMA DifferenceDown ==
    ASSUME NEW a \in 0 .. WORD - 1, NEW b \in Int
    PROVE  (((a - 1) % WORD) - (b - 1)) % WORD = (a - b) % WORD
<1>1. CASE a # 0
  <2>1. (a - 1) % WORD = a - 1
    BY <1>1, PmmAssumption, UnitsAssumption
  <2> QED
    BY <2>1, PmmAssumption, UnitsAssumption
<1>2. CASE a = 0
  <2>1. (a - 1) % WORD = WORD - 1
    BY <1>2, PmmAssumption, UnitsAssumption
  <2>2. ((a - b) + WORD) % WORD = (a - b) % WORD
    <3>1. a - b \in Int
      BY PmmAssumption, UnitsAssumption
    <3> QED
      BY <3>1, TurnUp
  <2>3. (WORD - 1) - (b - 1) = (a - b) + WORD
    BY <1>2, PmmAssumption, UnitsAssumption
  <2> QED
    BY <2>1, <2>2, <2>3
<1> QED
  BY <1>1, <1>2

-----------------------------------------------------------------------------

\* A clear bit is a bit the initialisation cleared: giving a page back never
\* clears the bit of a page that was not granted.
Granted == Clear \subseteq granted

Inv ==
    /\ TypeOK
    /\ HeldSafe
    /\ UsedFollowsBitmap
    /\ Granted
    /\ ~up => held = {}

\* The initialisers grant pages of the bitmap, whatever the map says.
LEMMA GrantsPages ==
    /\ \A mmap \in MemoryMaps : MapPages(mmap) \subseteq Pages
    /\ \A range \in FlatRanges : FlatPages(range) \subseteq Pages
  BY DEF MapPages, RegionPages, FlatPages

LEMMA PagesFinite == IsFiniteSet(Pages) /\ Cardinality(Pages) = MAX_PAGES
<1>1. 0 \in Int /\ MAX_PAGES - 1 \in Int
  BY PmmAssumption, UnitsAssumption
<1>2. /\ IsFiniteSet(0 .. MAX_PAGES - 1)
      /\ Cardinality(0 .. MAX_PAGES - 1)
           = IF 0 > MAX_PAGES - 1 THEN 0 ELSE MAX_PAGES - 1 - 0 + 1
  BY <1>1, FS_Interval
<1> QED
  BY <1>2, PmmAssumption, UnitsAssumption DEF Pages

\* A page is found again from its address.
LEMMA PageOfAddress ==
    ASSUME NEW p \in Pages
    PROVE  /\ p * PMM_PAGE_SIZE \in Nat
           /\ (p * PMM_PAGE_SIZE) \div PMM_PAGE_SIZE = p
           /\ p * PMM_PAGE_SIZE = 0 <=> p = 0
<1>1. p \in Nat /\ PMM_PAGE_SIZE \in Nat \ {0}
  BY PmmAssumption, UnitsAssumption DEF Pages
<1>2. p * PMM_PAGE_SIZE \in Nat /\ (p * PMM_PAGE_SIZE = 0 <=> p = 0)
  BY <1>1
<1>3. (p * PMM_PAGE_SIZE) \div PMM_PAGE_SIZE = p
  BY <1>1
<1> QED
  BY <1>2, <1>3

LEMMA InitInv == Init => Inv
<1> SUFFICES ASSUME Init PROVE Inv
  OBVIOUS
<1>1. TypeOK /\ HeldSafe
  <2>1. 0 \in 0 .. WORD - 1
    BY PmmAssumption, UnitsAssumption
  <2> QED
    BY <2>1 DEF Init, TypeOK, HeldSafe
<1>2. UsedFollowsBitmap
  BY PagesFinite, FS_EmptySet, PmmAssumption, UnitsAssumption DEF Init, UsedFollowsBitmap
<1> QED
  BY <1>1, <1>2 DEF Init, Inv, Granted, Clear

\* Both initialisers, and any other count they could arrive at.
LEMMA GrantKeepsInv ==
    ASSUME Inv, NEW pages \in SUBSET Pages, NEW count \in Nat, Grant(pages, count)
    PROVE  Inv'
<1>1. /\ ~up /\ up' /\ held = {} /\ held' = {}
      /\ bitmap' = Pages \ pages /\ granted' = pages
      /\ total_pages' = count % WORD /\ used_pages' = total_pages' /\ ret' = ret
  BY DEF Grant, Inv
<1>2. count % WORD \in 0 .. WORD - 1
  BY PmmAssumption, UnitsAssumption
<1>3. TypeOK' /\ HeldSafe'
  BY <1>1, <1>2 DEF Inv, TypeOK, HeldSafe
<1>4. Cardinality(Pages \ pages) = MAX_PAGES - Cardinality(pages)
  <2>1. /\ IsFiniteSet(pages) /\ IsFiniteSet(Pages \ pages)
        /\ Cardinality(pages) \in Nat /\ Cardinality(Pages \ pages) \in Nat
    BY PagesFinite, FS_Subset, FS_CardinalityType
  <2>2. Cardinality(pages \cup (Pages \ pages))
          = Cardinality(pages) + Cardinality(Pages \ pages) - Cardinality(pages \cap (Pages \ pages))
    BY <2>1, FS_Union
  <2>3. pages \cup (Pages \ pages) = Pages /\ pages \cap (Pages \ pages) = {}
    OBVIOUS
  <2> QED
    <3>1. Cardinality(Pages)
            = Cardinality(pages) + Cardinality(Pages \ pages) - Cardinality({})
      BY <2>2, <2>3
    <3>2. MAX_PAGES = Cardinality(pages) + Cardinality(Pages \ pages) - 0
      BY <3>1, PagesFinite, FS_EmptySet
    <3> QED
      BY <2>1, <3>2, PmmAssumption, UnitsAssumption
<1>5. UsedFollowsBitmap'
  <2>1. Cardinality(bitmap') = MAX_PAGES - Cardinality(granted')
    BY <1>1, <1>4
  <2>2. used_pages' = total_pages'
    BY <1>1
  <2> QED
    BY <2>1, <2>2 DEF UsedFollowsBitmap
<1>6. Granted'
  BY <1>1 DEF Granted, Clear
<1> QED
  BY <1>1, <1>3, <1>5, <1>6 DEF Inv

LEMMA AllocKeepsInv ==
    ASSUME Inv, AllocPage
    PROVE  Inv'
<1>1. PICK p \in Clear :
        /\ bitmap' = bitmap \cup {p}
        /\ used_pages' = (used_pages + 1) % WORD
        /\ ret' = p * PMM_PAGE_SIZE
        /\ held' = IF ret' = 0 THEN held ELSE held \cup {p}
  BY DEF AllocPage
<1>2. up /\ up' /\ UNCHANGED <<total_pages, granted>>
  BY DEF AllocPage
<1>3. p \in Pages /\ p \notin bitmap
  BY DEF Clear
<1>4. TypeOK'
  <2>1. (used_pages + 1) % WORD \in 0 .. WORD - 1
    BY PmmAssumption, UnitsAssumption DEF Inv, TypeOK
  <2>2. ret' \in Nat
    BY <1>1, <1>3, PageOfAddress
  <2> QED
    BY <1>1, <1>2, <1>3, <2>1, <2>2 DEF Inv, TypeOK
<1>5. Cardinality(bitmap \cup {p}) = Cardinality(bitmap) + 1
      /\ Cardinality(bitmap) \in Nat
  BY <1>3, PagesFinite, FS_Subset, FS_CardinalityType, FS_AddElement DEF Inv, TypeOK
<1>6. UsedFollowsBitmap'
  <2>1. (((used_pages + 1) % WORD) - (Cardinality(bitmap) + 1)) % WORD
          = (used_pages - Cardinality(bitmap)) % WORD
    BY <1>5, DifferenceUp DEF Inv, TypeOK
  <2> QED
    BY <1>1, <1>2, <1>5, <2>1 DEF Inv, UsedFollowsBitmap
<1>7. HeldSafe'
  <2>1. p \in granted
    BY <1>3 DEF Inv, Granted
  <2>2. ret' = 0 <=> p = 0
    BY <1>1, <1>3, PageOfAddress
  <2> QED
    BY <1>1, <1>2, <2>1, <2>2 DEF Inv, HeldSafe
<1>8. Granted'
  BY <1>1, <1>2 DEF Inv, Granted, Clear
<1> QED
  BY <1>2, <1>4, <1>6, <1>7, <1>8 DEF Inv

LEMMA FreeKeepsInv ==
    ASSUME Inv, NEW p \in held, FreePage(p)
    PROVE  Inv'
<1>1. p \in Pages /\ p \in bitmap /\ p \in granted /\ p # 0
  BY DEF Inv, TypeOK, HeldSafe
<1>2. (p * PMM_PAGE_SIZE) \div PMM_PAGE_SIZE = p
  BY <1>1, PageOfAddress
<1>3. /\ bitmap' = bitmap \ {p}
      /\ used_pages' = (used_pages - 1) % WORD
      /\ held' = held \ {p}
      /\ up /\ UNCHANGED <<total_pages, up, granted, ret>>
  BY <1>1, <1>2 DEF FreePage, FreeBit
<1>4. TypeOK'
  <2>1. (used_pages - 1) % WORD \in 0 .. WORD - 1
    BY PmmAssumption, UnitsAssumption DEF Inv, TypeOK
  <2> QED
    BY <1>3, <2>1 DEF Inv, TypeOK
<1>5. HeldSafe'
  BY <1>3 DEF Inv, HeldSafe
<1>6. UsedFollowsBitmap'
  <2>1. Cardinality(bitmap \ {p}) = Cardinality(bitmap) - 1
        /\ Cardinality(bitmap) \in Nat
    BY <1>1, PagesFinite, FS_Subset, FS_CardinalityType, FS_RemoveElement
    DEF Inv, TypeOK
  <2>2. (((used_pages - 1) % WORD) - (Cardinality(bitmap) - 1)) % WORD
          = (used_pages - Cardinality(bitmap)) % WORD
    BY <2>1, DifferenceDown DEF Inv, TypeOK
  <2> QED
    BY <1>3, <2>1, <2>2 DEF Inv, UsedFollowsBitmap
<1>7. Granted'
  BY <1>1, <1>3 DEF Inv, Granted, Clear
<1> QED
  BY <1>3, <1>4, <1>5, <1>6, <1>7 DEF Inv

LEMMA StepInv == Inv /\ [Next]_vars => Inv'
<1> SUFFICES ASSUME Inv, [Next]_vars PROVE Inv'
  OBVIOUS
<1>1. ASSUME NEW mmap \in MemoryMaps, PmmInit(mmap) PROVE Inv'
  BY <1>1, GrantsPages, GrantKeepsInv, MapCountAssumption DEF PmmInit
<1>2. ASSUME NEW range \in FlatRanges, PmmInitFlat(range) PROVE Inv'
  <2>1. FlatPages(range) \in SUBSET Pages
    BY GrantsPages
  <2>2. Cardinality(FlatPages(range)) \in Nat
    BY <2>1, PagesFinite, FS_Subset, FS_CardinalityType
  <2> QED
    BY <1>2, <2>1, <2>2, GrantKeepsInv DEF PmmInitFlat
<1>3. ASSUME SkipInit \/ AllocFails \/ UNCHANGED vars PROVE Inv'
  <2>1. UNCHANGED <<bitmap, total_pages, used_pages, granted, held>>
    BY <1>3 DEF SkipInit, AllocFails, vars
  <2>2. /\ up' \in BOOLEAN /\ ret' \in Nat /\ (~up' => ~up)
    <3>1. CASE SkipInit
      BY <3>1 DEF SkipInit, Inv, TypeOK
    <3>2. CASE AllocFails
      BY <3>2 DEF AllocFails, Inv, TypeOK
    <3>3. CASE UNCHANGED vars
      BY <3>3 DEF vars, Inv, TypeOK
    <3> QED
      BY <1>3, <3>1, <3>2, <3>3
  <2> QED
    BY <2>1, <2>2 DEF Inv, TypeOK, HeldSafe, UsedFollowsBitmap, Granted, Clear
<1>4. CASE AllocPage
  BY <1>4, AllocKeepsInv
<1>5. ASSUME NEW p \in held, FreePage(p) PROVE Inv'
  BY <1>5, FreeKeepsInv
<1> QED
  BY <1>1, <1>2, <1>3, <1>4, <1>5 DEF Next

\* Types hold in every behaviour: no bit outside the bitmap, counters in a word.
THEOREM TypeCorrect == Spec => []TypeOK
<1>1. Inv => TypeOK
  BY DEF Inv
<1> QED
  BY <1>1, InitInv, StepInv, PTL DEF Spec

\* Whatever the memory map, a page a caller holds is marked, was granted, and is
\* not the page whose address means "no page".
THEOREM HeldPagesSafe == Spec => []HeldSafe
<1>1. Inv => HeldSafe
  BY DEF Inv
<1> QED
  BY <1>1, InitInv, StepInv, PTL DEF Spec

\* used_pages and the bitmap never drift apart, modulo the width of the counter.
THEOREM CounterFollows == Spec => []UsedFollowsBitmap
<1>1. Inv => UsedFollowsBitmap
  BY DEF Inv
<1> QED
  BY <1>1, InitInv, StepInv, PTL DEF Spec

\* pmm_alloc_page never returns a page that a caller holds.
THEOREM NoPageTwice == Spec => NeverTwice
<1> DEFINE Fresh == AllocPage => (ret' = 0 \/ (ret' \div PMM_PAGE_SIZE) \notin held)
<1>1. Inv /\ [Next]_vars => [Fresh]_vars
  <2> SUFFICES ASSUME Inv, AllocPage
               PROVE  ret' = 0 \/ (ret' \div PMM_PAGE_SIZE) \notin held
    OBVIOUS
  <2>1. PICK p \in Clear : ret' = p * PMM_PAGE_SIZE
    BY DEF AllocPage
  <2>2. p \in Pages /\ p \notin held
    BY DEF Clear, Inv, HeldSafe
  <2> QED
    BY <2>1, <2>2, PageOfAddress
<1> QED
  BY <1>1, InitInv, StepInv, PTL DEF Spec, NeverTwice

-----------------------------------------------------------------------------
(* The blocks of the heap.                                                 *)

BlockRec == [addr : Nat, size : Nat, used : BOOLEAN]

Avoids(b, d) == End(b) <= d.addr \/ End(d) <= b.addr

\* Where pages begin.
PageEdge(a) == \E k \in Nat : a = HEAP_START + k * PMM_PAGE_SIZE

\* s is a list of n blocks that tile the heap up to top.  Where a block does not
\* follow the one before it in the list, it begins a growth of the heap, and where
\* it is not followed it ends one.
Laid(s, n, top) ==
    /\ n \in Nat
    /\ \A i \in 1 .. n : s[i] \in BlockRec
    /\ \A i, j \in 1 .. n : i # j => Avoids(s[i], s[j])
    /\ \A i \in 1 .. n : HEAP_START <= s[i].addr /\ End(s[i]) <= top
    /\ \A a \in HEAP_START .. top - 1 : \E i \in 1 .. n : s[i].addr <= a /\ a < End(s[i])
    /\ \A i \in 1 .. n : /\ PageEdge(s[i].addr) \/ (i > 1 /\ End(s[i - 1]) = s[i].addr)
                         /\ PageEdge(End(s[i])) \/ (i < n /\ End(s[i]) = s[i + 1].addr)

\* No two blocks that follow each other are both free.
Merged(s, n) ==
    \A i \in 1 .. n - 1 : End(s[i]) = s[i + 1].addr => s[i].used \/ s[i + 1].used

LEMMA HeapConstants ==
    /\ HDR \in Nat /\ HDR > 0
    /\ PMM_PAGE_SIZE \in Nat /\ PMM_PAGE_SIZE > 0
    /\ ALIGN \in Nat /\ ALIGN > 0
    /\ MIN_FRAG \in Nat /\ MIN_FRAG > 0
    /\ HEAP_START \in Nat
    /\ WORD \in Nat /\ WORD > 0
<1> QED
  BY HeapAssumption, UnitsAssumption

LEMMA BlockIs ==
    ASSUME NEW b \in BlockRec
    PROVE  /\ b.addr \in Nat /\ b.size \in Nat /\ b.used \in BOOLEAN
           /\ End(b) \in Nat /\ b.addr < End(b)
           /\ End(b) = b.addr + HDR + b.size
<1> QED
  BY HeapConstants DEF BlockRec, End

\* A list that has the same blocks, used or not, tiles the heap as well.
LEMMA SameShape ==
    ASSUME NEW s, NEW t, NEW n, NEW top, Laid(s, n, top),
           \A i \in 1 .. n : /\ t[i] \in BlockRec
                             /\ t[i].addr = s[i].addr
                             /\ End(t[i]) = End(s[i])
    PROVE  Laid(t, n, top)
<1> HIDE DEF End, PageEdge
<1>1. n \in Nat
  BY DEF Laid
<1>2. \A i, j \in 1 .. n : i # j => Avoids(t[i], t[j])
  BY DEF Laid, Avoids
<1>3. \A i \in 1 .. n : HEAP_START <= t[i].addr /\ End(t[i]) <= top
  BY DEF Laid
<1>4. \A a \in HEAP_START .. top - 1 : \E i \in 1 .. n : t[i].addr <= a /\ a < End(t[i])
  BY DEF Laid
<1>5. ASSUME NEW i \in 1 .. n
      PROVE  /\ PageEdge(t[i].addr) \/ (i > 1 /\ End(t[i - 1]) = t[i].addr)
             /\ PageEdge(End(t[i])) \/ (i < n /\ End(t[i]) = t[i + 1].addr)
  <2>1. i > 1 => i - 1 \in 1 .. n
    BY <1>1
  <2>2. i < n => i + 1 \in 1 .. n
    BY <1>1
  <2> QED
    BY <2>1, <2>2 DEF Laid
<1> QED
  BY <1>1, <1>2, <1>3, <1>4, <1>5 DEF Laid

\* What kmalloc does to the i-th block when it is worth splitting.
SplitAt(s, t, n, i) ==
    /\ \A k \in 1 .. n + 1 : t[k] \in BlockRec
    /\ \A k \in 1 .. n : /\ k < i => t[k] = s[k]
                         /\ k > i => t[k + 1] = s[k]
    /\ t[i].addr = s[i].addr
    /\ End(t[i]) = t[i + 1].addr
    /\ End(t[i + 1]) = End(s[i])

\* The block of s that the k-th of t is, or is part of.
Origin(i, k) == IF k <= i THEN k ELSE k - 1

LEMMA SplitOrigin ==
    ASSUME NEW s, NEW t, NEW n \in Nat, NEW i \in 1 .. n, SplitAt(s, t, n, i),
           \A k \in 1 .. n : s[k] \in BlockRec,
           NEW k \in 1 .. n + 1
    PROVE  /\ Origin(i, k) \in 1 .. n
           /\ s[Origin(i, k)].addr <= t[k].addr
           /\ End(t[k]) <= End(s[Origin(i, k)])
<1>1. t[k] \in BlockRec /\ t[i] \in BlockRec /\ t[i + 1] \in BlockRec
  BY DEF SplitAt
<1>2. /\ t[i].addr < End(t[i]) /\ t[i + 1].addr < End(t[i + 1])
      /\ t[i].addr \in Nat /\ t[i + 1].addr \in Nat /\ t[k].addr \in Nat
      /\ End(t[i]) \in Nat /\ End(t[i + 1]) \in Nat /\ End(t[k]) \in Nat
  BY <1>1, BlockIs
<1> HIDE DEF End
<1>3. CASE k < i
  <2>1. k \in 1 .. n /\ t[k] = s[k] /\ Origin(i, k) = k
    BY <1>3 DEF SplitAt, Origin
  <2> QED
    BY <1>2, <2>1
<1>4. CASE k = i
  <2>1. k \in 1 .. n /\ Origin(i, k) = i
    BY <1>4 DEF Origin
  <2> QED
    BY <1>2, <1>4, <2>1 DEF SplitAt
<1>5. CASE k = i + 1
  <2>1. Origin(i, k) = i
    BY <1>5 DEF Origin
  <2> QED
    BY <1>2, <1>5, <2>1 DEF SplitAt
<1>6. CASE k > i + 1
  <2>1. k - 1 \in 1 .. n /\ k - 1 > i /\ (k - 1) + 1 = k /\ Origin(i, k) = k - 1
    BY <1>6 DEF Origin
  <2>2. t[k] = s[k - 1]
    BY <2>1 DEF SplitAt
  <2> QED
    BY <1>2, <2>1, <2>2
<1> QED
  BY <1>3, <1>4, <1>5, <1>6

LEMMA SplitLaid ==
    ASSUME NEW s, NEW t, NEW n, NEW top \in Nat, Laid(s, n, top),
           NEW i \in 1 .. n, SplitAt(s, t, n, i)
    PROVE  Laid(t, n + 1, top)
<1> HIDE DEF End, PageEdge
<1>0. n \in Nat /\ \A k \in 1 .. n : s[k] \in BlockRec
  BY DEF Laid
<1>1. \A k \in 1 .. n + 1 : t[k] \in BlockRec
  BY DEF SplitAt
<1>2. \A k \in 1 .. n + 1 : /\ Origin(i, k) \in 1 .. n
                            /\ s[Origin(i, k)].addr <= t[k].addr
                            /\ End(t[k]) <= End(s[Origin(i, k)])
  BY <1>0, SplitOrigin
<1>3. \A k \in 1 .. n + 1 : t[k].addr \in Nat /\ End(t[k]) \in Nat
  BY <1>1, BlockIs
<1>4. \A k \in 1 .. n : s[k].addr \in Nat /\ End(s[k]) \in Nat
  BY <1>0, BlockIs
<1>5. ASSUME NEW k \in 1 .. n + 1, NEW l \in 1 .. n + 1, k # l
      PROVE  Avoids(t[k], t[l])
  <2>1. CASE Origin(i, k) # Origin(i, l)
    <3> DEFINE u == Origin(i, k)
               v == Origin(i, l)
    <3>1. u \in 1 .. n /\ v \in 1 .. n /\ u # v
      BY <1>2, <2>1
    <3>2. End(s[u]) <= s[v].addr \/ End(s[v]) <= s[u].addr
      BY <3>1 DEF Laid, Avoids
    <3>3. /\ s[u].addr <= t[k].addr /\ End(t[k]) <= End(s[u])
          /\ s[v].addr <= t[l].addr /\ End(t[l]) <= End(s[v])
      BY <1>2
    <3> HIDE DEF u, v
    <3>4. /\ s[u].addr \in Nat /\ End(s[u]) \in Nat /\ s[v].addr \in Nat /\ End(s[v]) \in Nat
          /\ t[k].addr \in Nat /\ End(t[k]) \in Nat /\ t[l].addr \in Nat /\ End(t[l]) \in Nat
      BY <1>3, <1>4, <3>1
    <3> QED
      BY <3>2, <3>3, <3>4 DEF Avoids
  <2>2. CASE Origin(i, k) = Origin(i, l)
    <3>1. (k = i /\ l = i + 1) \/ (k = i + 1 /\ l = i)
      BY <1>0, <1>5, <2>2 DEF Origin
    <3>2. End(t[i]) <= t[i + 1].addr
      <4>1. i \in 1 .. n + 1 /\ i + 1 \in 1 .. n + 1
        BY <1>0
      <4> QED
        BY <1>3, <4>1 DEF SplitAt
    <3> QED
      BY <3>1, <3>2 DEF Avoids
  <2> QED
    BY <2>1, <2>2
<1>6. ASSUME NEW k \in 1 .. n + 1
      PROVE  HEAP_START <= t[k].addr /\ End(t[k]) <= top
  <2> DEFINE u == Origin(i, k)
  <2>1. u \in 1 .. n /\ s[u].addr <= t[k].addr /\ End(t[k]) <= End(s[u])
    BY <1>2
  <2>2. HEAP_START <= s[u].addr /\ End(s[u]) <= top
    BY <2>1 DEF Laid
  <2> HIDE DEF u
  <2>3. /\ s[u].addr \in Nat /\ End(s[u]) \in Nat /\ t[k].addr \in Nat /\ End(t[k]) \in Nat
        /\ HEAP_START \in Nat
    BY <1>3, <1>4, <2>1, HeapConstants
  <2> QED
    BY <2>1, <2>2, <2>3
<1>7. ASSUME NEW a \in HEAP_START .. top - 1
      PROVE  \E k \in 1 .. n + 1 : t[k].addr <= a /\ a < End(t[k])
  <2>1. PICK j \in 1 .. n : s[j].addr <= a /\ a < End(s[j])
    BY DEF Laid
  <2>2. CASE j < i
    BY <1>0, <2>1, <2>2 DEF SplitAt
  <2>3. CASE j > i
    <3>1. t[j + 1] = s[j] /\ j + 1 \in 1 .. n + 1
      BY <1>0, <2>3 DEF SplitAt
    <3> QED
      BY <2>1, <3>1
  <2>4. CASE j = i
    <3>1. /\ t[i].addr = s[i].addr /\ End(t[i]) = t[i + 1].addr /\ End(t[i + 1]) = End(s[i])
          /\ i \in 1 .. n + 1 /\ i + 1 \in 1 .. n + 1
      BY <1>0 DEF SplitAt
    <3>2. End(t[i]) \in Nat /\ a \in Int
      BY <1>3, <3>1, HeapConstants
    <3>3. CASE a < End(t[i])
      BY <2>1, <2>4, <3>1, <3>3
    <3>4. CASE End(t[i]) <= a
      BY <2>1, <2>4, <3>1, <3>4
    <3> QED
      BY <3>2, <3>3, <3>4
  <2> QED
    BY <1>0, <2>2, <2>3, <2>4
<1>8. ASSUME NEW k \in 1 .. n + 1
      PROVE  PageEdge(t[k].addr) \/ (k > 1 /\ End(t[k - 1]) = t[k].addr)
  <2>e. \A j \in 1 .. n : PageEdge(s[j].addr) \/ (j > 1 /\ End(s[j - 1]) = s[j].addr)
    BY DEF Laid
  <2>1. CASE k < i
    <3>1. k \in 1 .. n /\ t[k] = s[k]
      BY <1>0, <2>1 DEF SplitAt
    <3>2. k > 1 => k - 1 \in 1 .. n /\ k - 1 < i
      BY <1>0, <2>1
    <3>3. k > 1 => t[k - 1] = s[k - 1]
      BY <3>2 DEF SplitAt
    <3> QED
      BY <2>e, <3>1, <3>3
  <2>2. CASE k = i
    <3>1. t[i].addr = s[i].addr
      BY DEF SplitAt
    <3>2. i > 1 => i - 1 \in 1 .. n /\ i - 1 < i
      BY <1>0
    <3>3. i > 1 => t[i - 1] = s[i - 1]
      BY <3>2 DEF SplitAt
    <3> QED
      BY <2>2, <2>e, <3>1, <3>3
  <2>3. CASE k = i + 1
    <3>1. End(t[i]) = t[i + 1].addr /\ k > 1 /\ k - 1 = i
      BY <2>3 DEF SplitAt
    <3> QED
      BY <2>3, <3>1
  <2>4. CASE k > i + 1
    <3> DEFINE j == k - 1
    <3>1. j \in 1 .. n /\ j > i /\ j + 1 = k /\ j > 1 /\ k > 1
      BY <1>0, <2>4
    <3>2. t[k] = s[j]
      BY <3>1 DEF SplitAt
    <3>3. CASE j = i + 1
      <4>1. j - 1 = i /\ k - 1 = i + 1
        BY <3>3
      <4>2. End(t[i + 1]) = End(s[i])
        BY DEF SplitAt
      <4> QED
        BY <2>e, <3>1, <3>2, <4>1, <4>2
    <3>4. CASE j > i + 1
      <4>1. j - 1 \in 1 .. n /\ j - 1 > i /\ (j - 1) + 1 = k - 1
        BY <1>0, <3>1, <3>4
      <4>2. t[k - 1] = s[j - 1]
        BY <4>1 DEF SplitAt
      <4> QED
        BY <2>e, <3>1, <3>2, <4>2
    <3> QED
      BY <1>0, <3>1, <3>3, <3>4
  <2> QED
    BY <1>0, <2>1, <2>2, <2>3, <2>4
<1>9. ASSUME NEW k \in 1 .. n + 1
      PROVE  PageEdge(End(t[k])) \/ (k < n + 1 /\ End(t[k]) = t[k + 1].addr)
  <2>e. \A j \in 1 .. n : PageEdge(End(s[j])) \/ (j < n /\ End(s[j]) = s[j + 1].addr)
    BY DEF Laid
  <2>1. CASE k < i
    <3>1. k \in 1 .. n /\ t[k] = s[k] /\ k < n /\ k < n + 1
      BY <1>0, <2>1 DEF SplitAt
    <3>2. t[k + 1].addr = s[k + 1].addr
      <4>1. CASE k + 1 = i
        BY <4>1 DEF SplitAt
      <4>2. CASE k + 1 # i
        <5>1. k + 1 \in 1 .. n /\ k + 1 < i
          BY <1>0, <2>1, <4>2
        <5> QED
          BY <5>1 DEF SplitAt
      <4> QED
        BY <4>1, <4>2
    <3> QED
      BY <2>e, <3>1, <3>2
  <2>2. CASE k = i
    <3>1. i < n + 1
      BY <1>0
    <3> QED
      BY <2>2, <3>1 DEF SplitAt
  <2>3. CASE k > i
    <3> DEFINE j == k - 1
    <3>1. j \in 1 .. n /\ j >= i /\ j + 1 = k /\ (j < n => k < n + 1)
      BY <1>0, <2>3
    <3>2. End(t[k]) = End(s[j])
      <4>1. CASE j = i
        BY <3>1, <4>1 DEF SplitAt
      <4>2. CASE j > i
        BY <3>1, <4>2 DEF SplitAt
      <4> QED
        BY <1>0, <3>1, <4>1, <4>2
    <3>3. j < n => t[k + 1] = s[j + 1]
      <4> SUFFICES ASSUME j < n PROVE t[k + 1] = s[j + 1]
        OBVIOUS
      <4>1. j + 1 \in 1 .. n /\ j + 1 > i /\ (j + 1) + 1 = k + 1
        BY <1>0, <3>1
      <4> QED
        BY <4>1 DEF SplitAt
    <3> QED
      BY <2>e, <3>1, <3>2, <3>3
  <2> QED
    BY <1>0, <2>1, <2>2, <2>3
<1>10. n + 1 \in Nat
  BY <1>0
<1> QED
  BY <1>1, <1>5, <1>6, <1>7, <1>8, <1>9, <1>10 DEF Laid

\* A growth of the heap, put in front of the list.
LEMMA PrependLaid ==
    ASSUME NEW s, NEW t, NEW n, NEW top \in Nat, Laid(s, n, top), HEAP_START <= top,
           PageEdge(top), NEW end \in Nat, PageEdge(end), NEW b \in BlockRec,
           b.addr = top, End(b) = end,
           t[1] = b, \A k \in 1 .. n : t[k + 1] = s[k]
    PROVE  Laid(t, n + 1, end)
<1> HIDE DEF End, PageEdge
<1>0. n \in Nat /\ \A k \in 1 .. n : s[k] \in BlockRec
  BY DEF Laid
<1>1. \A k \in 1 .. n + 1 : k = 1 \/ (k - 1 \in 1 .. n /\ t[k] = s[k - 1] /\ k > 1)
  <2>1. ASSUME NEW k \in 1 .. n + 1, k # 1 PROVE k - 1 \in 1 .. n /\ (k - 1) + 1 = k
    BY <1>0, <2>1
  <2> QED
    BY <2>1
<1>2. \A k \in 1 .. n + 1 : t[k] \in BlockRec
  BY <1>0, <1>1
<1>3. \A k \in 1 .. n : s[k].addr \in Nat /\ End(s[k]) \in Nat /\ End(s[k]) <= top
                        /\ HEAP_START <= s[k].addr
  BY <1>0, BlockIs DEF Laid
<1>4. top < end /\ HEAP_START \in Nat
  BY BlockIs, HeapConstants
<1>5. ASSUME NEW k \in 1 .. n + 1, NEW l \in 1 .. n + 1, k # l
      PROVE  Avoids(t[k], t[l])
  <2>1. CASE k = 1
    <3>1. l - 1 \in 1 .. n /\ t[l] = s[l - 1]
      BY <1>1, <1>5, <2>1
    <3> QED
      BY <1>3, <2>1, <3>1 DEF Avoids
  <2>2. CASE l = 1
    <3>1. k - 1 \in 1 .. n /\ t[k] = s[k - 1]
      BY <1>1, <1>5, <2>2
    <3> QED
      BY <1>3, <2>2, <3>1 DEF Avoids
  <2>3. CASE k # 1 /\ l # 1
    <3>1. /\ k - 1 \in 1 .. n /\ t[k] = s[k - 1]
          /\ l - 1 \in 1 .. n /\ t[l] = s[l - 1]
      BY <1>1, <2>3
    <3>2. k - 1 # l - 1
      BY <1>0, <1>5
    <3> QED
      BY <3>1, <3>2 DEF Laid
  <2> QED
    BY <2>1, <2>2, <2>3
<1>6. ASSUME NEW k \in 1 .. n + 1 PROVE HEAP_START <= t[k].addr /\ End(t[k]) <= end
  <2>1. CASE k = 1
    BY <1>4, <2>1
  <2>2. CASE k # 1
    <3>1. k - 1 \in 1 .. n /\ t[k] = s[k - 1]
      BY <1>1, <2>2
    <3> QED
      BY <1>3, <1>4, <3>1
  <2> QED
    BY <2>1, <2>2
<1>7. ASSUME NEW a \in HEAP_START .. end - 1
      PROVE  \E k \in 1 .. n + 1 : t[k].addr <= a /\ a < End(t[k])
  <2>1. CASE a < top
    <3>1. a \in HEAP_START .. top - 1
      BY <1>4, <2>1
    <3>2. PICK j \in 1 .. n : s[j].addr <= a /\ a < End(s[j])
      BY <3>1 DEF Laid
    <3>3. j + 1 \in 1 .. n + 1 /\ t[j + 1] = s[j]
      BY <1>0
    <3> QED
      BY <3>2, <3>3
  <2>2. CASE top <= a
    <3>1. 1 \in 1 .. n + 1 /\ a < end
      BY <1>0, <1>4
    <3> QED
      BY <2>2, <3>1
  <2> QED
    BY <1>4, <2>1, <2>2
<1>8. ASSUME NEW k \in 1 .. n + 1
      PROVE  /\ PageEdge(t[k].addr) \/ (k > 1 /\ End(t[k - 1]) = t[k].addr)
             /\ PageEdge(End(t[k])) \/ (k < n + 1 /\ End(t[k]) = t[k + 1].addr)
  <2>1. CASE k = 1
    BY <2>1
  <2>2. CASE k # 1
    <3> DEFINE j == k - 1
    <3>1. j \in 1 .. n /\ t[k] = s[j] /\ k > 1 /\ j + 1 = k
      BY <1>0, <1>1, <2>2
    <3>2. j > 1 => j - 1 \in 1 .. n /\ (j - 1) + 1 = k - 1
      BY <1>0, <3>1
    <3>3. j < n => j + 1 \in 1 .. n /\ k < n + 1 /\ (j + 1) + 1 = k + 1
      BY <1>0, <3>1
    <3>4. j > 1 => t[k - 1] = s[j - 1]
      BY <3>2
    <3>5. j < n => t[k + 1] = s[j + 1]
      BY <3>3
    <3>6. /\ PageEdge(s[j].addr) \/ (j > 1 /\ End(s[j - 1]) = s[j].addr)
          /\ PageEdge(End(s[j])) \/ (j < n /\ End(s[j]) = s[j + 1].addr)
      BY <3>1 DEF Laid
    <3> HIDE DEF j
    <3> QED
      BY <3>1, <3>3, <3>4, <3>5, <3>6
  <2> QED
    BY <2>1, <2>2
<1>9. n + 1 \in Nat
  BY <1>0
<1> QED
  BY <1>2, <1>5, <1>6, <1>7, <1>8, <1>9 DEF Laid

-----------------------------------------------------------------------------
(* Coalescing.                                                             *)

\* d is the list of m blocks the loop of kfree has made of the first n of s.
Folded(s, n, d, m) ==
    /\ n \in Nat /\ m \in Nat
    /\ \A k \in 1 .. m : d[k] \in BlockRec
    /\ n = 0 => m = 0
    /\ n > 0 => m > 0 /\ End(d[m]) = End(s[n]) /\ d[m].used = s[n].used
    /\ \A b \in BlockRec : (\A i \in 1 .. n : Avoids(s[i], b))
                              => \A k \in 1 .. m : Avoids(d[k], b)
    /\ \A k, l \in 1 .. m : k # l => Avoids(d[k], d[l])
    /\ \A k \in 1 .. m : /\ \E i \in 1 .. n : d[k].addr = s[i].addr
                         /\ \E i \in 1 .. n : End(d[k]) = End(s[i])
    /\ \A i \in 1 .. n : \E k \in 1 .. m : d[k].addr <= s[i].addr /\ End(s[i]) <= End(d[k])
    /\ \A b \in BlockRec :
         b.used => ((\E k \in 1 .. m : d[k] = b) <=> (\E i \in 1 .. n : s[i] = b))
    /\ Merged(d, m)
    /\ \A k \in 1 .. m : PageEdge(d[k].addr) \/ (k > 1 /\ End(d[k - 1]) = d[k].addr)
    /\ \A k \in 1 .. m - 1 : PageEdge(End(d[k])) \/ End(d[k]) = d[k + 1].addr

\* What the loop does with the next block when it is not swallowed.
Kept(d, m, b, e) ==
    /\ \A k \in 1 .. m : e[k] = d[k]
    /\ e[m + 1] = b
    /\ m > 0 => d[m].used \/ b.used \/ End(d[m]) # b.addr

\* And when it is.
Swallowed(d, m, b, e) ==
    /\ m > 0
    /\ \A k \in 1 .. m - 1 : e[k] = d[k]
    /\ e[m] \in BlockRec
    /\ e[m].addr = d[m].addr /\ End(e[m]) = End(b)
    /\ ~d[m].used /\ ~b.used /\ ~e[m].used
    /\ End(d[m]) = b.addr

LEMMA FoldKept ==
    ASSUME NEW s, NEW n, NEW h, NEW top, Laid(s, h, top),
           NEW d, NEW m, Folded(s, n, d, m), n < h,
           NEW e, Kept(d, m, s[n + 1], e)
    PROVE  Folded(s, n + 1, e, m + 1)
<1> HIDE DEF End, PageEdge
<1> DEFINE b == s[n + 1]
<1>0. /\ n \in Nat /\ m \in Nat /\ h \in Nat /\ n + 1 \in 1 .. h /\ n + 1 \in Nat /\ m + 1 \in Nat
      /\ \A i \in 1 .. n : i \in 1 .. h /\ i # n + 1
      /\ n = 0 => m = 0
      /\ n > 0 => m > 0 /\ End(d[m]) = End(s[n]) /\ d[m].used = s[n].used
  BY DEF Laid, Folded
<1>1. b \in BlockRec /\ \A k \in 1 .. m : d[k] \in BlockRec
  BY <1>0 DEF Laid, Folded
<1>2. /\ \A k \in 1 .. m : e[k] = d[k]
      /\ e[m + 1] = b
      /\ m > 0 => d[m].used \/ b.used \/ End(d[m]) # b.addr
  BY DEF Kept
<1> HIDE DEF b
<1>3. \A k \in 1 .. m + 1 : k \in 1 .. m \/ k = m + 1
  BY <1>0
<1>4. \A i \in 1 .. n + 1 : i \in 1 .. n \/ i = n + 1
  BY <1>0
<1>5. 1 .. m \subseteq 1 .. m + 1 /\ 1 .. n \subseteq 1 .. n + 1
      /\ m + 1 \in 1 .. m + 1 /\ n + 1 \in 1 .. n + 1
  BY <1>0
<1>b. s[n + 1] = b
  BY DEF b
<1>6. \A k \in 1 .. m + 1 : e[k] \in BlockRec
  BY <1>1, <1>2, <1>3
<1>7. n + 1 > 0 /\ m + 1 > 0 /\ End(e[m + 1]) = End(s[n + 1]) /\ e[m + 1].used = s[n + 1].used
      /\ (n + 1 = 0 => m + 1 = 0)
  BY <1>0, <1>2, <1>b
<1>8. ASSUME NEW z \in BlockRec, \A i \in 1 .. n + 1 : Avoids(s[i], z),
             NEW k \in 1 .. m + 1
      PROVE  Avoids(e[k], z)
  <2>1. \A i \in 1 .. n : Avoids(s[i], z)
    BY <1>5, <1>8
  <2>2. \A j \in 1 .. m : Avoids(d[j], z)
    BY <2>1 DEF Folded
  <2>3. Avoids(b, z)
    BY <1>5, <1>8, <1>b
  <2> QED
    BY <1>2, <1>3, <2>2, <2>3
<1>9. \A k \in 1 .. m : Avoids(d[k], b)
  <2>1. \A i \in 1 .. n : Avoids(s[i], b)
    BY <1>0, <1>b DEF Laid
  <2> QED
    BY <1>1, <2>1 DEF Folded
<1>10. ASSUME NEW k \in 1 .. m + 1, NEW l \in 1 .. m + 1, k # l
       PROVE  Avoids(e[k], e[l])
  <2>1. \A i, j \in 1 .. m : i # j => Avoids(d[i], d[j])
    BY DEF Folded
  <2>2. \A i \in 1 .. m : Avoids(b, d[i])
    BY <1>9 DEF Avoids
  <2> QED
    BY <1>2, <1>3, <1>9, <1>10, <2>1, <2>2
<1>11. ASSUME NEW k \in 1 .. m + 1
       PROVE  /\ \E i \in 1 .. n + 1 : e[k].addr = s[i].addr
              /\ \E i \in 1 .. n + 1 : End(e[k]) = End(s[i])
  <2>1. CASE k = m + 1
    BY <1>2, <1>5, <1>b, <2>1
  <2>2. CASE k \in 1 .. m
    <3>1. /\ \E i \in 1 .. n : d[k].addr = s[i].addr
          /\ \E i \in 1 .. n : End(d[k]) = End(s[i])
      BY <2>2 DEF Folded
    <3> QED
      BY <1>2, <1>5, <2>2, <3>1
  <2> QED
    BY <1>3, <2>1, <2>2
<1>12. ASSUME NEW i \in 1 .. n + 1
       PROVE  \E k \in 1 .. m + 1 : e[k].addr <= s[i].addr /\ End(s[i]) <= End(e[k])
  <2>1. CASE i = n + 1
    <3>1. b.addr <= b.addr /\ End(b) <= End(b)
      BY <1>1, BlockIs
    <3> QED
      BY <1>2, <1>5, <1>b, <2>1, <3>1
  <2>2. CASE i \in 1 .. n
    <3>1. PICK k \in 1 .. m : d[k].addr <= s[i].addr /\ End(s[i]) <= End(d[k])
      BY <2>2 DEF Folded
    <3> QED
      BY <1>2, <1>5, <3>1
  <2> QED
    BY <1>4, <2>1, <2>2
<1>13. ASSUME NEW z \in BlockRec, z.used
       PROVE  (\E k \in 1 .. m + 1 : e[k] = z) <=> (\E i \in 1 .. n + 1 : s[i] = z)
  <2>1. (\E k \in 1 .. m : d[k] = z) <=> (\E i \in 1 .. n : s[i] = z)
    BY <1>13 DEF Folded
  <2> QED
    BY <1>2, <1>3, <1>4, <1>5, <1>b, <2>1
<1>14. Merged(e, m + 1)
  <2> SUFFICES ASSUME NEW k \in 1 .. m, End(e[k]) = e[k + 1].addr
               PROVE  e[k].used \/ e[k + 1].used
    BY <1>0 DEF Merged
  <2>1. CASE k = m
    BY <1>2, <2>1
  <2>2. CASE k # m
    <3>1. k \in 1 .. m - 1 /\ k + 1 \in 1 .. m
      BY <1>0, <2>2
    <3>2. End(d[k]) = d[k + 1].addr => d[k].used \/ d[k + 1].used
      BY <3>1 DEF Folded, Merged
    <3> QED
      BY <1>2, <3>1, <3>2
  <2> QED
    BY <2>1, <2>2
<1>15. ASSUME NEW k \in 1 .. m + 1
       PROVE  PageEdge(e[k].addr) \/ (k > 1 /\ End(e[k - 1]) = e[k].addr)
  <2>1. CASE k = m + 1
    <3>1. PageEdge(b.addr) \/ (n + 1 > 1 /\ End(s[n]) = b.addr)
      <4>1. PageEdge(b.addr) \/ (n + 1 > 1 /\ End(s[(n + 1) - 1]) = b.addr)
        BY <1>0, <1>b DEF Laid
      <4>2. (n + 1) - 1 = n
        BY <1>0
      <4> QED
        BY <4>1, <4>2
    <3>2. CASE PageEdge(b.addr)
      BY <1>2, <2>1, <3>2
    <3>3. CASE n + 1 > 1 /\ End(s[n]) = b.addr
      <4>1. m \in 1 .. m /\ End(d[m]) = b.addr /\ k > 1 /\ k - 1 = m
        BY <1>0, <2>1, <3>3
      <4> QED
        BY <1>2, <2>1, <4>1
    <3> QED
      BY <3>1, <3>2, <3>3
  <2>2. CASE k \in 1 .. m
    <3>1. PageEdge(d[k].addr) \/ (k > 1 /\ End(d[k - 1]) = d[k].addr)
      BY <2>2 DEF Folded
    <3>2. k > 1 => k - 1 \in 1 .. m
      BY <1>0, <2>2
    <3> QED
      BY <1>2, <2>2, <3>1, <3>2
  <2> QED
    BY <1>3, <2>1, <2>2
<1>16. ASSUME NEW k \in 1 .. m
       PROVE  PageEdge(End(e[k])) \/ End(e[k]) = e[k + 1].addr
  <2>1. CASE k = m
    <3>1. n > 0 /\ n \in 1 .. h /\ n < h
      BY <1>0, <2>1
    <3>2. PageEdge(End(s[n])) \/ End(s[n]) = s[n + 1].addr
      BY <3>1 DEF Laid
    <3> QED
      BY <1>0, <1>2, <1>b, <2>1, <3>1, <3>2
  <2>2. CASE k # m
    <3>1. k \in 1 .. m - 1 /\ k + 1 \in 1 .. m
      BY <1>0, <2>2
    <3>2. PageEdge(End(d[k])) \/ End(d[k]) = d[k + 1].addr
      BY <3>1 DEF Folded
    <3> QED
      BY <1>2, <3>1, <3>2
  <2> QED
    BY <2>1, <2>2
<1>17. 1 .. (m + 1) - 1 = 1 .. m
  BY <1>0
<1> QED
  BY <1>0, <1>6, <1>7, <1>8, <1>10, <1>11, <1>12, <1>13, <1>14, <1>15, <1>16, <1>17
  DEF Folded

LEMMA FoldSwallowed ==
    ASSUME NEW s, NEW n, NEW h, NEW top, Laid(s, h, top),
           NEW d, NEW m, Folded(s, n, d, m), n < h,
           NEW e, Swallowed(d, m, s[n + 1], e)
    PROVE  Folded(s, n + 1, e, m)
<1> HIDE DEF End, PageEdge
<1> DEFINE b == s[n + 1]
<1>0. /\ n \in Nat /\ m \in Nat /\ h \in Nat /\ n + 1 \in 1 .. h /\ n + 1 \in Nat
      /\ \A i \in 1 .. n : i \in 1 .. h /\ i # n + 1
  BY DEF Laid, Folded
<1>1. b \in BlockRec /\ \A k \in 1 .. m : d[k] \in BlockRec
  BY <1>0 DEF Laid, Folded
<1>2. /\ m > 0
      /\ \A k \in 1 .. m - 1 : e[k] = d[k]
      /\ e[m] \in BlockRec
      /\ e[m].addr = d[m].addr /\ End(e[m]) = End(b)
      /\ ~d[m].used /\ ~b.used /\ ~e[m].used
      /\ End(d[m]) = b.addr
  BY DEF Swallowed
<1>b. s[n + 1] = b
  OBVIOUS
<1> HIDE DEF b
<1>3. \A k \in 1 .. m : k \in 1 .. m - 1 \/ k = m
  BY <1>0
<1>4. \A i \in 1 .. n + 1 : i \in 1 .. n \/ i = n + 1
  BY <1>0
<1>5. /\ 1 .. m - 1 \subseteq 1 .. m /\ 1 .. n \subseteq 1 .. n + 1
      /\ m \in 1 .. m /\ n + 1 \in 1 .. n + 1 /\ m \notin 1 .. m - 1
  BY <1>0, <1>2
<1>6. \A k \in 1 .. m : e[k] \in BlockRec
  BY <1>1, <1>2, <1>3, <1>5
<1>7. n + 1 > 0 /\ End(e[m]) = End(s[n + 1]) /\ e[m].used = s[n + 1].used
  <2>1. e[m].used \in BOOLEAN /\ b.used \in BOOLEAN
    BY <1>1, <1>2, BlockIs
  <2> QED
    BY <1>0, <1>2, <1>b, <2>1
<1>m. /\ d[m].addr \in Nat /\ End(d[m]) \in Nat /\ d[m].addr < End(d[m])
      /\ b.addr \in Nat /\ End(b) \in Nat /\ b.addr < End(b)
      /\ e[m].addr \in Nat /\ End(e[m]) \in Nat /\ e[m].addr < End(e[m])
  BY <1>1, <1>2, <1>5, BlockIs
\* Two that touch avoid what each of them avoids.
<1>t. ASSUME NEW z \in BlockRec, Avoids(d[m], z), Avoids(b, z) PROVE Avoids(e[m], z)
  <2>1. z.addr \in Nat /\ End(z) \in Nat /\ z.addr < End(z)
    BY BlockIs
  <2> QED
    BY <1>2, <1>m, <1>t, <2>1 DEF Avoids
<1>8. ASSUME NEW z \in BlockRec, \A i \in 1 .. n + 1 : Avoids(s[i], z),
             NEW k \in 1 .. m
      PROVE  Avoids(e[k], z)
  <2>1. \A i \in 1 .. n : Avoids(s[i], z)
    BY <1>5, <1>8
  <2>2. \A j \in 1 .. m : Avoids(d[j], z)
    BY <2>1 DEF Folded
  <2>3. Avoids(b, z)
    BY <1>5, <1>8, <1>b
  <2> QED
    BY <1>2, <1>3, <1>5, <1>t, <2>2, <2>3
<1>9. \A k \in 1 .. m : Avoids(d[k], b)
  <2>1. \A i \in 1 .. n : Avoids(s[i], b)
    BY <1>0, <1>b DEF Laid
  <2> QED
    BY <1>1, <2>1 DEF Folded
<1>10. ASSUME NEW k \in 1 .. m, NEW l \in 1 .. m, k # l
       PROVE  Avoids(e[k], e[l])
  <2>1. \A i, j \in 1 .. m : i # j => Avoids(d[i], d[j])
    BY DEF Folded
  <2>2. ASSUME NEW i \in 1 .. m - 1 PROVE Avoids(e[m], d[i]) /\ Avoids(d[i], e[m])
    <3>1. Avoids(d[m], d[i]) /\ Avoids(b, d[i]) /\ d[i] \in BlockRec
      <4>1. i \in 1 .. m /\ i # m
        BY <1>5
      <4>2. Avoids(d[i], b)
        BY <1>9, <4>1
      <4> QED
        BY <1>1, <1>5, <2>1, <4>1, <4>2 DEF Avoids
    <3>2. Avoids(e[m], d[i])
      BY <1>t, <3>1
    <3> QED
      BY <3>2 DEF Avoids
  <2> QED
    BY <1>2, <1>3, <1>5, <1>10, <2>1, <2>2
<1>11. ASSUME NEW k \in 1 .. m
       PROVE  /\ \E i \in 1 .. n + 1 : e[k].addr = s[i].addr
              /\ \E i \in 1 .. n + 1 : End(e[k]) = End(s[i])
  <2>1. /\ \E i \in 1 .. n : d[k].addr = s[i].addr
        /\ \E i \in 1 .. n : End(d[k]) = End(s[i])
    BY DEF Folded
  <2>2. CASE k = m
    BY <1>2, <1>5, <1>b, <2>1, <2>2
  <2>3. CASE k \in 1 .. m - 1
    BY <1>2, <1>5, <2>1, <2>3
  <2> QED
    BY <1>3, <2>2, <2>3
<1>12. ASSUME NEW i \in 1 .. n + 1
       PROVE  \E k \in 1 .. m : e[k].addr <= s[i].addr /\ End(s[i]) <= End(e[k])
  <2>1. CASE i = n + 1
    <3>1. e[m].addr <= b.addr /\ End(b) <= End(e[m])
      BY <1>2, <1>m
    <3> QED
      BY <1>5, <1>b, <2>1, <3>1
  <2>2. CASE i \in 1 .. n
    <3>1. PICK k \in 1 .. m : d[k].addr <= s[i].addr /\ End(s[i]) <= End(d[k])
      BY <2>2 DEF Folded
    <3>2. CASE k = m
      <4>1. End(s[i]) \in Nat
        BY <1>0, <2>2, BlockIs DEF Laid
      <4>2. End(s[i]) <= End(e[m])
        BY <1>2, <1>m, <3>1, <3>2, <4>1
      <4> QED
        BY <1>2, <1>5, <3>1, <3>2, <4>2
    <3>3. CASE k \in 1 .. m - 1
      BY <1>2, <1>5, <3>1, <3>3
    <3> QED
      BY <1>3, <3>2, <3>3
  <2> QED
    BY <1>4, <2>1, <2>2
<1>13. ASSUME NEW z \in BlockRec, z.used
       PROVE  (\E k \in 1 .. m : e[k] = z) <=> (\E i \in 1 .. n + 1 : s[i] = z)
  <2>1. (\E k \in 1 .. m : d[k] = z) <=> (\E i \in 1 .. n : s[i] = z)
    BY <1>13 DEF Folded
  <2>2. d[m] # z /\ e[m] # z /\ b # z
    BY <1>2, <1>13
  <2>3. (\E k \in 1 .. m : e[k] = z) <=> (\E k \in 1 .. m - 1 : e[k] = z)
    BY <1>3, <1>5, <2>2
  <2>4. (\E k \in 1 .. m : d[k] = z) <=> (\E k \in 1 .. m - 1 : d[k] = z)
    BY <1>3, <1>5, <2>2
  <2>5. (\E k \in 1 .. m - 1 : e[k] = z) <=> (\E k \in 1 .. m - 1 : d[k] = z)
    BY <1>2
  <2>6. (\E i \in 1 .. n + 1 : s[i] = z) <=> (\E i \in 1 .. n : s[i] = z)
    BY <1>4, <1>5, <1>b, <2>2
  <2> QED
    BY <2>1, <2>3, <2>4, <2>5, <2>6
<1>14. Merged(e, m)
  <2> SUFFICES ASSUME NEW k \in 1 .. m - 1, End(e[k]) = e[k + 1].addr
               PROVE  e[k].used \/ e[k + 1].used
    BY DEF Merged
  <2>1. End(d[k]) = d[k + 1].addr => d[k].used \/ d[k + 1].used
    BY DEF Folded, Merged
  <2>2. k + 1 = m \/ k + 1 \in 1 .. m - 1
    BY <1>0
  <2> QED
    BY <1>2, <2>1, <2>2
<1>15. ASSUME NEW k \in 1 .. m
       PROVE  PageEdge(e[k].addr) \/ (k > 1 /\ End(e[k - 1]) = e[k].addr)
  <2>1. PageEdge(d[k].addr) \/ (k > 1 /\ End(d[k - 1]) = d[k].addr)
    BY DEF Folded
  <2>2. k > 1 => k - 1 \in 1 .. m - 1
    BY <1>0
  <2>3. e[k].addr = d[k].addr
    BY <1>2, <1>3
  <2> QED
    BY <1>2, <2>1, <2>2, <2>3
<1>16. ASSUME NEW k \in 1 .. m - 1
       PROVE  PageEdge(End(e[k])) \/ End(e[k]) = e[k + 1].addr
  <2>1. PageEdge(End(d[k])) \/ End(d[k]) = d[k + 1].addr
    BY DEF Folded
  <2>2. k + 1 = m \/ k + 1 \in 1 .. m - 1
    BY <1>0
  <2>3. e[k + 1].addr = d[k + 1].addr /\ e[k] = d[k]
    BY <1>2, <2>2
  <2> QED
    BY <2>1, <2>3
<1>17. /\ n + 1 \in Nat /\ m \in Nat
       /\ n + 1 = 0 => m = 0
       /\ n + 1 > 0 => m > 0 /\ End(e[m]) = End(s[n + 1]) /\ e[m].used = s[n + 1].used
  BY <1>0, <1>2, <1>7
<1> QED
  BY <1>6, <1>8, <1>10, <1>11, <1>12, <1>13, <1>14, <1>15, <1>16, <1>17 DEF Folded

\* At the end of the loop the blocks tile the heap as before.
LEMMA FoldLaid ==
    ASSUME NEW s, NEW n, NEW top, Laid(s, n, top), NEW d, NEW m, Folded(s, n, d, m)
    PROVE  Laid(d, m, top)
<1> HIDE DEF End, PageEdge
<1>0. n \in Nat /\ m \in Nat
  BY DEF Folded
<1>1. ASSUME NEW k \in 1 .. m PROVE HEAP_START <= d[k].addr /\ End(d[k]) <= top
  BY DEF Laid, Folded
<1>2. ASSUME NEW a \in HEAP_START .. top - 1
      PROVE  \E k \in 1 .. m : d[k].addr <= a /\ a < End(d[k])
  <2>1. PICK i \in 1 .. n : s[i].addr <= a /\ a < End(s[i])
    BY DEF Laid
  <2>2. PICK k \in 1 .. m : d[k].addr <= s[i].addr /\ End(s[i]) <= End(d[k])
    BY DEF Folded
  <2>3. s[i] \in BlockRec /\ d[k] \in BlockRec
    BY DEF Laid, Folded
  <2>4. /\ s[i].addr \in Nat /\ End(s[i]) \in Nat /\ d[k].addr \in Nat /\ End(d[k]) \in Nat
        /\ a \in Int
    BY <2>3, BlockIs, HeapConstants
  <2>5. d[k].addr <= a /\ a < End(d[k])
    BY <2>1, <2>2, <2>4
  <2> QED
    BY <2>5
<1>3. ASSUME NEW k \in 1 .. m
      PROVE  PageEdge(End(d[k])) \/ (k < m /\ End(d[k]) = d[k + 1].addr)
  <2>1. CASE k = m
    <3>1. n > 0 /\ n \in 1 .. n /\ End(d[m]) = End(s[n])
      BY <1>0, <2>1 DEF Folded
    <3>2. PageEdge(End(s[n]))
      BY <1>0, <3>1 DEF Laid
    <3> QED
      BY <2>1, <3>1, <3>2
  <2>2. CASE k # m
    <3>1. k \in 1 .. m - 1 /\ k < m
      BY <1>0, <2>2
    <3> QED
      BY <3>1 DEF Folded
  <2> QED
    BY <2>1, <2>2
<1>4. /\ m \in Nat
      /\ \A i \in 1 .. m : d[i] \in BlockRec
      /\ \A i, j \in 1 .. m : i # j => Avoids(d[i], d[j])
      /\ \A k \in 1 .. m : PageEdge(d[k].addr) \/ (k > 1 /\ End(d[k - 1]) = d[k].addr)
  BY DEF Folded
<1> QED
  BY <1>1, <1>2, <1>3, <1>4 DEF Laid

\* Last and Front, by index.
LEMMA SwallowIs ==
    ASSUME NEW d \in Seq(BlockRec), NEW b \in BlockRec, NEW m \in Nat, m = Len(d)
    PROVE  LET e == Swallow(d, b)
           IN  /\ e \in Seq(BlockRec)
               /\ \/ Len(e) = m + 1 /\ Kept(d, m, b, e)
                  \/ Len(e) = m /\ Swallowed(d, m, b, e)
<1> DEFINE e == Swallow(d, b)
           last == d[m]
           joins == d # <<>> /\ ~Last(d).used /\ ~b.used /\ End(Last(d)) = b.addr
           grown == [Last(d) EXCEPT !.size = @ + HDR + b.size]
<1>1. Last(d) = last
  BY DEF Last
<1>2. d # <<>> <=> m > 0
  BY EmptySeq
<1>3. m > 0 => last \in BlockRec
  OBVIOUS
<1>4. CASE ~joins
  <2>1. e = Append(d, b)
    BY <1>4 DEF Swallow
  <2>2. /\ e \in Seq(BlockRec) /\ Len(e) = m + 1 /\ e[m + 1] = b
        /\ \A k \in 1 .. m : e[k] = d[k]
    BY <2>1
  <2>3. m > 0 => last.used \/ b.used \/ End(last) # b.addr
    BY <1>1, <1>2, <1>4
  <2> HIDE DEF e, last
  <2>4. m > 0 => d[m].used \/ b.used \/ End(d[m]) # b.addr
    BY <2>3 DEF last
  <2> QED
    BY <2>2, <2>4 DEF Kept, e
<1>5. CASE joins
  <2>1. e = Append(Front(d), grown)
    BY <1>5 DEF Swallow
  <2>2. m > 0 /\ last \in BlockRec
    BY <1>2, <1>3, <1>5
  <2>3. /\ Front(d) \in Seq(BlockRec) /\ Len(Front(d)) = m - 1
        /\ \A k \in 1 .. m - 1 : Front(d)[k] = d[k]
    BY <2>2 DEF Front
  <2>4. /\ grown \in BlockRec /\ grown.addr = last.addr /\ grown.used = last.used
        /\ grown.size = last.size + HDR + b.size
    <3> DEFINE v == last.size + HDR + b.size
    <3>1. v \in Nat
      BY <2>2, HeapConstants DEF BlockRec
    <3>2. grown = [last EXCEPT !.size = v]
      BY <1>1
    <3> HIDE DEF v, last, grown
    <3>3. grown \in BlockRec /\ grown.addr = last.addr /\ grown.used = last.used /\ grown.size = v
      BY <2>2, <3>1, <3>2 DEF BlockRec
    <3> QED
      BY <3>3 DEF v
  <2>5. End(grown) = End(b)
    <3>1. End(last) = b.addr
      BY <1>1, <1>5
    <3> HIDE DEF grown, last
    <3>2. last.addr \in Nat /\ last.size \in Nat /\ b.size \in Nat /\ HDR \in Nat
      BY <2>2, HeapConstants DEF BlockRec
    <3> QED
      BY <2>4, <3>1, <3>2 DEF End
  <2> HIDE DEF grown
  <2>6. /\ e \in Seq(BlockRec) /\ Len(e) = m /\ e[m] = grown
        /\ \A k \in 1 .. m - 1 : e[k] = d[k]
    <3> DEFINE f == Front(d)
               j == m - 1
    <3>1. f \in Seq(BlockRec) /\ Len(f) = j /\ j \in Nat /\ m = j + 1
      BY <2>2, <2>3
    <3>2. \A k \in 1 .. j : f[k] = d[k]
      BY <2>3
    <3>3. e = Append(f, grown)
      BY <2>1
    <3> HIDE DEF f, j, e
    <3>4. e \in Seq(BlockRec) /\ Len(e) = j + 1 /\ e[j + 1] = grown
      BY <2>4, <3>1, <3>3
    <3>5. \A k \in 1 .. j : e[k] = f[k]
      BY <2>4, <3>1, <3>3
    <3> QED
      BY <3>1, <3>2, <3>4, <3>5 DEF j
  <2>7. ~last.used /\ ~b.used /\ End(last) = b.addr
    BY <1>1, <1>5
  <2> HIDE DEF e
  <2> QED
    BY <2>2, <2>4, <2>5, <2>6, <2>7 DEF Swallowed, e
<1> QED
  BY <1>4, <1>5

\* What coalescing makes of the blocks: the loop, from its start to its end.
LEMMA CoalesceIs ==
    ASSUME NEW s \in Seq(BlockRec), NEW h \in Nat, h = Len(s), NEW top, Laid(s, h, top)
    PROVE  LET d == Coalesce(s)
           IN  d \in Seq(BlockRec) /\ Folded(s, h, d, Len(d))
<1> DEFINE S == Seq(BlockRec)
           g == [x \in S \X Nat |-> IF x[2] \in 1 .. Len(s) THEN Swallow(x[1], s[x[2]])
                                    ELSE <<>>]
           W == CHOOSE done : done = [n \in Nat |->
                  IF n \in 1 .. Len(s) THEN Swallow(done[n - 1], s[n]) ELSE <<>>]
<1>1. Coalesce(s) = W[Len(s)]
  BY DEF Coalesce
<1>2. \A d \in S, b \in BlockRec : Swallow(d, b) \in S
  BY SwallowIs
<1>3. g \in [S \X Nat -> S]
  <2>1. ASSUME NEW x \in S \X Nat
        PROVE  (IF x[2] \in 1 .. Len(s) THEN Swallow(x[1], s[x[2]]) ELSE <<>>) \in S
    <3>1. x[2] \in 1 .. Len(s) => s[x[2]] \in BlockRec
      OBVIOUS
    <3>2. x[1] \in S
      OBVIOUS
    <3>3. <<>> \in S
      OBVIOUS
    <3> HIDE DEF S
    <3> QED
      BY <1>2, <3>1, <3>2, <3>3
  <2> HIDE DEF S
  <2> QED
    BY <2>1
<1>4. PICK f : Recurs(f, S, <<>>, g)
  <2>1. <<>> \in S
    OBVIOUS
  <2> HIDE DEF g, S, W
  <2> QED
    BY <1>3, <2>1, Recursion
<1>5. \A n \in Nat : f[n] = IF n \in 1 .. Len(s) THEN Swallow(f[n - 1], s[n]) ELSE <<>>
  <2> SUFFICES ASSUME NEW n \in Nat
               PROVE  f[n] = IF n \in 1 .. Len(s) THEN Swallow(f[n - 1], s[n]) ELSE <<>>
    OBVIOUS
  <2>1. CASE n = 0
    <3>1. f[0] = <<>> /\ 0 \notin 1 .. Len(s)
      BY <1>4 DEF Recurs
    <3> QED
      BY <2>1, <3>1
  <2>2. CASE n # 0
    <3>1. n - 1 \in Nat
      BY <2>2
    <3>2. <<f[n - 1], n>> \in S \X Nat
      BY <1>4, <3>1 DEF Recurs
    <3>3. f[n] = g[<<f[n - 1], n>>]
      BY <1>4, <2>2 DEF Recurs
    <3> QED
      BY <3>2, <3>3
  <2> QED
    BY <2>1, <2>2
<1>6. f = [n \in Nat |-> IF n \in 1 .. Len(s) THEN Swallow(f[n - 1], s[n]) ELSE <<>>]
  BY <1>4, <1>5 DEF Recurs
<1>7. W = [n \in Nat |-> IF n \in 1 .. Len(s) THEN Swallow(W[n - 1], s[n]) ELSE <<>>]
  BY <1>6, Zenon
<1> HIDE DEF W, S, g
<1>8. \A n \in 0 .. h : W[n] \in S /\ Folded(s, n, W[n], Len(W[n]))
  <2> DEFINE Good(n) == W[n] \in S /\ Folded(s, n, W[n], Len(W[n]))
             Bad == {n \in Nat : n <= h /\ ~Good(n)}
  <2>1. ASSUME Bad # {} PROVE FALSE
    <3>1. PICK k \in Bad : \A j \in Bad : k <= j
      <4>1. Bad \in SUBSET Nat
        OBVIOUS
      <4> HIDE DEF Bad
      <4> QED
        BY <2>1, <4>1, Least
    <3>2. k \in Nat /\ k <= h /\ ~Good(k)
      BY <3>1
    <3>3. Good(0)
      <4>1. W[0] = <<>>
        <5>1. 0 \notin 1 .. Len(s)
          OBVIOUS
        <5> QED
          BY <1>7, <5>1
      <4>2. W[0] \in S /\ Len(W[0]) = 0
        BY <4>1 DEF S
      <4>3. Folded(s, 0, W[0], 0)
        BY DEF Folded, Merged
      <4> QED
        BY <4>2, <4>3
    <3>4. k # 0
      BY <3>2, <3>3
    <3> DEFINE n == k - 1
    <3>5. n \in Nat /\ n < h /\ k = n + 1 /\ ~(k <= n) /\ n <= h /\ k \in 1 .. h
      BY <3>2, <3>4
    <3>6. Good(n)
      <4>1. n \notin Bad
        BY <3>1, <3>5
      <4> QED
        BY <3>5, <4>1
    <3>7. W[k] = Swallow(W[n], s[k])
      BY <1>7, <3>2, <3>5
    <3> DEFINE d == W[n]
               e == W[k]
               m == Len(d)
    <3>8. s[k] \in BlockRec /\ d \in Seq(BlockRec) /\ m \in Nat
      BY <3>5, <3>6 DEF S
    <3>9. Folded(s, n, d, m)
      BY <3>6
    <3> HIDE DEF d, e, m, n, Good
    <3>10. e = Swallow(d, s[k]) /\ s[k] = s[n + 1] /\ m = Len(d)
      BY <3>5, <3>7 DEF d, e, m
    <3>11. /\ e \in Seq(BlockRec)
           /\ \/ Len(e) = m + 1 /\ Kept(d, m, s[n + 1], e)
              \/ Len(e) = m /\ Swallowed(d, m, s[n + 1], e)
      BY <3>8, <3>10, SwallowIs
    <3>12. Folded(s, k, e, Len(e))
      <4>1. CASE Len(e) = m + 1 /\ Kept(d, m, s[n + 1], e)
        BY <3>5, <3>9, <4>1, FoldKept
      <4>2. CASE Len(e) = m /\ Swallowed(d, m, s[n + 1], e)
        BY <3>5, <3>9, <4>2, FoldSwallowed
      <4> QED
        BY <3>11, <4>1, <4>2
    <3>13. Good(k)
      BY <3>11, <3>12 DEF Good, S, e
    <3> QED
      BY <3>2, <3>13
  <2> QED
    BY <2>1
<1>9. W[h] \in S /\ Folded(s, h, W[h], Len(W[h]))
  BY <1>8
<1> QED
  BY <1>1, <1>9 DEF S

-----------------------------------------------------------------------------
(* Allocating.                                                             *)

LEMMA AlignUp ==
    ASSUME NEW asked \in Nat
    PROVE  Align(asked) \in Nat /\ Align(asked) >= asked
<1> DEFINE q == (asked + ALIGN - 1) \div ALIGN
<1>1. q \in Nat /\ q * ALIGN >= asked
  BY HeapConstants, RoundUp
<1>2. Align(asked) = q * ALIGN
  BY DEF Align
<1> HIDE DEF q
<1>3. q * ALIGN \in Nat
  BY <1>1, HeapConstants
<1> QED
  BY <1>1, <1>2, <1>3

\* What the operations keep of the heap h.
Sound(h) ==
    /\ h \in [list : Seq(BlockRec), top : Nat, supply : Seq(Nat)]
    /\ Laid(h.list, Len(h.list), h.top)
    /\ HEAP_START <= h.top /\ PageEdge(h.top)
    /\ h.top + Len(h.supply) * PMM_PAGE_SIZE <= HEAP_START + WORD

\* The used blocks of a list.
Held(s) == {b \in BlockRec : b.used /\ \E i \in 1 .. Len(s) : s[i] = b}

\* What an allocation returns: memory nobody had, or nothing.
Allocated(h, r, asked) ==
    /\ Sound(r.h)
    /\ Merged(r.h.list, Len(r.h.list))
    /\ \/ r.ptr = 0 /\ r.h.list = h.list
       \/ \E b \in BlockRec : /\ b.used /\ b.size >= asked
                              /\ r.ptr = b.addr + HDR
                              /\ \A c \in Held(h.list) : c.addr # b.addr
                              /\ Held(r.h.list) = Held(h.list) \cup {b}

LEMMA AddrUnique ==
    ASSUME NEW s, NEW n, NEW top, Laid(s, n, top), NEW i \in 1 .. n, NEW j \in 1 .. n,
           s[i].addr = s[j].addr
    PROVE  i = j
<1> HIDE DEF End
<1> SUFFICES ASSUME i # j PROVE FALSE
  OBVIOUS
<1>1. End(s[i]) <= s[j].addr \/ End(s[j]) <= s[i].addr
  BY DEF Laid, Avoids
<1>2. s[i] \in BlockRec /\ s[j] \in BlockRec
  BY DEF Laid
<1>3. /\ s[i].addr \in Nat /\ End(s[i]) \in Nat /\ s[i].addr < End(s[i])
      /\ s[j].addr \in Nat /\ End(s[j]) \in Nat /\ s[j].addr < End(s[j])
  BY <1>2, BlockIs
<1> QED
  BY <1>1, <1>3

\* Replacing a free block by b, used, and perhaps a free one.
LEMMA HeldReplaced ==
    ASSUME NEW s, NEW n, Long(s, BlockRec, n), NEW i \in 1 .. n, ~s[i].used,
           NEW r, NEW m \in {1, 2}, NEW b \in BlockRec, r[1] = b, b.used,
           m = 2 => ~r[2].used,
           NEW t, Replaces(t, s, r, BlockRec, i, m, n)
    PROVE  Held(t) = Held(s) \cup {b}
<1>0. n \in Nat /\ n = Len(s) /\ m \in Nat /\ m > 0
  BY DEF Long
<1>1. Len(t) = n + m - 1
  BY DEF Replaces, Long
<1>2. ASSUME NEW z \in BlockRec, z.used
      PROVE  (\E k \in 1 .. n + m - 1 : t[k] = z) <=> (z = b \/ \E k \in 1 .. n : s[k] = z)
  <2>1. (\E k \in 1 .. m : r[k] = z) <=> z = b
    <3>1. CASE m = 1
      <4>1. 1 .. m = {1}
        BY <3>1
      <4> QED
        BY <4>1
    <3>2. CASE m = 2
      <4>1. 1 .. m = {1, 2} /\ r[2] # z
        BY <1>2, <3>2
      <4> QED
        BY <4>1
    <3> QED
      BY <3>1, <3>2
  <2>2. (\E k \in 1 .. n : k # i /\ s[k] = z) <=> (\E k \in 1 .. n : s[k] = z)
    BY <1>2
  <2>3. (\E k \in 1 .. n + m - 1 : t[k] = z)
            <=> ((\E k \in 1 .. n : k # i /\ s[k] = z) \/ (\E k \in 1 .. m : r[k] = z))
    <3>1. n \in Nat /\ m \in Nat /\ m > 0
      BY <1>0
    <3>2. ItemsAre(t, s, r, i, m, n)
      BY <3>1, ItemsOfReplaced
    <3> QED
      BY <3>2 DEF ItemsAre
  <2> QED
    BY <2>1, <2>2, <2>3
<1>3. Held(t) = {z \in BlockRec : z.used /\ \E k \in 1 .. n + m - 1 : t[k] = z}
  BY <1>1 DEF Held
<1>4. Held(s) = {z \in BlockRec : z.used /\ \E k \in 1 .. n : s[k] = z}
  BY <1>0 DEF Held
<1> QED
  BY <1>2, <1>3, <1>4

LEMMA FirstFitIs ==
    ASSUME NEW h, Sound(h), Merged(h.list, Len(h.list)),
           NEW size \in Nat, NEW asked \in Nat, asked <= size, Fitting(h, size) # {}
    PROVE  Allocated(h, FirstFit(h, size), asked)
<1> HIDE DEF End, PageEdge, Laid, Merged
<1> DEFINE s == h.list
           n == Len(s)
           i == Min(Fitting(h, size))
           blk == s[i]
           r == Carve(blk, size)
           t == SubSeq(s, 1, i - 1) \o r \o SubSeq(s, i + 1, n)
           g == [list |-> t, top |-> h.top, supply |-> h.supply]
<1>1. /\ s \in Seq(BlockRec) /\ n \in Nat /\ Long(s, BlockRec, n) /\ h.top \in Nat
      /\ h = [list |-> s, top |-> h.top, supply |-> h.supply]
  BY DEF Sound, Long
<1>2. i \in 1 .. n /\ ~blk.used /\ blk.size >= size /\ blk \in BlockRec
  <2>1. Fitting(h, size) \in SUBSET Nat
    BY <1>1 DEF Fitting
  <2>2. i \in Fitting(h, size)
    BY <2>1, MinIs
  <2> QED
    BY <1>1, <2>2 DEF Fitting
<1>3. FirstFit(h, size) = [h |-> g, ptr |-> blk.addr + HDR]
  <2>1. [h EXCEPT !.list = t] = g
    <3> HIDE DEF t
    <3> QED
      BY DEF Sound
  <2> QED
    BY <2>1 DEF FirstFit
<1>4. Laid(s, n, h.top) /\ Merged(s, n)
  BY DEF Sound
<1>b. blk.addr \in Nat /\ blk.size \in Nat /\ HDR \in Nat /\ MIN_FRAG \in Nat
  BY <1>2, HeapConstants DEF BlockRec
<1>l. ASSUME NEW z, z \in Held(s) PROVE z.addr # blk.addr
  <2>1. PICK k \in 1 .. n : s[k] = z /\ s[k].used
    BY <1>l DEF Held
  <2> QED
    BY <1>2, <1>4, <2>1, AddrUnique
<1>f. ASSUME NEW b \in BlockRec, b.used, b.size >= asked, b.addr = blk.addr,
             Held(t) = Held(s) \cup {b},
             t \in Seq(BlockRec), Laid(t, Len(t), h.top), Merged(t, Len(t))
      PROVE  Allocated(h, FirstFit(h, size), asked)
  <2>1. Sound(g)
    <3> HIDE DEF t, s
    <3> QED
      BY <1>f DEF Sound
  <2> HIDE DEF t, blk, s, i, n
  <2>2. \E c \in BlockRec : /\ c.used /\ c.size >= asked
                            /\ blk.addr + HDR = c.addr + HDR
                            /\ \A d \in Held(h.list) : d.addr # c.addr
                            /\ Held(t) = Held(h.list) \cup {c}
    BY <1>f, <1>l DEF s
  <2> QED
    BY <1>3, <1>f, <2>1, <2>2 DEF Allocated
<1>5. CASE blk.size >= size + HDR + MIN_FRAG
  <2> DEFINE b == Block(blk.addr, size, TRUE)
             c == Block(blk.addr + HDR + size, blk.size - size - HDR, FALSE)
  <2>1. r = <<b, c>>
    BY <1>5 DEF Carve
  <2>2. /\ b \in BlockRec /\ c \in BlockRec
        /\ b.addr = blk.addr /\ b.size = size /\ b.used /\ ~c.used
        /\ c.addr = blk.addr + HDR + size /\ c.size = blk.size - size - HDR
    <3>1. blk.size - size - HDR \in Nat /\ blk.addr + HDR + size \in Nat
      <4> DEFINE z == blk.size
                 a == blk.addr
      <4>1. z \in Nat /\ a \in Nat /\ z >= size + HDR + MIN_FRAG
        BY <1>5, <1>b
      <4> HIDE DEF z, a, blk
      <4>2. z - size - HDR \in Nat /\ a + HDR + size \in Nat
        BY <1>b, <4>1
      <4> QED
        BY <4>2 DEF z, a
    <3> QED
      BY <1>b, <3>1 DEF Block, BlockRec
  <2>3. End(b) = c.addr /\ End(c) = End(blk)
    <3> HIDE DEF b, c, blk
    <3>1. c.addr + HDR + c.size = blk.addr + HDR + blk.size
      BY <1>b, <2>2
    <3> QED
      BY <2>2, <3>1 DEF End
  <2> HIDE DEF b, c
  <2>4. Long(r, BlockRec, 2) /\ r[1] = b /\ r[2] = c
    BY <2>1, <2>2 DEF Long
  <2> HIDE DEF r, blk, i, n, s
  <2>5. Replaces(t, s, r, BlockRec, i, 2, n)
    BY <1>1, <1>2, <2>4, Replaced
  <2> HIDE DEF t
  <2>6. /\ Long(t, BlockRec, n + 1)
        /\ t[i] = b /\ t[i + 1] = c
        /\ \A k \in 1 .. n : (k < i => t[k] = s[k]) /\ (k > i => t[k + 1] = s[k])
    <3>1. n + 2 - 1 = n + 1 /\ i - 1 + 1 = i /\ i - 1 + 2 = i + 1 /\ 1 \in 1 .. 2 /\ 2 \in 1 .. 2
      BY <1>1, <1>2
    <3>2. Long(t, BlockRec, n + 1) /\ t[i] = r[1] /\ t[i + 1] = r[2]
      BY <2>5, <3>1 DEF Replaces
    <3>3. ASSUME NEW k \in 1 .. n, k < i PROVE t[k] = s[k]
      <4>1. k \in 1 .. i - 1
        BY <1>2, <3>3
      <4> QED
        BY <2>5, <4>1 DEF Replaces
    <3>4. ASSUME NEW k \in 1 .. n, k > i PROVE t[k + 1] = s[k]
      <4>1. k \in i + 1 .. n /\ k + 2 - 1 = k + 1
        BY <1>2, <3>4
      <4> QED
        BY <2>5, <4>1 DEF Replaces
    <3> QED
      BY <2>4, <3>2, <3>3, <3>4
  <2>7. Len(t) = n + 1 /\ t \in Seq(BlockRec) /\ \A k \in 1 .. n + 1 : t[k] \in BlockRec
    BY <2>6 DEF Long
  <2>8. SplitAt(s, t, n, i)
    BY <2>2, <2>3, <2>6, <2>7 DEF SplitAt, blk
  <2>9. Laid(t, n + 1, h.top)
    BY <1>1, <1>2, <1>4, <2>8, SplitLaid
  <2>10. Merged(t, n + 1)
    <3> SUFFICES ASSUME NEW k \in 1 .. n, End(t[k]) = t[k + 1].addr
                 PROVE  t[k].used \/ t[k + 1].used
      BY <1>1 DEF Merged
    <3>1. CASE k + 1 < i
      <4>1. k \in 1 .. n - 1 /\ k + 1 \in 1 .. n /\ k < i
        BY <1>1, <1>2, <3>1
      <4>2. t[k] = s[k] /\ t[k + 1] = s[k + 1]
        BY <2>6, <3>1, <4>1
      <4> QED
        BY <1>4, <4>1, <4>2 DEF Merged
    <3>2. CASE k = i \/ k + 1 = i
      BY <2>2, <2>6, <3>2
    <3>3. CASE k > i
      <4> DEFINE j == k - 1
      <4>1. /\ j \in 1 .. n - 1 /\ j + 1 = k /\ j + 1 \in 1 .. n /\ j + 1 > i
            /\ j \in 1 .. n /\ j >= i
        BY <1>1, <1>2, <3>3
      <4>2. t[k + 1] = s[j + 1]
        BY <2>6, <4>1
      <4>3. End(t[k]) = End(s[j]) /\ (s[j].used => t[k].used)
        <5>1. CASE j = i
          BY <1>2, <2>3, <2>6, <4>1, <5>1 DEF blk
        <5>2. CASE j > i
          BY <2>6, <4>1, <5>2
        <5> QED
          BY <1>2, <4>1, <5>1, <5>2
      <4>4. End(s[j]) = s[j + 1].addr => s[j].used \/ s[j + 1].used
        BY <1>4, <4>1 DEF Merged
      <4> QED
        BY <4>2, <4>3, <4>4
    <3> QED
      BY <1>1, <1>2, <3>1, <3>2, <3>3
  <2>11. Held(t) = Held(s) \cup {b}
    <3>1. Long(s, BlockRec, n) /\ i \in 1 .. n /\ ~s[i].used
      BY <1>1, <1>2 DEF blk
    <3>2. 2 \in {1, 2} /\ b \in BlockRec /\ r[1] = b /\ b.used /\ ~r[2].used
      BY <2>2, <2>4
    <3> QED
      BY <2>5, <3>1, <3>2, HeldReplaced
  <2>12. b.size >= asked /\ b.used /\ b.addr = blk.addr
    BY <2>2
  <2> QED
    BY <1>f, <2>2, <2>7, <2>9, <2>10, <2>11, <2>12
<1>6. CASE ~(blk.size >= size + HDR + MIN_FRAG)
  <2> DEFINE b == [blk EXCEPT !.used = TRUE]
  <2>1. r = <<b>>
    BY <1>6 DEF Carve
  <2>2. /\ b \in BlockRec /\ b.addr = blk.addr /\ b.size = blk.size /\ b.used
        /\ End(b) = End(blk)
    BY <1>2 DEF BlockRec, End
  <2> HIDE DEF b
  <2>4. Long(r, BlockRec, 1) /\ r[1] = b
    BY <2>1, <2>2 DEF Long
  <2> HIDE DEF r, blk, i, n, s
  <2>5. Replaces(t, s, r, BlockRec, i, 1, n)
    BY <1>1, <1>2, <2>4, Replaced
  <2> HIDE DEF t
  <2>6. /\ Long(t, BlockRec, n)
        /\ t[i] = b
        /\ \A k \in 1 .. n : k # i => t[k] = s[k]
    <3>1. n + 1 - 1 = n /\ i - 1 + 1 = i /\ 1 \in 1 .. 1
      BY <1>1, <1>2
    <3>2. Long(t, BlockRec, n) /\ t[i] = r[1]
      BY <2>5, <3>1 DEF Replaces
    <3>3. ASSUME NEW k \in 1 .. n, k # i PROVE t[k] = s[k]
      <4>1. k \in 1 .. i - 1 \/ (k \in i + 1 .. n /\ k + 1 - 1 = k)
        BY <1>2, <3>3
      <4> QED
        BY <2>5, <4>1 DEF Replaces
    <3> QED
      BY <2>4, <3>2, <3>3
  <2>7. Len(t) = n /\ t \in Seq(BlockRec) /\ \A k \in 1 .. n : t[k] \in BlockRec
    BY <2>6 DEF Long
  <2>8. \A k \in 1 .. n : t[k].addr = s[k].addr /\ End(t[k]) = End(s[k]) /\ (s[k].used => t[k].used)
    BY <2>2, <2>6 DEF blk
  <2>9. Laid(t, n, h.top)
    BY <1>4, <2>7, <2>8, SameShape
  <2>10. Merged(t, n)
    <3> SUFFICES ASSUME NEW k \in 1 .. n - 1, End(t[k]) = t[k + 1].addr
                 PROVE  t[k].used \/ t[k + 1].used
      BY DEF Merged
    <3>1. k \in 1 .. n /\ k + 1 \in 1 .. n
      BY <1>1
    <3>2. End(s[k]) = s[k + 1].addr => s[k].used \/ s[k + 1].used
      BY <1>4 DEF Merged
    <3> QED
      BY <2>8, <3>1, <3>2
  <2>11. Held(t) = Held(s) \cup {b}
    BY <1>1, <1>2, <2>2, <2>4, <2>5, HeldReplaced DEF blk
  <2>12. b.size >= asked /\ b.used /\ b.addr = blk.addr
    BY <1>2, <1>b, <2>2
  <2> QED
    BY <1>f, <2>2, <2>7, <2>9, <2>10, <2>11, <2>12
<1> QED
  BY <1>5, <1>6

LEMMA EdgeAfter ==
    ASSUME NEW top \in Nat, PageEdge(top), NEW q \in Nat
    PROVE  PageEdge(top + q * PMM_PAGE_SIZE)
<1>1. PICK k \in Nat : top = HEAP_START + k * PMM_PAGE_SIZE
  BY DEF PageEdge
<1>2. (k + q) * PMM_PAGE_SIZE = k * PMM_PAGE_SIZE + q * PMM_PAGE_SIZE
  BY HeapConstants
<1>3. k * PMM_PAGE_SIZE \in Nat /\ q * PMM_PAGE_SIZE \in Nat /\ k + q \in Nat
  BY HeapConstants
<1>4. top + q * PMM_PAGE_SIZE = HEAP_START + (k + q) * PMM_PAGE_SIZE
  BY <1>1, <1>2, <1>3, HeapConstants
<1> QED
  BY <1>3, <1>4 DEF PageEdge

\* A growth that pmm refuses costs pages and changes nothing else.
LEMMA RefusedIs ==
    ASSUME NEW h, Sound(h), Merged(h.list, Len(h.list)), NEW taken \in Nat, taken > 0,
           NEW asked
    PROVE  Allocated(h,
             [h |-> [h EXCEPT !.supply = SubSeq(h.supply, taken + 1, Len(h.supply))], ptr |-> 0],
             asked)
<1> HIDE DEF End, PageEdge, Laid, Merged
<1> DEFINE n == Len(h.supply)
           left == SubSeq(h.supply, taken + 1, n)
           g == [h EXCEPT !.supply = left]
<1>1. h.supply \in Seq(Nat) /\ n \in Nat /\ Long(h.supply, Nat, n)
  BY DEF Sound, Long
<1>2. left \in Seq(Nat) /\ Len(left) \in Nat /\ Len(left) <= n
  <2>1. CASE taken <= n
    <3> HIDE DEF n
    <3>1. taken + 1 \in Nat /\ 1 <= taken + 1 /\ taken + 1 <= n + 1 /\ n <= n
          /\ n + 1 - (taken + 1) \in Nat /\ n + 1 - (taken + 1) <= n
      BY <1>1, <2>1
    <3>2. Sliced(left, h.supply, Nat, taken + 1, n + 1 - (taken + 1))
      BY <1>1, <3>1, SliceIs
    <3> HIDE DEF left
    <3> QED
      BY <3>1, <3>2 DEF Sliced, Long
  <2>2. CASE taken > n
    <3> HIDE DEF n
    <3>1. n < taken + 1 /\ n \in Int /\ taken + 1 \in Int
      BY <1>1, <2>2
    <3>2. left = <<>>
      BY <3>1, SubSeqEmpty
    <3> HIDE DEF left
    <3> QED
      BY <1>1, <3>2
  <2> QED
    BY <1>1, <2>1, <2>2
<1> HIDE DEF left, n
<1>3. g.list = h.list /\ g.top = h.top /\ g.supply = left
      /\ g \in [list : Seq(BlockRec), top : Nat, supply : Seq(Nat)]
  BY <1>2 DEF Sound
<1>4. h.top + Len(left) * PMM_PAGE_SIZE <= HEAP_START + WORD
  <2>1. h.top + n * PMM_PAGE_SIZE <= HEAP_START + WORD /\ h.top \in Nat
    BY DEF Sound, n
  <2> DEFINE m == Len(left)
  <2>2. m \in Nat /\ m <= n /\ n \in Nat
    BY <1>1, <1>2
  <2> HIDE DEF m
  <2>3. m * PMM_PAGE_SIZE <= n * PMM_PAGE_SIZE /\ m * PMM_PAGE_SIZE \in Nat
        /\ n * PMM_PAGE_SIZE \in Nat
    BY <2>2, HeapConstants, Monotone
  <2>4. h.top + m * PMM_PAGE_SIZE <= HEAP_START + WORD
    <3> DEFINE u == m * PMM_PAGE_SIZE
               v == n * PMM_PAGE_SIZE
    <3>1. u \in Nat /\ v \in Nat /\ u <= v /\ h.top + v <= HEAP_START + WORD
      BY <2>1, <2>3
    <3> HIDE DEF u, v
    <3>2. h.top + u <= HEAP_START + WORD
      BY <2>1, <3>1, HeapConstants
    <3> QED
      BY <3>2 DEF u
  <2> QED
    BY <2>4 DEF m
<1> HIDE DEF g
<1>5. Sound(g)
  BY <1>3, <1>4 DEF Sound
<1>6. Allocated(h, [h |-> g, ptr |-> 0], asked)
  BY <1>3, <1>5 DEF Allocated
<1> QED
  BY <1>6 DEF g, left, n

LEMMA ExpandIs ==
    ASSUME NEW h, Sound(h), Merged(h.list, Len(h.list)),
           NEW size \in Nat, NEW asked \in Nat, asked <= size
    PROVE  Allocated(h, Expand(h, size), asked)
<1> HIDE DEF End, PageEdge, Laid, Merged
<1> DEFINE P == PMM_PAGE_SIZE
           q == (HDR + size + P - 1) \div P
           refused == Refusal(h, q)
           s == h.list
           n == Len(s)
           top == h.top
           m == Len(h.supply)
<1>1. /\ s \in Seq(BlockRec) /\ n \in Nat /\ top \in Nat
      /\ h.supply \in Seq(Nat) /\ m \in Nat /\ Long(h.supply, Nat, m)
      /\ Laid(s, n, top) /\ Merged(s, n)
      /\ HEAP_START <= top /\ PageEdge(top)
      /\ top + m * PMM_PAGE_SIZE <= HEAP_START + WORD
  BY DEF Sound, Long
<1>c. HDR \in Nat /\ HDR > 0 /\ P \in Nat /\ P > 0
  BY HeapConstants
<1>2. q \in Nat /\ q * P >= HDR + size /\ q > 0
  <2>1. HDR + size \in Nat /\ HDR + size > 0
    BY <1>c
  <2> HIDE DEF P
  <2> QED
    BY <1>c, <2>1, RoundUp
<1> HIDE DEF q
<1>3. CASE refused # {}
  <2> DEFINE taken == Min(refused)
  <2>1. taken \in Nat /\ taken > 0
    <3>1. refused \in SUBSET Nat /\ \A i \in refused : i > 0
      BY <1>2 DEF Refusal
    <3> HIDE DEF refused
    <3> QED
      BY <1>3, <3>1, MinIs
  <2>2. Expand(h, size)
          = [h |-> [h EXCEPT !.supply = SubSeq(h.supply, taken + 1, Len(h.supply))], ptr |-> 0]
    BY <1>3 DEF Expand, PagesUp, q
  <2> HIDE DEF taken
  <2> QED
    BY <2>1, <2>2, RefusedIs
<1>4. CASE refused = {}
  <2> DEFINE grown == q * P
             b == Block(top, grown - HDR, TRUE)
             t == <<b>> \o s
             left == SubSeq(h.supply, q + 1, m)
             g == [list |-> t, top |-> top + grown, supply |-> left]
  <2>1. Expand(h, size) = [h |-> g, ptr |-> top + HDR]
    BY <1>4 DEF Expand, PagesUp, q
  <2>2. q <= m
    <3>1. q \in 1 .. q /\ q \notin Refusal(h, q)
      BY <1>2, <1>4
    <3> QED
      BY <1>1, <1>2, <3>1 DEF Refusal
  <2>3. grown \in Nat /\ grown >= HDR + size
    BY <1>2, <1>c
  <2>4. Long(left, Nat, m - q)
    <3> HIDE DEF m
    <3>1. q + 1 \in Nat /\ 1 <= q + 1 /\ q + 1 <= m + 1 /\ m <= m /\ m + 1 - (q + 1) = m - q
      BY <1>1, <1>2, <2>2
    <3>2. Sliced(left, h.supply, Nat, q + 1, m + 1 - (q + 1))
      BY <1>1, <3>1, SliceIs
    <3> QED
      BY <3>1, <3>2 DEF Sliced
  <2>5. top + grown + (m - q) * P <= HEAP_START + WORD
    <3> HIDE DEF m, top
    <3>1. /\ q * P \in Nat /\ m * P \in Nat /\ (m - q) * P = m * P - q * P
      BY <1>1, <1>2, <1>c, <2>2, Monotone
    <3> QED
      BY <1>1, <3>1
  <2>6. PageEdge(top + grown)
    BY <1>1, <1>2, EdgeAfter
  <2> HIDE DEF grown
  <2>7. /\ b \in BlockRec /\ b.used /\ b.addr = top /\ b.size = grown - HDR /\ b.size >= asked
        /\ End(b) = top + grown
    <3> HIDE DEF top
    <3>1. grown - HDR \in Nat /\ grown - HDR >= asked /\ top + HDR + (grown - HDR) = top + grown
      BY <1>1, <1>c, <2>3
    <3> QED
      BY <1>1, <3>1 DEF Block, BlockRec, End
  <2> HIDE DEF b
  <2>8. Joined(t, <<b>>, s, BlockRec, 1, n)
    <3>1. Long(<<b>>, BlockRec, 1) /\ Long(s, BlockRec, n)
      BY <1>1, <2>7 DEF Long
    <3> HIDE DEF s, n
    <3> QED
      BY <3>1, ConcatIs
  <2> HIDE DEF t, s, n
  <2>9. /\ Long(t, BlockRec, n + 1) /\ t[1] = b
        /\ \A k \in 1 .. n : t[k + 1] = s[k]
    <3>1. Long(t, BlockRec, 1 + n) /\ (\A k \in 1 .. 1 : t[k] = <<b>>[k])
          /\ \A k \in 1 .. n : t[1 + k] = s[k]
      BY <2>8 DEF Joined
    <3>2. 1 + n = n + 1 /\ \A k \in 1 .. n : 1 + k = k + 1
      BY <1>1
    <3> QED
      BY <3>1, <3>2
  <2>10. Laid(t, n + 1, top + grown)
    <3>1. top + grown \in Nat
      BY <1>1, <2>3
    <3> HIDE DEF top
    <3> QED
      BY <1>1, <2>6, <2>7, <2>9, <3>1, PrependLaid
  <2>11. Merged(t, n + 1)
    <3> SUFFICES ASSUME NEW k \in 1 .. n, End(t[k]) = t[k + 1].addr
                 PROVE  t[k].used \/ t[k + 1].used
      BY <1>1 DEF Merged
    <3>1. CASE k = 1
      BY <2>7, <2>9, <3>1
    <3>2. CASE k # 1
      <4> DEFINE j == k - 1
      <4>1. j \in 1 .. n - 1 /\ j \in 1 .. n /\ j + 1 = k /\ j + 1 \in 1 .. n
        BY <1>1, <3>2
      <4> HIDE DEF j
      <4>2. t[j + 1] = s[j] /\ t[(j + 1) + 1] = s[j + 1]
        BY <2>9, <4>1
      <4>3. End(s[j]) = s[j + 1].addr => s[j].used \/ s[j + 1].used
        BY <1>1, <4>1 DEF Merged
      <4> QED
        BY <4>1, <4>2, <4>3
    <3> QED
      BY <3>1, <3>2
  <2>12. Sound(g)
    <3>1. t \in Seq(BlockRec) /\ Len(t) = n + 1 /\ left \in Seq(Nat) /\ Len(left) = m - q
      BY <2>4, <2>9 DEF Long
    <3>2. top + grown \in Nat /\ HEAP_START <= top + grown
      BY <1>1, <2>3, HeapConstants
    <3> HIDE DEF left, m, top
    <3>3. g.list = t /\ g.top = top + grown /\ g.supply = left
      OBVIOUS
    <3>4. g \in [list : Seq(BlockRec), top : Nat, supply : Seq(Nat)]
      BY <3>1, <3>2
    <3>5. g.top + Len(g.supply) * PMM_PAGE_SIZE <= HEAP_START + WORD
      BY <2>5, <3>1, <3>3
    <3> HIDE DEF g
    <3> QED
      BY <2>6, <2>10, <3>1, <3>2, <3>3, <3>4, <3>5 DEF Sound
  <2>13. Held(t) = Held(s) \cup {b}
    <3>1. Len(t) = n + 1 /\ Len(s) = n
      BY <2>9 DEF Long, n
    <3>2. ASSUME NEW z PROVE (\E k \in 1 .. n + 1 : t[k] = z) <=> (z = b \/ \E k \in 1 .. n : s[k] = z)
      <4>1. ASSUME NEW k \in 1 .. n + 1, t[k] = z PROVE z = b \/ \E j \in 1 .. n : s[j] = z
        <5>1. CASE k = 1
          BY <2>9, <4>1, <5>1
        <5>2. CASE k # 1
          <6>1. k - 1 \in 1 .. n /\ (k - 1) + 1 = k
            BY <1>1, <5>2
          <6>2. t[(k - 1) + 1] = s[k - 1]
            BY <2>9, <6>1
          <6> QED
            BY <4>1, <6>1, <6>2
        <5> QED
          BY <5>1, <5>2
      <4>2. ASSUME z = b PROVE \E k \in 1 .. n + 1 : t[k] = z
        <5>1. 1 \in 1 .. n + 1
          BY <1>1
        <5> QED
          BY <2>9, <4>2, <5>1
      <4>3. ASSUME NEW k \in 1 .. n, s[k] = z PROVE \E j \in 1 .. n + 1 : t[j] = z
        <5>1. k + 1 \in 1 .. n + 1
          BY <1>1
        <5>2. t[k + 1] = z
          BY <2>9, <4>3, Zenon
        <5> QED
          BY <5>1, <5>2
      <4> QED
        BY <4>1, <4>2, <4>3
    <3>3. ASSUME NEW z \in BlockRec PROVE z \in Held(t) <=> z = b \/ z \in Held(s)
      <4>1. z \in Held(t) <=> z.used /\ \E k \in 1 .. n + 1 : t[k] = z
        BY <3>1 DEF Held
      <4>2. z \in Held(s) <=> z.used /\ \E k \in 1 .. n : s[k] = z
        BY <3>1 DEF Held
      <4>3. z = b => z.used
        BY <2>7
      <4> QED
        BY <3>2, <4>1, <4>2, <4>3
    <3>4. Held(t) \subseteq BlockRec /\ Held(s) \subseteq BlockRec /\ b \in BlockRec
      BY <2>7 DEF Held
    <3> HIDE DEF t, s, n, b
    <3> QED
      BY <3>3, <3>4
  <2>14. \A c \in Held(s) : c.addr # b.addr
    <3> SUFFICES ASSUME NEW c \in Held(s), c.addr = b.addr PROVE FALSE
      OBVIOUS
    <3>1. PICK k \in 1 .. n : s[k] = c
      BY DEF Held, n
    <3>2. End(c) <= top /\ c \in BlockRec
      BY <1>1, <3>1 DEF Laid
    <3>3. c.addr \in Nat /\ End(c) \in Nat /\ c.addr < End(c)
      BY <3>2, BlockIs
    <3> QED
      BY <1>1, <2>7, <3>2, <3>3
  <2>15. Merged(g.list, Len(g.list)) /\ g.list = t
    BY <2>9, <2>11 DEF Long
  <2> HIDE DEF g, top
  <2> QED
    BY <2>1, <2>7, <2>12, <2>13, <2>14, <2>15 DEF Allocated, s
<1> QED
  BY <1>3, <1>4

LEMMA AllocateIs ==
    ASSUME NEW h, Sound(h), Merged(h.list, Len(h.list)), NEW asked \in Nat
    PROVE  Allocated(h, Allocate(h, asked), asked)
<1> DEFINE size == Align(asked)
<1>1. size \in Nat /\ asked <= size
  BY AlignUp
<1>2. CASE asked = 0
  <2>1. Allocate(h, asked) = [h |-> h, ptr |-> 0]
    BY <1>2 DEF Allocate
  <2> QED
    BY <2>1 DEF Allocated
<1>3. CASE asked # 0 /\ Fitting(h, size) # {}
  <2>1. Allocate(h, asked) = FirstFit(h, size)
    BY <1>3 DEF Allocate
  <2> HIDE DEF size
  <2> QED
    BY <1>1, <1>3, <2>1, FirstFitIs
<1>4. CASE asked # 0 /\ Fitting(h, size) = {}
  <2>1. Allocate(h, asked) = Expand(h, size)
    BY <1>4 DEF Allocate
  <2> HIDE DEF size
  <2> QED
    BY <1>1, <2>1, ExpandIs
<1> QED
  BY <1>2, <1>3, <1>4

-----------------------------------------------------------------------------
(* Releasing.                                                              *)

\* What a release leaves.
Released(h, g, ptr) ==
    /\ Sound(g)
    /\ Merged(g.list, Len(g.list))
    /\ Held(g.list) = {b \in Held(h.list) : b.addr + HDR # ptr}

LEMMA ReleaseIs ==
    ASSUME NEW h, Sound(h), NEW ptr
    PROVE  Released(h, Release(h, ptr), ptr)
<1> HIDE DEF End, PageEdge, Laid, Merged
<1> DEFINE s == h.list
           n == Len(s)
           t == [i \in DOMAIN s |-> IF s[i].addr + HDR = ptr THEN [s[i] EXCEPT !.used = FALSE]
                                    ELSE s[i]]
           d == Coalesce(t)
           m == Len(d)
           g == [list |-> d, top |-> h.top, supply |-> h.supply]
<1>1. /\ s \in Seq(BlockRec) /\ n \in Nat /\ Laid(s, n, h.top)
      /\ h = [list |-> s, top |-> h.top, supply |-> h.supply]
  BY DEF Sound
<1>2. Release(h, ptr) = g
  <2>1. Release(h, ptr) = [h EXCEPT !.list = d]
    BY DEF Release
  <2> HIDE DEF d
  <2> QED
    BY <1>1, <2>1
<1>d. DOMAIN s = 1 .. n /\ DOMAIN t = 1 .. n
  <2> HIDE DEF s
  <2>1. DOMAIN t = DOMAIN s
    OBVIOUS
  <2> HIDE DEF t
  <2> QED
    BY <1>1, <2>1
<1>3. ASSUME NEW i \in 1 .. n
      PROVE  /\ t[i] \in BlockRec /\ t[i].addr = s[i].addr /\ End(t[i]) = End(s[i])
             /\ (s[i].addr + HDR = ptr => ~t[i].used)
             /\ (s[i].addr + HDR # ptr => t[i] = s[i])
  <2> DEFINE b == s[i]
             c == [b EXCEPT !.used = FALSE]
  <2>1. b \in BlockRec
    BY <1>1
  <2>2. t[i] = IF b.addr + HDR = ptr THEN c ELSE b
    <3> HIDE DEF s, n
    <3> QED
      BY <1>d
  <2> HIDE DEF b, t
  <2>3. c \in BlockRec /\ c.addr = b.addr /\ End(c) = End(b) /\ ~c.used
    BY <2>1 DEF BlockRec, End
  <2> HIDE DEF c
  <2>4. /\ t[i] \in BlockRec /\ t[i].addr = b.addr /\ End(t[i]) = End(b)
        /\ (b.addr + HDR = ptr => ~t[i].used)
        /\ (b.addr + HDR # ptr => t[i] = b)
    BY <2>1, <2>2, <2>3
  <2> QED
    BY <2>4 DEF b
<1>4. t \in Seq(BlockRec) /\ Len(t) = n
  <2>1. DOMAIN t = 1 .. n /\ \A i \in 1 .. n : t[i] \in BlockRec
    <3> HIDE DEF t, n
    <3> QED
      BY <1>d, <1>3
  <2>2. t = [i \in 1 .. n |-> t[i]]
    <3> HIDE DEF s, n
    <3> QED
      BY <1>d
  <2> HIDE DEF t, n
  <2>3. t \in [1 .. n -> BlockRec]
    BY <2>1, <2>2
  <2> QED
    BY <1>1, <2>3
<1> HIDE DEF t, n
<1>5. Laid(t, n, h.top)
  BY <1>1, <1>3, SameShape
<1>6. d \in Seq(BlockRec) /\ Folded(t, n, d, m)
  BY <1>1, <1>4, <1>5, CoalesceIs
<1> HIDE DEF d
<1>7. Laid(d, m, h.top)
  BY <1>5, <1>6, FoldLaid
<1>8. Sound(g)
  <2>1. g.list = d /\ g.top = h.top /\ g.supply = h.supply
    OBVIOUS
  <2>2. g \in [list : Seq(BlockRec), top : Nat, supply : Seq(Nat)]
    BY <1>6 DEF Sound
  <2> HIDE DEF g
  <2> QED
    BY <1>7, <2>1, <2>2 DEF Sound
<1>9. Merged(g.list, Len(g.list))
  BY <1>6 DEF Folded
<1>10. ASSUME NEW z \in BlockRec, z.used
       PROVE  (\E k \in 1 .. m : d[k] = z)
                 <=> (z.addr + HDR # ptr /\ \E i \in 1 .. n : s[i] = z)
  <2>1. (\E k \in 1 .. m : d[k] = z) <=> (\E i \in 1 .. n : t[i] = z)
    BY <1>6, <1>10 DEF Folded
  <2> HIDE DEF s, m
  <2>2. (\E i \in 1 .. n : t[i] = z) <=> (z.addr + HDR # ptr /\ \E i \in 1 .. n : s[i] = z)
    BY <1>3, <1>10
  <2> QED
    BY <2>1, <2>2
<1>11. Held(g.list) = {b \in Held(h.list) : b.addr + HDR # ptr}
  <2>1. g.list = d
    OBVIOUS
  <2> HIDE DEF g
  <2> QED
    BY <1>10, <2>1 DEF Held, n
<1> HIDE DEF g
<1> QED
  BY <1>2, <1>8, <1>9, <1>11 DEF Released

-----------------------------------------------------------------------------
(* The invariant.                                                          *)

HeldRec == [ptr : Nat, size : Nat]

\* The callers' records agree with the used blocks of the list s.
Matched(s, holders) ==
    /\ holders \subseteq HeldRec
    /\ \A l \in holders : \E b \in Held(s) : b.addr + HDR = l.ptr /\ b.size >= l.size
    /\ \A l, k \in holders : l.ptr = k.ptr => l = k
    /\ \A b \in Held(s) : \E l \in holders : b.addr + HDR = l.ptr

HeapInv ==
    /\ Sound(Now)
    /\ Merged(list, Len(list))
    /\ Matched(list, live)

\* A used block is where a caller's pointer says.
LEMMA HeldAt ==
    ASSUME NEW h, Sound(h), NEW b \in Held(h.list), NEW c \in Held(h.list), b.addr = c.addr
    PROVE  b = c
<1>1. Laid(h.list, Len(h.list), h.top)
  BY DEF Sound
<1>2. PICK i \in 1 .. Len(h.list) : h.list[i] = b
  BY DEF Held
<1>3. PICK j \in 1 .. Len(h.list) : h.list[j] = c
  BY DEF Held
<1> QED
  BY <1>1, <1>2, <1>3, AddrUnique

LEMMA HeldIs ==
    ASSUME NEW s, NEW b \in Held(s)
    PROVE  b \in BlockRec /\ b.used /\ b.addr \in Nat /\ b.size \in Nat /\ HDR \in Nat /\ HDR > 0
<1> QED
  BY HeapConstants DEF Held, BlockRec

LEMMA AllocMatches ==
    ASSUME NEW h, Sound(h), NEW r, NEW asked \in Nat, Allocated(h, r, asked),
           NEW holders, Matched(h.list, holders)
    PROVE  Matched(r.h.list, holders \cup Grants(r.ptr, asked))
<1>1. CASE r.ptr = 0 /\ r.h.list = h.list
  BY <1>1 DEF Grants
<1>2. ASSUME NEW b \in BlockRec, b.used, b.size >= asked, r.ptr = b.addr + HDR,
             \A c \in Held(h.list) : c.addr # b.addr,
             Held(r.h.list) = Held(h.list) \cup {b}
      PROVE  Matched(r.h.list, holders \cup Grants(r.ptr, asked))
  <2> DEFINE new == [ptr |-> r.ptr, size |-> asked]
  <2>1. /\ b.addr \in Nat /\ HDR \in Nat /\ HDR > 0 /\ r.ptr \in Nat /\ r.ptr # 0
        /\ new \in HeldRec /\ new.ptr = r.ptr /\ new.size = asked
    BY <1>2, HeapConstants DEF BlockRec, HeldRec
  <2>2. Grants(r.ptr, asked) = {new}
    BY <2>1 DEF Grants
  <2> HIDE DEF new
  <2>3. ASSUME NEW l \in holders PROVE l.ptr # new.ptr
    <3>1. PICK c \in Held(h.list) : c.addr + HDR = l.ptr
      BY DEF Matched
    <3>2. c.addr # b.addr /\ c.addr \in Nat
      BY <1>2, HeldIs
    <3> HIDE DEF Held
    <3> QED
      BY <1>2, <2>1, <3>1, <3>2
  <2>4. \A l \in holders \cup {new} : \E c \in Held(r.h.list) : c.addr + HDR = l.ptr /\ c.size >= l.size
    <3>1. \A l \in holders : \E c \in Held(h.list) : c.addr + HDR = l.ptr /\ c.size >= l.size
      BY DEF Matched
    <3> HIDE DEF Held
    <3> QED
      BY <1>2, <2>1, <3>1
  <2>5. \A c \in Held(r.h.list) : \E l \in holders \cup {new} : c.addr + HDR = l.ptr
    <3>1. \A c \in Held(h.list) : \E l \in holders : c.addr + HDR = l.ptr
      BY DEF Matched
    <3> HIDE DEF Held
    <3> QED
      BY <1>2, <2>1, <3>1
  <2>6. \A l, k \in holders \cup {new} : l.ptr = k.ptr => l = k
    BY <2>3 DEF Matched
  <2>7. holders \cup {new} \subseteq HeldRec
    BY <2>1 DEF Matched
  <2> QED
    BY <2>2, <2>4, <2>5, <2>6, <2>7 DEF Matched
<1> QED
  BY <1>1, <1>2 DEF Allocated

LEMMA ReleaseMatches ==
    ASSUME NEW h, NEW g, NEW holders, Matched(h.list, holders), NEW l \in holders,
           Released(h, g, l.ptr)
    PROVE  Matched(g.list, holders \ {l})
<1> HIDE DEF Held
<1>1. Held(g.list) = {b \in Held(h.list) : b.addr + HDR # l.ptr}
  BY DEF Released
<1>2. ASSUME NEW k \in holders \ {l}
      PROVE  \E b \in Held(g.list) : b.addr + HDR = k.ptr /\ b.size >= k.size
  <2>1. PICK b \in Held(h.list) : b.addr + HDR = k.ptr /\ b.size >= k.size
    BY DEF Matched
  <2>2. k.ptr # l.ptr
    BY DEF Matched
  <2> QED
    BY <1>1, <2>1, <2>2
<1>3. ASSUME NEW b \in Held(g.list) PROVE \E k \in holders \ {l} : b.addr + HDR = k.ptr
  BY <1>1 DEF Matched
<1> QED
  BY <1>2, <1>3 DEF Matched

LEMMA HeapInitInv == HeapInit => HeapInv
<1> SUFFICES ASSUME HeapInit PROVE HeapInv
  OBVIOUS
<1> DEFINE n == Len(supply)
           P == PMM_PAGE_SIZE
<1>1. list = <<>> /\ heap_current = HEAP_START /\ supply \in Supplies /\ live = {}
  BY DEF HeapInit
<1>2. supply \in Seq(Nat) /\ n \in Nat /\ n * P <= WORD
  BY <1>1, SuppliesAssumption
<1>3. Len(<<>>) = 0 /\ <<>> \in Seq(BlockRec) /\ 1 .. 0 = {}
  OBVIOUS
<1>4. HEAP_START \in Nat /\ WORD \in Nat /\ P \in Nat
  BY HeapConstants
<1>5. Laid(<<>>, 0, HEAP_START)
  <2>1. HEAP_START .. HEAP_START - 1 = {}
    BY <1>4
  <2> QED
    BY <1>3, <2>1 DEF Laid
<1>6. PageEdge(HEAP_START)
  <2>1. HEAP_START = HEAP_START + 0 * PMM_PAGE_SIZE /\ 0 \in Nat
    BY <1>4
  <2> QED
    BY <2>1 DEF PageEdge
<1>7. HEAP_START + n * P <= HEAP_START + WORD
  <2> DEFINE u == n * P
  <2>1. u \in Nat /\ u <= WORD
    BY <1>2, <1>4
  <2> HIDE DEF u
  <2>2. HEAP_START + u <= HEAP_START + WORD
    BY <1>4, <2>1
  <2> QED
    BY <2>2 DEF u
<1>8. Sound(Now)
  <2>1. Now.list = <<>> /\ Now.top = HEAP_START /\ Now.supply = supply
        /\ Now = [list |-> <<>>, top |-> HEAP_START, supply |-> supply]
    BY <1>1 DEF Now
  <2>2. Now \in [list : Seq(BlockRec), top : Nat, supply : Seq(Nat)]
    BY <1>2, <1>3, <1>4, <2>1
  <2> QED
    BY <1>3, <1>4, <1>5, <1>6, <1>7, <2>1, <2>2 DEF Sound
<1>9. Merged(list, Len(list))
  BY <1>1, <1>3 DEF Merged
<1>10. Matched(list, live)
  BY <1>1, <1>3 DEF Matched, Held
<1> QED
  BY <1>8, <1>9, <1>10 DEF HeapInv

\* What a step to the heap h leaves when it keeps the invariant.
LEMMA BecomesInv ==
    ASSUME NEW h, Sound(h), Merged(h.list, Len(h.list)), Become(h), Matched(h.list, live')
    PROVE  HeapInv'
<1>1. h = [list |-> h.list, top |-> h.top, supply |-> h.supply]
  BY DEF Sound
<1>2. list' = h.list /\ heap_current' = h.top /\ supply' = h.supply
  BY DEF Become
<1>3. Now' = h
  BY <1>1, <1>2 DEF Now
<1>4. Sound(Now)'
  BY <1>3 DEF Sound, Laid, End, PageEdge, Avoids, BlockRec
<1>5. Merged(list, Len(list))'
  BY <1>2 DEF Merged, End
<1>6. Matched(list, live)'
  BY <1>2 DEF Matched, Held, HeldRec, BlockRec
<1> QED
  BY <1>4, <1>5, <1>6 DEF HeapInv

\* What an allocation returns is nobody's.
LEMMA AllocFresh ==
    ASSUME NEW h, NEW r, NEW asked \in Nat, Allocated(h, r, asked),
           NEW holders, Matched(h.list, holders), NEW l \in holders
    PROVE  l.ptr # r.ptr /\ (r.ptr = 0 => r.h.list = h.list)
<1>1. PICK c \in Held(h.list) : c.addr + HDR = l.ptr
  BY DEF Matched
<1>2. c.addr \in Nat /\ HDR \in Nat /\ HDR > 0
  BY HeldIs
<1> HIDE DEF Held
<1>3. CASE r.ptr = 0 /\ r.h.list = h.list
  BY <1>1, <1>2, <1>3
<1>4. ASSUME NEW b \in BlockRec, r.ptr = b.addr + HDR, \A d \in Held(h.list) : d.addr # b.addr
      PROVE  l.ptr # r.ptr /\ r.ptr # 0
  <2>1. b.addr \in Nat /\ c.addr # b.addr
    BY <1>4 DEF BlockRec
  <2> QED
    BY <1>1, <1>2, <1>4, <2>1
<1> QED
  BY <1>3, <1>4 DEF Allocated

\* Who holds memory before and after a step holds the same block.
Untouched ==
    \A l \in live \cap live' : \E b \in Held(list) : b \in Held(list') /\ b.addr + HDR = l.ptr

LEMMA MallocKeeps ==
    ASSUME HeapInv, NEW size \in Nat, Kmalloc(size)
    PROVE  HeapInv' /\ Untouched
<1> HIDE DEF Held
<1> DEFINE r == Allocate(Now, size)
<1>1. Become(r.h) /\ live' = live \cup Grants(r.ptr, size)
  BY DEF Kmalloc
<1>2. /\ Sound(Now) /\ Merged(Now.list, Len(Now.list)) /\ Matched(Now.list, live)
      /\ Now.list = list
  BY DEF HeapInv, Now
<1> HIDE DEF Now
<1>3. Allocated(Now, r, size)
  BY <1>2, AllocateIs
<1> HIDE DEF r
<1>4. Matched(r.h.list, live')
  BY <1>1, <1>2, <1>3, AllocMatches
<1>5. HeapInv'
  BY <1>1, <1>3, <1>4, BecomesInv DEF Allocated
<1>6. list' = r.h.list
  BY <1>1 DEF Become
<1>7. Held(list) \subseteq Held(list')
  BY <1>2, <1>3, <1>6 DEF Allocated
<1>8. Untouched
  BY <1>2, <1>7 DEF Untouched, Matched
<1> QED
  BY <1>5, <1>8

LEMMA FreeKeeps ==
    ASSUME HeapInv, NEW l \in live, Kfree(l)
    PROVE  HeapInv' /\ Untouched
<1> HIDE DEF Held
<1> DEFINE g == Release(Now, l.ptr)
<1>1. Become(g) /\ live' = live \ {l}
  BY DEF Kfree
<1>2. Sound(Now) /\ Matched(Now.list, live) /\ Now.list = list
  BY DEF HeapInv, Now
<1> HIDE DEF Now
<1>3. Released(Now, g, l.ptr)
  BY <1>2, ReleaseIs
<1> HIDE DEF g
<1>4. Matched(g.list, live')
  BY <1>1, <1>2, <1>3, ReleaseMatches
<1>5. HeapInv'
  BY <1>1, <1>3, <1>4, BecomesInv DEF Released
<1>6. list' = g.list
  BY <1>1 DEF Become
<1>7. ASSUME NEW k \in live \cap live'
      PROVE  \E b \in Held(list) : b \in Held(list') /\ b.addr + HDR = k.ptr
  <2>1. PICK b \in Held(list) : b.addr + HDR = k.ptr
    BY <1>2 DEF Matched
  <2>2. k.ptr # l.ptr
    BY <1>1, <1>2 DEF Matched
  <2> QED
    BY <1>2, <1>3, <1>6, <2>1, <2>2 DEF Released
<1> QED
  BY <1>5, <1>7 DEF Untouched

\* The block krealloc looks up is the caller's.
LEMMA FoundIs ==
    ASSUME HeapInv, NEW l \in live, NEW b \in Held(list), b.addr + HDR = l.ptr
    PROVE  (CHOOSE c \in ToSet(list) : c.addr + HDR = l.ptr) = b
<1> DEFINE blk == CHOOSE c \in ToSet(list) : c.addr + HDR = l.ptr
           n == Len(list)
<1>1. Laid(list, n, heap_current) /\ list \in Seq(BlockRec)
  BY DEF HeapInv, Sound, Now
<1>2. PICK i \in 1 .. n : list[i] = b
  BY DEF Held
<1>3. ToSet(list) = {list[k] : k \in 1 .. n}
  BY <1>1 DEF ToSet
<1>4. b \in ToSet(list)
  BY <1>2, <1>3
<1>5. blk \in ToSet(list) /\ blk.addr + HDR = l.ptr
  BY <1>4
<1>6. PICK j \in 1 .. n : list[j] = blk
  BY <1>3, <1>5
<1> HIDE DEF blk, n
<1>7. blk.addr \in Nat /\ b.addr \in Nat /\ HDR \in Nat
  BY <1>1, <1>2, <1>6, BlockIs, HeapConstants DEF Laid
<1>8. blk.addr = b.addr
  BY <1>5, <1>7
<1>9. i = j
  BY <1>1, <1>2, <1>6, <1>8, AddrUnique
<1>10. blk = b
  BY <1>2, <1>6, <1>9
<1> QED
  BY <1>10 DEF blk

LEMMA ReallocKeeps ==
    ASSUME HeapInv, NEW l \in live, NEW size \in Nat, Krealloc(l, size)
    PROVE  HeapInv' /\ Untouched
<1> HIDE DEF Held
<1> DEFINE blk == CHOOSE b \in ToSet(list) : b.addr + HDR = l.ptr
           r == Allocate(Now, size)
           new == [ptr |-> r.ptr, size |-> size]
<1>2. /\ Sound(Now) /\ Merged(Now.list, Len(Now.list)) /\ Matched(Now.list, live)
      /\ Now.list = list
  BY DEF HeapInv, Now
<1> HIDE DEF Now
<1>3. Allocated(Now, r, size)
  BY <1>2, AllocateIs
<1>4. \/ Kfree(l)
      \/ /\ blk.size >= size
         /\ live' = (live \ {l}) \cup Grants(l.ptr, size)
         /\ UNCHANGED <<list, heap_current, supply>>
      \/ r.ptr = 0 /\ Become(r.h) /\ UNCHANGED live
      \/ /\ r.ptr # 0 /\ Become(Release(r.h, l.ptr))
         /\ live' = (live \ {l}) \cup Grants(r.ptr, size)
  BY DEF Krealloc
<1> HIDE DEF r
<1>5. CASE Kfree(l)
  BY <1>5, FreeKeeps
<1>6. CASE /\ blk.size >= size
           /\ live' = (live \ {l}) \cup Grants(l.ptr, size)
           /\ UNCHANGED <<list, heap_current, supply>>
  <2>1. PICK b \in Held(list) : b.addr + HDR = l.ptr
    BY <1>2 DEF Matched
  <2>2. blk = b
    BY <2>1, FoundIs
  <2> HIDE DEF blk
  <2>3. b.size >= size /\ b.addr \in Nat /\ HDR \in Nat /\ HDR > 0
    BY <1>6, <2>2, HeldIs
  <2> DEFINE kept == [ptr |-> l.ptr, size |-> size]
  <2>4. kept \in HeldRec /\ kept.ptr = l.ptr /\ kept.size = size
    BY <2>1, <2>3 DEF HeldRec
  <2>5. l.ptr # 0
    BY <2>1, <2>3
  <2>6. live' = (live \ {l}) \cup {kept}
    BY <1>6, <2>5 DEF Grants
  <2> HIDE DEF kept
  <2>7. Matched(list, live')
    <3>1. live' \subseteq HeldRec
      BY <1>2, <2>4, <2>6 DEF Matched
    <3>2. \A k \in live' : \E c \in Held(list) : c.addr + HDR = k.ptr /\ c.size >= k.size
      BY <1>2, <2>1, <2>3, <2>4, <2>6 DEF Matched
    <3>3. \A k, m \in live' : k.ptr = m.ptr => k = m
      <4>1. \A k \in live \ {l} : k.ptr # l.ptr
        BY <1>2 DEF Matched
      <4>2. \A k, m \in live : k.ptr = m.ptr => k = m
        BY <1>2 DEF Matched
      <4> QED
        BY <2>4, <2>6, <4>1, <4>2
    <3>4. \A c \in Held(list) : \E k \in live' : c.addr + HDR = k.ptr
      <4>1. \A c \in Held(list) : \E k \in live : c.addr + HDR = k.ptr
        BY <1>2 DEF Matched
      <4>2. \A k \in live : \E m \in live' : k.ptr = m.ptr
        BY <2>4, <2>6
      <4> QED
        BY <4>1, <4>2
    <3> QED
      BY <3>1, <3>2, <3>3, <3>4 DEF Matched
  <2>8. Become(Now)
    BY <1>6 DEF Become, Now
  <2>9. HeapInv'
    BY <1>2, <2>7, <2>8, BecomesInv
  <2>10. Untouched
    BY <1>2, <1>6 DEF Untouched, Matched
  <2> QED
    BY <2>9, <2>10
<1>7. CASE r.ptr = 0 /\ Become(r.h) /\ UNCHANGED live
  <2>1. r.h.list = list /\ list' = list
    BY <1>2, <1>3, <1>7, AllocFresh DEF Become
  <2>2. HeapInv'
    <3>1. Matched(r.h.list, live')
      BY <1>2, <1>7, <2>1
    <3> QED
      BY <1>3, <1>7, <3>1, BecomesInv DEF Allocated
  <2>3. Untouched
    BY <1>2, <2>1 DEF Untouched, Matched
  <2> QED
    BY <2>2, <2>3
<1>8. CASE /\ r.ptr # 0 /\ Become(Release(r.h, l.ptr))
           /\ live' = (live \ {l}) \cup Grants(r.ptr, size)
  <2> DEFINE g == Release(r.h, l.ptr)
             holders == live \cup Grants(r.ptr, size)
  <2>1. Matched(r.h.list, holders)
    BY <1>2, <1>3, AllocMatches
  <2>2. l.ptr # r.ptr
    BY <1>2, <1>3, AllocFresh
  <2>3. live' = holders \ {l} /\ l \in holders
    <3>1. \A k \in Grants(r.ptr, size) : k.ptr = r.ptr
      BY DEF Grants
    <3> QED
      BY <1>8, <2>2, <3>1
  <2>4. Released(r.h, g, l.ptr)
    BY <1>3, ReleaseIs DEF Allocated
  <2>5. Become(g)
    BY <1>8
  <2> HIDE DEF g, holders
  <2>6. Matched(g.list, live')
    BY <2>1, <2>3, <2>4, ReleaseMatches
  <2>7. HeapInv'
    BY <2>4, <2>5, <2>6, BecomesInv DEF Released
  <2>8. list' = g.list
    BY <2>5 DEF Become
  <2>9. Held(list) \subseteq Held(r.h.list)
    BY <1>2, <1>3 DEF Allocated
  <2>10. ASSUME NEW k \in live \cap live'
         PROVE  \E b \in Held(list) : b \in Held(list') /\ b.addr + HDR = k.ptr
    <3>1. PICK b \in Held(list) : b.addr + HDR = k.ptr
      BY <1>2 DEF Matched
    <3>2. k # l /\ k \in live /\ l \in live
      BY <2>3
    <3>3. k.ptr # l.ptr
      BY <1>2, <3>2 DEF Matched
    <3> QED
      BY <2>4, <2>8, <2>9, <3>1, <3>3 DEF Released
  <2> QED
    BY <2>7, <2>10 DEF Untouched
<1> QED
  BY <1>4, <1>5, <1>6, <1>7, <1>8

LEMMA HeapStep == HeapInv /\ [HeapNext]_heapVars => HeapInv' /\ Untouched
<1> SUFFICES ASSUME HeapInv, [HeapNext]_heapVars PROVE HeapInv' /\ Untouched
  OBVIOUS
<1>1. ASSUME NEW size \in Sizes, Kmalloc(size) PROVE HeapInv' /\ Untouched
  BY <1>1, SizesAssumption, MallocKeeps
<1>2. ASSUME NEW arr \in Arrays, Kcalloc(arr[1], arr[2]) PROVE HeapInv' /\ Untouched
  <2> DEFINE asked == (arr[1] * arr[2]) % WORD
  <2>1. asked \in Nat
    <3>1. arr[1] \in Nat /\ arr[2] \in Nat
      BY SizesAssumption
    <3>2. arr[1] * arr[2] \in Nat
      BY <3>1
    <3> QED
      BY <3>2, HeapConstants
  <2>2. Kmalloc(asked)
    BY <1>2 DEF Kcalloc
  <2> HIDE DEF asked
  <2> QED
    BY <2>1, <2>2, MallocKeeps
<1>3. ASSUME NEW l \in live, Kfree(l) PROVE HeapInv' /\ Untouched
  BY <1>3, FreeKeeps
<1>4. ASSUME NEW l \in live, NEW size \in Sizes, Krealloc(l, size) PROVE HeapInv' /\ Untouched
  BY <1>4, SizesAssumption, ReallocKeeps
<1>5. CASE UNCHANGED heapVars
  <2>1. Become(Now) /\ live' = live
    BY <1>5 DEF heapVars, Become, Now
  <2>2. Sound(Now) /\ Merged(Now.list, Len(Now.list)) /\ Matched(Now.list, live') /\ list' = list
    BY <1>5 DEF HeapInv, Now, heapVars
  <2>3. HeapInv'
    BY <2>1, <2>2, BecomesInv
  <2>4. Untouched
    BY <2>1, <2>2 DEF HeapInv, Untouched, Matched
  <2> QED
    BY <2>3, <2>4
<1> QED
  BY <1>1, <1>2, <1>3, <1>4, <1>5 DEF HeapNext

LEMMA AlwaysHeapInv == HeapSpec => []HeapInv
<1>1. HeapInv /\ [HeapNext]_heapVars => HeapInv'
  BY HeapStep
<1> QED
  BY <1>1, HeapInitInv, PTL DEF HeapSpec

-----------------------------------------------------------------------------
(* What follows from it.                                                   *)

LEMMA ListIs ==
    ASSUME HeapInv
    PROVE  /\ list \in Seq(BlockRec) /\ Laid(list, Len(list), heap_current)
           /\ DOMAIN list = 1 .. Len(list)
           /\ Blocks = {list[i] : i \in 1 .. Len(list)}
           /\ \A b \in BlockRec : b \in Held(list) <=> (b \in Blocks /\ b.used)
           /\ Blocks \subseteq BlockRec
           /\ heap_current \in Nat /\ supply \in Seq(Nat)
           /\ heap_current <= HEAP_START + WORD
<1> DEFINE n == Len(list)
           u == Len(supply) * PMM_PAGE_SIZE
<1>1. /\ list \in Seq(BlockRec) /\ Laid(list, n, heap_current)
      /\ heap_current \in Nat /\ supply \in Seq(Nat)
      /\ heap_current + u <= HEAP_START + WORD
  BY DEF HeapInv, Sound, Now
<1>2. DOMAIN list = 1 .. n
  BY <1>1
<1>3. Blocks = {list[i] : i \in 1 .. n}
  BY <1>2 DEF Blocks, ToSet
<1>4. heap_current <= HEAP_START + WORD
  <2>1. u \in Nat
    BY <1>1, HeapConstants
  <2> HIDE DEF u
  <2> QED
    BY <1>1, <2>1, HeapConstants
<1>5. \A b \in BlockRec : b \in Held(list) <=> (b \in Blocks /\ b.used)
  BY <1>3 DEF Held
<1>6. Blocks \subseteq BlockRec
  BY <1>1, <1>3
<1> QED
  BY <1>1, <1>2, <1>3, <1>4, <1>5, <1>6

LEMMA InvTypes == HeapInv => HeapTypeOK
<1> SUFFICES ASSUME HeapInv PROVE HeapTypeOK
  OBVIOUS
<1>1. ASSUME NEW i \in DOMAIN list
      PROVE  list[i].addr \in Nat /\ list[i].size \in 0 .. WORD - 1 /\ list[i].used \in BOOLEAN
  <2> DEFINE b == list[i]
  <2>1. b \in BlockRec /\ HEAP_START <= b.addr /\ End(b) <= heap_current
    BY <1>1, ListIs DEF Laid
  <2>2. heap_current \in Nat /\ heap_current <= HEAP_START + WORD
    BY ListIs
  <2> HIDE DEF b
  <2>3. /\ b.addr \in Nat /\ b.size \in Nat /\ b.used \in BOOLEAN
        /\ End(b) = b.addr + HDR + b.size
    BY <2>1, BlockIs
  <2>4. b.size \in 0 .. WORD - 1
    BY <2>1, <2>2, <2>3, HeapConstants
  <2> QED
    BY <2>3, <2>4 DEF b
<1>2. \A l \in live : l.ptr \in Nat /\ l.size \in Nat
  BY DEF HeapInv, Matched, HeldRec
<1> QED
  BY <1>1, <1>2, ListIs DEF HeapTypeOK

LEMMA InvTiles == HeapInv => Tiles
<1> SUFFICES ASSUME HeapInv PROVE Tiles
  OBVIOUS
<1> HIDE DEF End
<1>1. Laid(list, Len(list), heap_current) /\ DOMAIN list = 1 .. Len(list)
      /\ Blocks = {list[i] : i \in 1 .. Len(list)}
  BY ListIs
<1>2. HeapTypeOK
  BY InvTypes
<1>3. \A i, j \in DOMAIN list :
        i # j => End(list[i]) <= list[j].addr \/ End(list[j]) <= list[i].addr
  BY <1>1 DEF Laid, Avoids
<1>4. \A a \in HEAP_START .. heap_current - 1 : \E b \in Blocks : b.addr <= a /\ a < End(b)
  <2> SUFFICES ASSUME NEW a \in HEAP_START .. heap_current - 1
               PROVE  \E b \in Blocks : b.addr <= a /\ a < End(b)
    OBVIOUS
  <2>1. PICK i \in 1 .. Len(list) : list[i].addr <= a /\ a < End(list[i])
    BY <1>1 DEF Laid
  <2> QED
    BY <1>1, <2>1
<1>5. \A b \in Blocks : HEAP_START <= b.addr /\ End(b) <= heap_current
  BY <1>1 DEF Laid
<1> QED
  BY <1>2, <1>3, <1>4, <1>5 DEF Tiles

LEMMA InvLiveSafe == HeapInv => LiveSafe
<1> SUFFICES ASSUME HeapInv PROVE LiveSafe
  OBVIOUS
<1>1. /\ \A b \in BlockRec : b \in Held(list) <=> (b \in Blocks /\ b.used)
      /\ Blocks \subseteq BlockRec
  BY ListIs
<1>2. Matched(list, live) /\ \A b \in Held(list) : b \in BlockRec
  BY DEF HeapInv, Held
<1> HIDE DEF Held, Blocks
<1>3. \A l \in live : \E b \in Blocks : b.used /\ b.addr + HDR = l.ptr /\ b.size >= l.size
  BY <1>1, <1>2 DEF Matched
<1>4. \A l, k \in live : l.ptr = k.ptr => l = k
  BY <1>2 DEF Matched
<1>5. \A b \in Blocks : b.used => \E l \in live : b.addr + HDR = l.ptr
  BY <1>1, <1>2 DEF Matched
<1> QED
  BY <1>3, <1>4, <1>5 DEF LiveSafe

\* What lies between two page edges is whole pages.
LEMMA WholePages ==
    ASSUME NEW a \in Nat, NEW e \in Nat, a < e, PageEdge(a), PageEdge(e)
    PROVE  (e - a) % PMM_PAGE_SIZE = 0
<1> DEFINE P == PMM_PAGE_SIZE
<1>1. PICK j \in Nat : a = HEAP_START + j * P
  BY DEF PageEdge
<1>2. PICK k \in Nat : e = HEAP_START + k * P
  BY DEF PageEdge
<1>c. P \in Nat /\ P > 0 /\ HEAP_START \in Nat
  BY HeapConstants
<1> HIDE DEF P
<1>3. j * P \in Nat /\ k * P \in Nat
  BY <1>c
<1>4. j * P < k * P
  BY <1>1, <1>2, <1>3, <1>c
<1>5. j <= k
  <2> SUFFICES ASSUME k <= j PROVE FALSE
    OBVIOUS
  <2>1. k * P <= j * P
    BY <1>c, Monotone
  <2> QED
    BY <1>3, <1>4, <2>1
<1> DEFINE d == k - j
<1>6. d \in Nat /\ d * P = k * P - j * P
  BY <1>5, <1>c, Monotone
<1> HIDE DEF d
<1>7. e - a = d * P
  BY <1>1, <1>2, <1>3, <1>6, <1>c
<1>8. (d * P) % P = 0
  BY <1>6, <1>c
<1> QED
  BY <1>7, <1>8 DEF P

LEMMA InvFreedWhole == HeapInv => FreedWhole
<1> SUFFICES ASSUME HeapInv PROVE FreedWhole
  OBVIOUS
<1> HIDE DEF End, PageEdge
<1> DEFINE n == Len(list)
<1>1. /\ Laid(list, n, heap_current) /\ Merged(list, n)
      /\ Blocks = {list[i] : i \in 1 .. n} /\ n \in Nat
      /\ list \in Seq(BlockRec)
  BY ListIs DEF HeapInv
<1>2. \A i \in 1 .. n - 1 : End(list[i]) = list[i + 1].addr => list[i].used \/ list[i + 1].used
  BY <1>1 DEF Merged
<1>3. ASSUME live = {}, NEW b \in Blocks PROVE (HDR + b.size) % PMM_PAGE_SIZE = 0
  <2>1. \A i \in 1 .. n : ~list[i].used
    <3> SUFFICES ASSUME NEW i \in 1 .. n, list[i].used PROVE FALSE
      OBVIOUS
    <3>1. list[i] \in BlockRec
      BY <1>1
    <3>2. list[i] \in Held(list)
      BY <3>1 DEF Held
    <3> QED
      BY <1>3, <3>2 DEF HeapInv, Matched
  <2>2. PICK i \in 1 .. n : list[i] = b
    BY <1>1, <1>3
  <2> HIDE DEF n
  <2>3. PageEdge(b.addr)
    <3>1. PageEdge(list[i].addr) \/ (i > 1 /\ End(list[i - 1]) = list[i].addr)
      BY <1>1 DEF Laid
    <3>2. ASSUME i > 1, End(list[i - 1]) = list[i].addr PROVE FALSE
      <4> DEFINE j == i - 1
      <4>1. j \in 1 .. n - 1 /\ j \in 1 .. n /\ j + 1 = i
        BY <1>1, <3>2
      <4>2. End(list[j]) = list[j + 1].addr
        BY <3>2, <4>1
      <4> HIDE DEF j
      <4> QED
        BY <1>2, <2>1, <4>1, <4>2
    <3> QED
      BY <2>2, <3>1, <3>2
  <2>4. PageEdge(End(b))
    <3>1. PageEdge(End(list[i])) \/ (i < n /\ End(list[i]) = list[i + 1].addr)
      BY <1>1 DEF Laid
    <3>2. ASSUME i < n, End(list[i]) = list[i + 1].addr PROVE FALSE
      <4>1. i \in 1 .. n - 1 /\ i + 1 \in 1 .. n
        BY <1>1, <3>2
      <4> QED
        BY <1>2, <2>1, <3>2, <4>1
    <3> QED
      BY <2>2, <3>1, <3>2
  <2>5. b \in BlockRec
    BY <1>1, <2>2 DEF Laid
  <2>6. /\ b.addr \in Nat /\ End(b) \in Nat /\ b.addr < End(b)
        /\ End(b) - b.addr = HDR + b.size
    <3>1. b.addr \in Nat /\ b.size \in Nat /\ End(b) \in Nat /\ b.addr < End(b)
          /\ End(b) = b.addr + HDR + b.size
      BY <2>5, BlockIs
    <3> QED
      BY <3>1, HeapConstants
  <2> QED
    BY <2>3, <2>4, <2>6, WholePages
<1> QED
  BY <1>2, <1>3 DEF FreedWhole

\* The blocks tile the heap from its start to its end at every moment: no split, no
\* growth and no coalescing loses a byte or gives it to two blocks (heap.c:50-113).
THEOREM BlocksTile == HeapSpec => []Tiles
<1> QED
  BY AlwaysHeapInv, InvTiles, PTL

\* Whoever holds a pointer holds a used block of his own that is large enough, and
\* every used block is held: nothing leaks and nothing is given out twice.
THEOREM PointersAreSafe == HeapSpec => []LiveSafe
<1> QED
  BY AlwaysHeapInv, InvLiveSafe, PTL

\* The loop of kfree (heap.c:97-113) leaves no two free blocks it could have joined,
\* and a heap that was given back whole is in whole pages.
THEOREM CoalescesAll == HeapSpec => []FreedWhole
<1> QED
  BY AlwaysHeapInv, InvFreedWhole, PTL

\* A block that is held before and after a call keeps its place and its size: no
\* allocation, resize or release of another caller's touches it.
THEOREM HoldersUntouched == HeapSpec => OthersUntouched
<1>1. HeapInv /\ [HeapNext]_heapVars
        => [\A l \in live \cap live' : \E b \in Blocks : \E n \in ToSet(list') :
              /\ b.addr + HDR = l.ptr
              /\ n.addr = b.addr /\ n.used /\ n.size = b.size]_heapVars
  <2> SUFFICES ASSUME HeapInv, [HeapNext]_heapVars, NEW l \in live \cap live'
               PROVE  \E b \in Blocks : \E n \in ToSet(list') :
                        /\ b.addr + HDR = l.ptr
                        /\ n.addr = b.addr /\ n.used /\ n.size = b.size
    OBVIOUS
  <2>1. Untouched /\ HeapInv'
    BY HeapStep
  <2>2. PICK b \in Held(list) : b \in Held(list') /\ b.addr + HDR = l.ptr
    BY <2>1 DEF Untouched
  <2>3. b \in Blocks /\ b.used
    <3>1. b \in BlockRec
      BY DEF Held
    <3> HIDE DEF Held, Blocks
    <3> QED
      BY <3>1, ListIs
  <2>4. b \in ToSet(list')
    <3>1. DOMAIN list' = 1 .. Len(list')
      BY <2>1 DEF HeapInv, Sound, Now
    <3>2. \E i \in 1 .. Len(list') : list'[i] = b
      BY <2>2 DEF Held
    <3> QED
      BY <3>1, <3>2 DEF ToSet
  <2> QED
    BY <2>2, <2>3, <2>4
<1> QED
  BY <1>1, AlwaysHeapInv, PTL DEF HeapSpec, OthersUntouched
=============================================================================
