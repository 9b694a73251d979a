---- MODULE PageUnits ----
(***************************************************************************)
(* Memory as pmm.c and heap.c both count it: in whole pages, in uint32_t.  *)
(***************************************************************************)
EXTENDS Integers

CONSTANTS
    PMM_PAGE_SIZE,  \* bytes of a page (4096)
    WORD            \* counters and sizes are modulo WORD (2^32)

ASSUME UnitsAssumption == {PMM_PAGE_SIZE, WORD} \subseteq Nat \ {0}

\* The pages it takes to hold that many bytes, which is also the number of the
\* first page that begins at or after the address.
PagesUp(bytes) == (bytes + PMM_PAGE_SIZE - 1) \div PMM_PAGE_SIZE
====
