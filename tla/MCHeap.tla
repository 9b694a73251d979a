------------------------------- MODULE MCHeap -------------------------------
(* Headers and alignment of four bytes, pages of sixteen, up to four pages: *)
(* a page holds two blocks, a request of 17 bytes takes two pages.          *)
EXTENDS Heap

\* A machine whose first free page is page 0, and one that has none there.
MCSupplies == { <<0, 16, 32, 48, 64>>, <<16, 32, 48>> }

MCSizes == {0, 1, 6, 17}

MCArrays == { <<2, 6>> }
=============================================================================
