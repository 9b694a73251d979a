------------------------------- MODULE MCPmm -------------------------------
(* Six pages of two bytes, the kernel in the first two, counters modulo 8. *)
EXTENDS Pmm, Sequences

Region(b, l, t) == [base |-> b, length |-> l, type |-> t]

\* Low memory, a hole and high memory; two entries that overlap; entries whose
\* edges are inside pages and one past the end of the bitmap; nothing usable.
MCMemoryMaps ==
    { <<Region(0, 4, 1), Region(4, 2, 2), Region(6, 6, 1)>>,
      <<Region(2, 8, 1), Region(6, 4, 1)>>,
      <<Region(5, 3, 1), Region(9, 40, 1)>>,
      <<Region(0, 12, 1)>> }

MCFlatRanges == { <<3, 9>>, <<0, 40>> }
=============================================================================
