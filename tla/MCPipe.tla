------------------------------- MODULE MCPipe -------------------------------
(* A ring of three bytes; calls of nothing, of less than the ring, of all   *)
(* of it and of more.                                                       *)
EXTENDS Pipe, SequencesExt

MCWrites == BoundedSeq(Bytes, 2) \cup {<<a, b, b, a>> : a \in Bytes, b \in Bytes}
=============================================================================
