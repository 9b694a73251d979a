----------------------------- MODULE ByteStream -----------------------------
(***************************************************************************)
(* What a pipe promises: bytes come out in the order they went in.  A write *)
(* takes as many bytes as there is room for and a read gives as many as    *)
(* there are; the answer says how many.  A destroyed pipe answers -1, and  *)
(* a new one is empty.                                                     *)
(***************************************************************************)
EXTENDS Integers, Sequences

CONSTANTS
    Capacity,  \* bytes the pipe holds
    Bytes,
    Writes,    \* sequences of bytes written in one call
    Reads      \* lengths asked for in one call

VARIABLES
    stream,  \* written and not yet read, oldest first
    closed,
    ret,     \* the answer of the last call
    data     \* the bytes the last read gave

vars == <<stream, closed, ret, data>>

Least(m, n) == IF m < n THEN m ELSE n

Init == stream = <<>> /\ closed = FALSE /\ ret = 0 /\ data = <<>>

Write(bytes) ==
    /\ ~closed
    /\ LET n == Least(Len(bytes), Capacity - Len(stream))
       IN  /\ stream' = stream \o SubSeq(bytes, 1, n)
           /\ ret' = n
    /\ data' = <<>>
    /\ UNCHANGED closed

Read(len) ==
    /\ ~closed
    /\ LET n == Least(len, Len(stream))
       IN  /\ data' = SubSeq(stream, 1, n)
           /\ stream' = SubSeq(stream, n + 1, Len(stream))
           /\ ret' = n
    /\ UNCHANGED closed

Destroy ==
    /\ ~closed
    /\ closed' = TRUE
    /\ UNCHANGED <<stream, ret, data>>

Refuse ==
    /\ closed
    /\ ret' = -1
    /\ data' = <<>>
    /\ UNCHANGED <<stream, closed>>

Create ==
    /\ closed
    /\ stream' = <<>>
    /\ closed' = FALSE
    /\ UNCHANGED <<ret, data>>

Next ==
    \/ \E bytes \in Writes : Write(bytes)
    \/ \E len \in Reads : Read(len)
    \/ Destroy
    \/ Refuse
    \/ Create

Spec == Init /\ [][Next]_vars
=============================================================================
