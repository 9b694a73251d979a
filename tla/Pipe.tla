-------------------------------- MODULE Pipe --------------------------------
(***************************************************************************)
(* The pipe of pipe.c: a ring of bytes with two positions and a count.  A  *)
(* call is one step: no interrupt handler touches a pipe and nothing else  *)
(* takes the CPU.                                                          *)
(*                                                                         *)
(* pipe_destroy frees the pipe after it has closed it; the block is that   *)
(* of the next pipe_create, which leaves the old bytes in the ring.        *)
(***************************************************************************)
EXTENDS Integers, Sequences

CONSTANTS
    PIPE_BUF_SIZE,  \* 4096
    Bytes,
    Writes,         \* data of pipe_write
    Reads           \* len of pipe_read

ASSUME PipeAssumption ==
    /\ PIPE_BUF_SIZE \in Nat \ {0}
    /\ Writes \subseteq Seq(Bytes)
    /\ Reads \subseteq Nat

VARIABLES
    ring,  \* buffer
    read_pos,
    write_pos,
    count,
    closed,
    ret,   \* the answer of the last call
    data   \* the bytes the last pipe_read gave

pipeVars == <<ring, read_pos, write_pos, count, closed, ret, data>>

Places == 0 .. PIPE_BUF_SIZE - 1

\* The ring holds what the heap block held.
PipeInit ==
    /\ ring \in [Places -> Bytes]
    /\ read_pos = 0
    /\ write_pos = 0
    /\ count = 0
    /\ closed = FALSE
    /\ ret = 0
    /\ data = <<>>

\* The place n behind another one.
Place(pos, n) == (pos + n) % PIPE_BUF_SIZE

\* How far a place is behind another one.
Distance(pos, k) == IF pos <= k THEN k - pos ELSE k - pos + PIPE_BUF_SIZE

\* Mutant: room is looked for once, before the loop.
RoomAtOnce(len) == IF count >= PIPE_BUF_SIZE THEN 0 ELSE len

\* Iterations of the loop of pipe_write.
Room(len) == IF len < PIPE_BUF_SIZE - count THEN len ELSE PIPE_BUF_SIZE - count

\* Iterations of the loop of pipe_read.
Stock(len) == IF len < count THEN len ELSE count

PipeWrite(bytes) ==
    /\ ~closed
    /\ LET n == Room(Len(bytes))
       IN  /\ ring' = [k \in Places |->
                            IF Distance(write_pos, k) < n
                            THEN bytes[Distance(write_pos, k) + 1]
                            ELSE ring[k]]
           /\ write_pos' = Place(write_pos, n)
           /\ count' = count + n
           /\ ret' = n
    /\ data' = <<>>
    /\ UNCHANGED <<read_pos, closed>>

PipeRead(len) ==
    /\ ~closed
    /\ LET n == Stock(len)
       IN  /\ data' = [i \in 1 .. n |-> ring[Place(read_pos, i - 1)]]
           /\ read_pos' = Place(read_pos, n)
           /\ count' = count - n
           /\ ret' = n
    /\ UNCHANGED <<ring, write_pos, closed>>

PipeDestroy ==
    /\ ~closed
    /\ closed' = TRUE
    /\ UNCHANGED <<ring, read_pos, write_pos, count, ret, data>>

\* pipe_write or pipe_read of a pipe that is closed.
Refuse ==
    /\ closed
    /\ ret' = -1
    /\ data' = <<>>
    /\ UNCHANGED <<ring, read_pos, write_pos, count, closed>>

PipeCreate ==
    /\ closed
    /\ read_pos' = 0
    /\ write_pos' = 0
    /\ count' = 0
    /\ closed' = FALSE
    /\ UNCHANGED <<ring, ret, data>>

PipeNext ==
    \/ \E bytes \in Writes : PipeWrite(bytes)
    \/ \E len \in Reads : PipeRead(len)
    \/ PipeDestroy
    \/ Refuse
    \/ PipeCreate

PipeSpec == PipeInit /\ [][PipeNext]_pipeVars

-----------------------------------------------------------------------------
(* Properties.                                                             *)

PipeTypeOK ==
    /\ ring \in [Places -> Bytes]
    /\ read_pos \in Places
    /\ write_pos \in Places
    /\ count \in 0 .. PIPE_BUF_SIZE
    /\ closed \in BOOLEAN
    /\ ret \in Int
    /\ data \in Seq(Bytes)

\* The positions and the count, which are kept apart, say the same: this alone
\* tells a full ring from an empty one (pipe.c:24-43).
PosInv == write_pos = Place(read_pos, count)

Unread == [i \in 1 .. count |-> ring[Place(read_pos, i - 1)]]

Stream == INSTANCE ByteStream WITH
    Capacity <- PIPE_BUF_SIZE,
    stream   <- Unread

\* The ring is a stream: over writes that are cut short, reads of less or more
\* than there is, turns of the ring and pipes made in the block of another, no
\* byte is lost, doubled, reordered or left over, and the answers are the numbers
\* of bytes that moved.
InOrder == Stream!Spec
=============================================================================
