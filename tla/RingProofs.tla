---------------------------- MODULE RingProofs ----------------------------
(***************************************************************************)
(* Proofs about the keyboard, from its bytes to its ring, and about pipes. *)
(* Of the ring of keyboard.c, for every size and every set of characters:  *)
(* types, the invariant of the slot being taken, that the handler never    *)
(* overwrites that slot, and that the ring implements the safety part of   *)
(* CharQueue.  Of the pipe's, for every size and set of bytes: types, that *)
(* positions and count agree, and that the ring implements the stream of   *)
(* ByteStream.  Of the decoder, for every set of keys and any number of    *)
(* events: types, and that it loses at most one character for each arrow   *)
(* that is released.                                                       *)
(***************************************************************************)
EXTENDS Kfifo, Pipe, Scancode, Basics, SequenceTheorems, TLAPS

-----------------------------------------------------------------------------
(* The ring of keyboard.c.                                                 *)

\* Moving an index one slot forward wraps exactly at the end of the buffer.
LEMMA SuccWraps ==
    ASSUME NEW i \in Slots
    PROVE  /\ Succ(i) \in Slots
           /\ Succ(i) = IF i = KFIFO_SIZE - 1 THEN 0 ELSE i + 1
  BY SizeAssumption DEF Succ, Slots

\* Reducing an index of at most two turns.
LEMMA TurnWraps ==
    ASSUME NEW n \in Nat, n < 2 * KFIFO_SIZE
    PROVE  n % KFIFO_SIZE = IF n < KFIFO_SIZE THEN n ELSE n - KFIFO_SIZE
  BY SizeAssumption
-----------------------------------------------------------------------------
(* The inductive invariant: types, and the reader's slot.                  *)

Inv == TypeOK /\ SlotInv

LEMMA InitInv == Init => Inv
<1> SUFFICES ASSUME Init PROVE TypeOK /\ SlotInv
  BY DEF Inv
<1>1. 0 \in Slots
  BY SizeAssumption DEF Slots
<1>2. TypeOK
  BY <1>1 DEF Init, TypeOK
<1>3. SlotInv
  BY DEF Init, SlotInv
<1> QED
  BY <1>2, <1>3

LEMMA StepInv == Inv /\ [Next]_vars => Inv'
<1> SUFFICES ASSUME Inv, [Next]_vars PROVE Inv'
  OBVIOUS
<1> USE DEF Inv, TypeOK, SlotInv
<1>0. Succ(head) \in Slots /\ Succ(tail) \in Slots
  BY SuccWraps
<1>1. ASSUME NEW ch \in Chars, KeyIrq(ch) PROVE Inv'
  <2>1. TypeOK'
    BY <1>0, <1>1 DEF KeyIrq, KfifoPut, AfterIrq, Full
  <2>2. CASE Full
    BY <1>1, <2>1, <2>2 DEF KeyIrq, KfifoPut, AfterIrq
  <2>3. CASE ~Full
    <3>1. buffer' = [buffer EXCEPT ![head] = ch] /\ head' = Succ(head)
      BY <1>1, <2>3 DEF KeyIrq, KfifoPut
    <3>2. head' # tail
      BY <2>3, <3>1 DEF Full
    <3>3. pc = "store" => buffer'[slot] = buffer[slot]
      BY <3>1
    <3> QED
      BY <1>1, <2>1, <3>2, <3>3 DEF KeyIrq, AfterIrq
  <2> QED
    BY <2>2, <2>3
<1>2. CASE OtherIrq
  BY <1>2 DEF OtherIrq, AfterIrq
<1>3. ASSUME NEW wait \in BOOLEAN, Enter(wait) PROVE Inv'
  BY <1>3 DEF Enter
<1>4. CASE TestEmpty
  BY <1>4 DEF TestEmpty
<1>5. CASE TestSome
  BY <1>5 DEF TestSome
<1>6. CASE Load
  BY <1>6 DEF Load
<1>7. CASE Store
  BY <1>0, <1>7 DEF Store
<1>8. CASE Advance
  BY <1>0, <1>8 DEF Advance, Succ
<1>9. CASE LateLoad
  BY <1>9 DEF LateLoad
<1>10. CASE Hlt
  BY <1>10 DEF Hlt
<1>11. CASE UNCHANGED vars
  BY <1>11 DEF vars
<1> QED
  BY <1>1, <1>2, <1>3, <1>4, <1>5, <1>6, <1>7, <1>8, <1>9, <1>10, <1>11
  DEF Next, Reader

\* Every variable keeps its type in every behaviour: head, tail and slot never
\* leave the buffer, whatever the handler does between two steps of the reader.
THEOREM TypeCorrect == Spec => []TypeOK
<1>1. Inv => TypeOK
  BY DEF Inv
<1> QED
  BY <1>1, InitInv, StepInv, PTL DEF Spec

\* The slot kfifo_get is taking is a written slot, the oldest one until tail
\* moves, and the slot the full test keeps free after that.
THEOREM SlotSafe == Spec => []SlotInv
<1>1. Inv => SlotInv
  BY DEF Inv
<1> QED
  BY <1>1, InitInv, StepInv, PTL DEF Spec

-----------------------------------------------------------------------------
(* The handler and the slot being taken.                                   *)

\* The slot being taken is never the slot kfifo_put would write next.
LEMMA SlotNotNext ==
    ASSUME Inv, ~Full, pc \in {"load", "store", "advance", "lateLoad"}
    PROVE  slot # head
<1> USE DEF Inv, TypeOK, SlotInv
<1>1. CASE pc = "lateLoad"
  <2>1. tail = Succ(slot)
    BY <1>1
  <2> QED
    BY <2>1 DEF Full
<1>2. CASE pc # "lateLoad"
  BY <1>2
<1> QED
  BY <1>1, <1>2

\* kfifo_put never writes the slot a reader is in the middle of taking, in
\* either order the compiler may give the reader's two accesses.
THEOREM HandlerSparesSlot == Spec => NoOverwrite
<1> DEFINE Taking == pc \in {"load", "store", "advance", "lateLoad"}
           Spares == Taking => (buffer'[slot] = buffer[slot])
<1>1. Inv /\ [Next]_vars => [Spares]_vars
  <2> SUFFICES ASSUME Inv, [Next]_vars, Taking
               PROVE  buffer'[slot] = buffer[slot]
    OBVIOUS
  <2>1. ASSUME NEW ch \in Chars, KeyIrq(ch) PROVE buffer'[slot] = buffer[slot]
    <3>1. CASE Full
      BY <2>1, <3>1 DEF KeyIrq, KfifoPut
    <3>2. CASE ~Full
      <4>1. slot # head
        BY <3>2, SlotNotNext
      <4>2. buffer' = [buffer EXCEPT ![head] = ch]
        BY <2>1, <3>2 DEF KeyIrq, KfifoPut
      <4> QED
        BY <4>1, <4>2 DEF Inv, TypeOK
    <3> QED
      BY <3>1, <3>2
  <2>2. ASSUME ~\E ch \in Chars : KeyIrq(ch) PROVE buffer' = buffer
    BY <2>2 DEF Next, Reader, OtherIrq, Enter, TestEmpty, TestSome, Load, Store,
                Advance, LateLoad, Hlt, vars
  <2> QED
    BY <2>1, <2>2
<1> QED
  BY <1>1, InitInv, StepInv, PTL DEF Spec, NoOverwrite
-----------------------------------------------------------------------------
(* The ring implements the abstract queue.                                 *)

LEMMA OccupancyBound ==
    Inv => /\ Occupancy \in 0 .. KFIFO_SIZE - 1
           /\ Contents \in Seq(Chars \cup {NoChar})
           /\ Len(Contents) = Occupancy
           /\ Full <=> Occupancy = KFIFO_SIZE - 1
           /\ head = tail <=> Contents = <<>>
<1> SUFFICES ASSUME Inv
             PROVE  /\ Occupancy \in 0 .. KFIFO_SIZE - 1
                    /\ Contents \in Seq(Chars \cup {NoChar})
                    /\ Len(Contents) = Occupancy
                    /\ Full <=> Occupancy = KFIFO_SIZE - 1
                    /\ head = tail <=> Contents = <<>>
  OBVIOUS
<1> USE SizeAssumption DEF Inv, TypeOK
<1>1. Occupancy \in 0 .. KFIFO_SIZE - 1
  BY DEF Occupancy, Slots
<1>2. \A i \in 1 .. Occupancy : (tail + i - 1) % KFIFO_SIZE \in Slots
  BY <1>1 DEF Slots
<1>3. Contents \in Seq(Chars \cup {NoChar}) /\ Len(Contents) = Occupancy
  BY <1>1, <1>2 DEF Contents
<1>4. Full <=> Occupancy = KFIFO_SIZE - 1
  BY SuccWraps DEF Full, Occupancy, Slots
<1>5. head = tail <=> Occupancy = 0
  BY DEF Occupancy, Slots
<1>6. head = tail <=> Contents = <<>>
  BY <1>1, <1>3, <1>5
<1> QED
  BY <1>1, <1>3, <1>4, <1>6

LEMMA ContentsNext ==
    Inv' => (Contents \in Seq(Chars \cup {NoChar}) /\ Len(Contents) = Occupancy)'
<1>1. Inv => Contents \in Seq(Chars \cup {NoChar}) /\ Len(Contents) = Occupancy
  BY OccupancyBound
<1> QED
  BY <1>1, PTL

\* A put into a ring with room appends to the queue.
LEMMA PutAppends ==
    ASSUME Inv, NEW ch \in Chars, ~Full, KeyIrq(ch)
    PROVE  Contents' = Append(Contents, ch)
<1> USE SizeAssumption DEF Inv, TypeOK
<1>1. /\ buffer' = [buffer EXCEPT ![head] = ch]
      /\ head' = Succ(head)
      /\ tail' = tail
  BY DEF KeyIrq, KfifoPut
<1>2. Occupancy \in 0 .. KFIFO_SIZE - 2 /\ Len(Contents) = Occupancy
  BY OccupancyBound
<1>a. Succ(head) = IF head = KFIFO_SIZE - 1 THEN 0 ELSE head + 1
  BY SuccWraps
<1>3. Occupancy' = Occupancy + 1
  BY <1>1, <1>a DEF Full, Occupancy, Slots
<1>4. (tail + Occupancy) % KFIFO_SIZE = head
  <2>1. tail + Occupancy = IF tail <= head THEN head ELSE head + KFIFO_SIZE
    BY DEF Occupancy, Slots
  <2>2. tail + Occupancy \in Nat /\ tail + Occupancy < 2 * KFIFO_SIZE
    BY <2>1 DEF Slots
  <2>3. (tail + Occupancy) % KFIFO_SIZE
          = IF tail + Occupancy < KFIFO_SIZE
            THEN tail + Occupancy ELSE tail + Occupancy - KFIFO_SIZE
    BY <1>2, <2>2, SizeAssumption DEF Slots
  <2> QED
    BY <2>1, <2>3 DEF Slots
<1>5. \A i \in 1 .. Occupancy : /\ (tail + i - 1) % KFIFO_SIZE \in Slots
                                /\ (tail + i - 1) % KFIFO_SIZE # head
  <2> SUFFICES ASSUME NEW i \in 1 .. Occupancy
               PROVE  /\ (tail + i - 1) % KFIFO_SIZE \in Slots
                      /\ (tail + i - 1) % KFIFO_SIZE # head
    OBVIOUS
  <2>1. (tail + i - 1) % KFIFO_SIZE = IF tail + i - 1 < KFIFO_SIZE
                                      THEN tail + i - 1
                                      ELSE tail + i - 1 - KFIFO_SIZE
    <3>1. tail + i - 1 \in Nat /\ tail + i - 1 < 2 * KFIFO_SIZE
      BY <1>2 DEF Slots
    <3> QED
      BY <1>2, <3>1, SizeAssumption DEF Slots
  <2> QED
    BY <1>2, <2>1 DEF Occupancy, Slots
<1>6. \A i \in 1 .. Occupancy + 1 :
        buffer'[(tail + i - 1) % KFIFO_SIZE]
          = IF i <= Occupancy THEN buffer[(tail + i - 1) % KFIFO_SIZE] ELSE ch
  <2> SUFFICES ASSUME NEW i \in 1 .. Occupancy + 1
               PROVE  buffer'[(tail + i - 1) % KFIFO_SIZE]
                        = IF i <= Occupancy
                          THEN buffer[(tail + i - 1) % KFIFO_SIZE] ELSE ch
    OBVIOUS
  <2>1. CASE i <= Occupancy
    BY <1>1, <1>2, <1>5, <2>1
  <2>2. CASE i = Occupancy + 1
    <3>1. tail + i - 1 = tail + Occupancy
      BY <1>2, <2>2 DEF Slots
    <3> QED
      BY <1>1, <1>2, <1>4, <2>2, <3>1
  <2> QED
    BY <1>2, <2>1, <2>2
<1>7. /\ Contents' \in Seq(Chars \cup {NoChar})
      /\ Len(Contents') = Occupancy + 1
      /\ \A i \in 1 .. Occupancy + 1 :
           Contents'[i] = IF i <= Occupancy
                          THEN buffer[(tail + i - 1) % KFIFO_SIZE] ELSE ch
  <2>1. Inv'
    BY StepInv DEF Next
  <2>2. Contents' \in Seq(Chars \cup {NoChar}) /\ Len(Contents') = Occupancy'
    BY <2>1, ContentsNext
  <2>3. \A i \in 1 .. Occupancy' :
          Contents'[i] = buffer'[(tail' + i - 1) % KFIFO_SIZE]
    BY DEF Contents
  <2>4. \A i \in 1 .. Occupancy + 1 :
          Contents'[i] = buffer'[(tail + i - 1) % KFIFO_SIZE]
    BY <1>1, <1>3, <2>3
  <2> QED
    BY <1>3, <1>6, <2>2, <2>4
<1>8. Contents \in Seq(Chars \cup {NoChar})
  BY OccupancyBound
<1>9. /\ Append(Contents, ch) \in Seq(Chars \cup {NoChar})
      /\ Len(Append(Contents, ch)) = Occupancy + 1
      /\ \A i \in 1 .. Occupancy + 1 :
           Append(Contents, ch)[i] = IF i <= Occupancy
                                     THEN Contents[i] ELSE ch
  BY <1>2, <1>8, AppendProperties
<1>10. \A i \in 1 .. Occupancy : Contents[i] = buffer[(tail + i - 1) % KFIFO_SIZE]
  BY DEF Contents
<1>11. \A i \in 1 .. Occupancy + 1 : Contents'[i] = Append(Contents, ch)[i]
  BY <1>2, <1>7, <1>9, <1>10
<1> QED
  BY <1>7, <1>9, <1>11, SeqEqual

\* Moving tail takes the head off the queue, which is the slot it left.
LEMMA TakeRemoves ==
    ASSUME Inv, head # tail, tail' = Succ(tail), UNCHANGED <<buffer, head>>
    PROVE  /\ Contents # <<>>
           /\ Head(Contents) = buffer[tail]
           /\ Contents' = Tail(Contents)
<1> USE SizeAssumption DEF Inv, TypeOK
<1>1. Occupancy \in 1 .. KFIFO_SIZE - 1
  BY DEF Occupancy, Slots
<1>2. Contents \in Seq(Chars \cup {NoChar}) /\ Len(Contents) = Occupancy
  BY OccupancyBound
<1>a. Succ(tail) = IF tail = KFIFO_SIZE - 1 THEN 0 ELSE tail + 1
  BY SuccWraps
<1>3. Occupancy' = Occupancy - 1
  BY <1>a DEF Occupancy, Slots
<1>4. Head(Contents) = buffer[tail]
  <2>1. (tail + 1 - 1) % KFIFO_SIZE = tail
    BY TurnWraps DEF Slots
  <2> QED
    BY <1>1, <1>2, <2>1 DEF Contents
<1>5. \A i \in 1 .. Occupancy - 1 :
        (tail' + i - 1) % KFIFO_SIZE = (tail + (i + 1) - 1) % KFIFO_SIZE
  <2> SUFFICES ASSUME NEW i \in 1 .. Occupancy - 1
               PROVE  (tail' + i - 1) % KFIFO_SIZE = (tail + i) % KFIFO_SIZE
    BY <1>1 DEF Slots
  <2>1. /\ tail + i \in Nat /\ tail + i < 2 * KFIFO_SIZE
        /\ tail' + i - 1 \in Nat /\ tail' + i - 1 < 2 * KFIFO_SIZE
    BY <1>1, <1>a DEF Slots
  <2>2. /\ (tail + i) % KFIFO_SIZE = IF tail + i < KFIFO_SIZE
                                    THEN tail + i ELSE tail + i - KFIFO_SIZE
        /\ (tail' + i - 1) % KFIFO_SIZE = IF tail' + i - 1 < KFIFO_SIZE
                                         THEN tail' + i - 1
                                         ELSE tail' + i - 1 - KFIFO_SIZE
    BY <1>1, <1>a, <2>1, SizeAssumption DEF Slots
  <2> QED
    BY <1>1, <1>a, <2>2 DEF Slots
<1>6. Contents' = [i \in 1 .. Occupancy - 1 |->
                     buffer[(tail + (i + 1) - 1) % KFIFO_SIZE]]
  BY <1>3, <1>5 DEF Contents
<1>7. Tail(Contents) = [i \in 1 .. Occupancy - 1 |->
                          buffer[(tail + (i + 1) - 1) % KFIFO_SIZE]]
  BY <1>1, <1>2 DEF Contents
<1> QED
  BY <1>1, <1>2, <1>4, <1>6, <1>7

LEMMA InitMaps == Init => CQ!Init
<1> SUFFICES ASSUME Init PROVE CQ!Init
  OBVIOUS
<1>1. Contents = <<>>
  BY InitInv, OccupancyBound DEF Init
<1> QED
  BY <1>1 DEF Init, CQ!Init, QueueRd, QueueGot

\* Steps that leave the ring and the mapped reader alone are stuttering steps.
LEMMA StepMaps == Inv /\ [Next]_vars => [CQ!Next]_(CQ!vars)
<1> SUFFICES ASSUME Inv, [Next]_vars PROVE [CQ!Next]_(CQ!vars)
  OBVIOUS
<1>s. ASSUME UNCHANGED <<buffer, head, tail>> PROVE UNCHANGED Contents
  BY <1>s DEF Contents, Occupancy
<1>1. ASSUME NEW ch \in Chars, KeyIrq(ch) PROVE CQ!Type(ch)
  <2>1. UNCHANGED <<QueueRd, QueueGot>>
    <3>1. pc = "lateLoad" => buffer'[slot] = buffer[slot]
      <4>1. CASE Full
        BY <1>1, <4>1 DEF KeyIrq, KfifoPut
      <4>2. CASE ~Full /\ pc = "lateLoad"
        BY <1>1, <4>2, SlotNotNext DEF KeyIrq, KfifoPut, Inv, TypeOK
      <4> QED
        BY <4>1, <4>2
    <3>2. /\ pc' = AfterIrq /\ slot' = slot /\ c' = c /\ blocking' = blocking
      BY <1>1 DEF KeyIrq
    <3>3. UNCHANGED QueueRd
      BY <3>2 DEF AfterIrq, QueueRd
    <3>4. UNCHANGED QueueGot
      BY <3>1, <3>2 DEF AfterIrq, QueueGot
    <3> QED
      BY <3>3, <3>4
  <2>2. CASE Full
    <3>1. UNCHANGED Contents
      BY <1>1, <1>s, <2>2 DEF KeyIrq, KfifoPut
    <3>2. ~(Len(Contents) < KFIFO_SIZE - 1)
      BY <2>2, OccupancyBound, SizeAssumption
    <3> QED
      BY <1>1, <2>1, <2>2, <3>1, <3>2 DEF CQ!Type, KeyIrq, KfifoPut
  <2>3. CASE ~Full
    <3>1. Contents' = Append(Contents, ch)
      BY <1>1, <2>3, PutAppends
    <3>2. Len(Contents) < KFIFO_SIZE - 1
      BY <2>3, OccupancyBound, SizeAssumption
    <3>3. dropped' = FALSE
      BY <1>1, <2>3 DEF KeyIrq, KfifoPut, Full
    <3> QED
      BY <2>1, <3>1, <3>2, <3>3 DEF CQ!Type
  <2> QED
    BY <2>2, <2>3
<1>2. CASE OtherIrq
  BY <1>s, <1>2 DEF OtherIrq, AfterIrq, CQ!vars, QueueRd, QueueGot
<1>3. ASSUME NEW wait \in BOOLEAN, Enter(wait)
      PROVE  CQ!Call(IF wait THEN "getchar" ELSE "try")
  BY <1>s, <1>3 DEF Enter, CQ!Call, QueueRd, QueueGot
<1>4. CASE TestEmpty
  <2>1. UNCHANGED Contents /\ Contents = <<>>
    BY <1>s, <1>4, OccupancyBound DEF TestEmpty
  <2>2. CASE blocking
    BY <1>4, <2>1, <2>2 DEF TestEmpty, CQ!vars, QueueRd, QueueGot
  <2>3. CASE ~blocking
    BY <1>4, <2>1, <2>3 DEF TestEmpty, CQ!GiveUp, CQ!Next, QueueRd, QueueGot
  <2> QED
    BY <2>2, <2>3
<1>5. CASE TestSome
  <2>1. QueueRd' = QueueRd
    BY <1>5 DEF TestSome, QueueRd
  <2>2. QueueGot' = QueueGot
    BY <1>5 DEF TestSome, QueueGot
  <2> QED
    BY <1>s, <1>5, <2>1, <2>2 DEF TestSome, CQ!vars
<1>6. CASE Load
  <2>1. c = NoChar
    BY <1>6 DEF Load, Inv, SlotInv
  <2> QED
    BY <1>s, <1>6, <2>1 DEF Load, CQ!vars, QueueRd, QueueGot
<1>7. CASE Store
  <2>1. slot = tail /\ head # tail /\ c = buffer[slot]
    BY <1>7 DEF Store, Inv, SlotInv
  <2>2. /\ Contents # <<>> /\ Head(Contents) = c /\ Contents' = Tail(Contents)
    BY <1>7, <2>1, TakeRemoves DEF Store
  <2>3. QueueRd # "away" /\ QueueRd' = "away" /\ QueueGot' = c
    BY <1>7 DEF Store, QueueRd, QueueGot
  <2> QED
    BY <1>7, <2>2, <2>3 DEF CQ!Deliver, CQ!Next, Store
<1>8. CASE Advance
  <2>1. slot = tail /\ head # tail
    BY <1>8 DEF Advance, Inv, SlotInv
  <2>2. /\ Contents # <<>> /\ Head(Contents) = buffer[slot]
        /\ Contents' = Tail(Contents)
    BY <1>8, <2>1, TakeRemoves DEF Advance
  <2>3. QueueRd # "away" /\ QueueRd' = "away" /\ QueueGot' = buffer[slot]
    BY <1>8 DEF Advance, QueueRd, QueueGot
  <2> QED
    BY <1>8, <2>2, <2>3 DEF CQ!Deliver, CQ!Next, Advance
<1>9. CASE LateLoad
  BY <1>s, <1>9 DEF LateLoad, CQ!vars, QueueRd, QueueGot
<1>10. CASE Hlt
  BY <1>s, <1>10 DEF Hlt, CQ!vars, QueueRd, QueueGot
<1>11. CASE UNCHANGED vars
  BY <1>s, <1>11 DEF vars, CQ!vars, QueueRd, QueueGot
<1> QED
  BY <1>1, <1>2, <1>3, <1>4, <1>5, <1>6, <1>7, <1>8, <1>9, <1>10, <1>11
  DEF Next, Reader, CQ!Next

\* The ring implements the safety part of the abstract queue: whatever the size,
\* the characters and the interleaving, getchar and try_getchar deliver what was
\* typed, in order and at most once, and only a full ring drops a character.
THEOREM RingIsFifo == Spec => Fifo
<1> QED
  BY InitInv, StepInv, InitMaps, StepMaps, PTL DEF Spec, Fifo, CQ!Safe

-----------------------------------------------------------------------------
(* The ring of pipe.c.                                                     *)

\* The place n behind another one, n being at most a turn.
LEMMA PlaceTurns ==
    ASSUME NEW pos \in Places, NEW n \in 0 .. PIPE_BUF_SIZE
    PROVE  /\ Place(pos, n) \in Places
           /\ Place(pos, n) = IF pos + n < PIPE_BUF_SIZE THEN pos + n
                              ELSE pos + n - PIPE_BUF_SIZE
<1> DEFINE x == pos + n
<1>1. x \in Nat /\ x < 2 * PIPE_BUF_SIZE
  BY PipeAssumption DEF Places
<1>2. x % PIPE_BUF_SIZE = IF x < PIPE_BUF_SIZE THEN x ELSE x - PIPE_BUF_SIZE
  <2> HIDE DEF x
  <2> QED
    BY <1>1, PipeAssumption
<1>3. Place(pos, n) = IF x < PIPE_BUF_SIZE THEN x ELSE x - PIPE_BUF_SIZE
  BY <1>2 DEF Place
<1> QED
  BY <1>1, <1>3, PipeAssumption DEF Places

\* Going on from a place is going further from where it was reached.
LEMMA PlaceAdds ==
    ASSUME NEW pos \in Places, NEW a \in 0 .. PIPE_BUF_SIZE,
           NEW b \in 0 .. PIPE_BUF_SIZE, a + b <= PIPE_BUF_SIZE
    PROVE  Place(Place(pos, a), b) = Place(pos, a + b)
<1>1. a + b \in 0 .. PIPE_BUF_SIZE
  BY PipeAssumption
<1>2. Place(pos, a) \in Places
  BY PlaceTurns
<1>3. /\ Place(pos, a) = IF pos + a < PIPE_BUF_SIZE THEN pos + a
                         ELSE pos + a - PIPE_BUF_SIZE
      /\ Place(pos, a + b) = IF pos + (a + b) < PIPE_BUF_SIZE THEN pos + (a + b)
                             ELSE pos + (a + b) - PIPE_BUF_SIZE
      /\ Place(Place(pos, a), b) =
           IF Place(pos, a) + b < PIPE_BUF_SIZE THEN Place(pos, a) + b
           ELSE Place(pos, a) + b - PIPE_BUF_SIZE
  BY <1>1, <1>2, PlaceTurns
<1> QED
  BY <1>3, PipeAssumption DEF Places

\* What lies before the writing position is a turn behind it, less the distance.
LEMMA DistanceTurns ==
    ASSUME NEW pos \in Places, NEW a \in 0 .. PIPE_BUF_SIZE,
           NEW b \in 0 .. PIPE_BUF_SIZE - 1
    PROVE  Distance(Place(pos, a), Place(pos, b)) =
             IF a <= b THEN b - a ELSE b - a + PIPE_BUF_SIZE
<1>1. /\ Place(pos, a) = IF pos + a < PIPE_BUF_SIZE THEN pos + a
                         ELSE pos + a - PIPE_BUF_SIZE
      /\ Place(pos, b) = IF pos + b < PIPE_BUF_SIZE THEN pos + b
                         ELSE pos + b - PIPE_BUF_SIZE
  BY PlaceTurns, PipeAssumption
<1> QED
  BY <1>1, PipeAssumption DEF Distance, Places

LEMMA DistanceInTurn ==
    ASSUME NEW pos \in Places, NEW k \in Places
    PROVE  Distance(pos, k) \in 0 .. PIPE_BUF_SIZE - 1
  BY PipeAssumption DEF Distance, Places

-----------------------------------------------------------------------------
(* The inductive invariant: types, and the agreement of positions and      *)
(* count, without which a write would not know what it may overwrite.      *)

PipeInv == PipeTypeOK /\ PosInv

LEMMA UnreadAre ==
    ASSUME PipeInv
    PROVE  /\ Unread \in Seq(Bytes)
           /\ Len(Unread) = count
           /\ \A i \in 1 .. count : Unread[i] = ring[Place(read_pos, i - 1)]
<1>1. \A i \in 1 .. count : Place(read_pos, i - 1) \in Places
  BY PlaceTurns, PipeAssumption DEF PipeInv, PipeTypeOK
<1>2. \A i \in 1 .. count : ring[Place(read_pos, i - 1)] \in Bytes
  BY <1>1 DEF PipeInv, PipeTypeOK
<1> QED
  BY <1>2 DEF Unread, PipeInv, PipeTypeOK

LEMMA UnreadNext ==
    PipeInv' => /\ (Unread \in Seq(Bytes))'
                /\ (Len(Unread) = count)'
                /\ (\A i \in 1 .. count : Unread[i] = ring[Place(read_pos, i - 1)])'
<1>1. PipeInv => /\ Unread \in Seq(Bytes)
             /\ Len(Unread) = count
             /\ \A i \in 1 .. count : Unread[i] = ring[Place(read_pos, i - 1)]
  BY UnreadAre
<1> QED
  BY <1>1, PTL

LEMMA PipeInitInv == PipeInit => PipeInv
<1> SUFFICES ASSUME PipeInit PROVE PipeTypeOK /\ PosInv
  BY DEF PipeInv
<1>1. 0 \in Places /\ PIPE_BUF_SIZE \in Nat
  BY PipeAssumption DEF Places
<1>2. Place(0, 0) = 0
  BY <1>1, PlaceTurns, PipeAssumption
<1>3. <<>> \in Seq(Bytes)
  OBVIOUS
<1> QED
  BY <1>1, <1>2, <1>3, PipeAssumption DEF PipeInit, PipeTypeOK, PosInv

\* A write keeps the invariant.
LEMMA WriteInv ==
    ASSUME PipeInv, NEW bytes \in Writes, PipeWrite(bytes)
    PROVE  PipeInv'
<1> DEFINE n == Room(Len(bytes))
<1>1. bytes \in Seq(Bytes) /\ Len(bytes) \in Nat
  BY PipeAssumption
<1>2. /\ n \in 0 .. PIPE_BUF_SIZE - count
      /\ n <= Len(bytes)
      /\ count \in 0 .. PIPE_BUF_SIZE /\ count + n \in 0 .. PIPE_BUF_SIZE
  BY <1>1, PipeAssumption DEF Room, PipeInv, PipeTypeOK
<1>3. n \in 0 .. PIPE_BUF_SIZE
  BY <1>2, PipeAssumption
<1>4. /\ ring' = [k \in Places |-> IF Distance(write_pos, k) < n
                                     THEN bytes[Distance(write_pos, k) + 1]
                                     ELSE ring[k]]
      /\ write_pos' = Place(write_pos, n) /\ count' = count + n /\ ret' = n
      /\ data' = <<>> /\ read_pos' = read_pos /\ closed' = closed
  BY DEF PipeWrite
<1> HIDE DEF n
<1>5. ring' \in [Places -> Bytes]
  <2>1. ASSUME NEW k \in Places
        PROVE  (IF Distance(write_pos, k) < n THEN bytes[Distance(write_pos, k) + 1]
                ELSE ring[k]) \in Bytes
    <3>1. Distance(write_pos, k) \in 0 .. PIPE_BUF_SIZE - 1
      BY DistanceInTurn DEF PipeInv, PipeTypeOK
    <3>2. Distance(write_pos, k) < n => Distance(write_pos, k) + 1 \in 1 .. Len(bytes)
      BY <1>1, <1>2, <3>1, PipeAssumption
    <3>3. CASE Distance(write_pos, k) < n
      BY <1>1, <3>2, <3>3
    <3>4. CASE ~(Distance(write_pos, k) < n)
      BY <3>4 DEF PipeInv, PipeTypeOK
    <3> QED
      BY <3>3, <3>4
  <2> QED
    BY <1>4, <2>1
<1>6. write_pos' \in Places
  BY <1>3, <1>4, PlaceTurns DEF PipeInv, PipeTypeOK
<1>7. PosInv'
  <2>1. Place(Place(read_pos, count), n) = Place(read_pos, count + n)
    BY <1>2, <1>3, PlaceAdds DEF PipeInv, PipeTypeOK
  <2> QED
    BY <1>4, <2>1 DEF PosInv, PipeInv
<1>8. <<>> \in Seq(Bytes) /\ n \in Int
  BY <1>3
<1> QED
  BY <1>2, <1>4, <1>5, <1>6, <1>7, <1>8 DEF PipeInv, PipeTypeOK

\* A read keeps the invariant.
LEMMA ReadInv ==
    ASSUME PipeInv, NEW len \in Reads, PipeRead(len)
    PROVE  PipeInv'
<1> DEFINE n == Stock(len)
<1>1. /\ n \in 0 .. count /\ count \in 0 .. PIPE_BUF_SIZE
      /\ count - n \in 0 .. PIPE_BUF_SIZE /\ n \in 0 .. PIPE_BUF_SIZE
  BY PipeAssumption DEF Stock, PipeInv, PipeTypeOK
<1>2. /\ data' = [i \in 1 .. n |-> ring[Place(read_pos, i - 1)]]
      /\ read_pos' = Place(read_pos, n) /\ count' = count - n /\ ret' = n
      /\ ring' = ring /\ write_pos' = write_pos /\ closed' = closed
  BY DEF PipeRead
<1> HIDE DEF n
<1>3. data' \in Seq(Bytes)
  <2>1. \A i \in 1 .. n : Place(read_pos, i - 1) \in Places
    BY <1>1, PlaceTurns, PipeAssumption DEF PipeInv, PipeTypeOK
  <2>2. \A i \in 1 .. n : ring[Place(read_pos, i - 1)] \in Bytes
    BY <2>1 DEF PipeInv, PipeTypeOK
  <2> QED
    BY <1>1, <1>2, <2>2
<1>4. read_pos' \in Places
  BY <1>1, <1>2, PlaceTurns DEF PipeInv, PipeTypeOK
<1>5. PosInv'
  <2>1. Place(Place(read_pos, n), count - n) = Place(read_pos, n + (count - n))
    BY <1>1, PlaceAdds, PipeAssumption DEF PipeInv, PipeTypeOK
  <2>2. n + (count - n) = count
    BY <1>1, PipeAssumption
  <2> QED
    BY <1>2, <2>1, <2>2 DEF PosInv, PipeInv
<1> QED
  BY <1>1, <1>2, <1>3, <1>4, <1>5 DEF PipeInv, PipeTypeOK

LEMMA PipeStepInv == PipeInv /\ [PipeNext]_pipeVars => PipeInv'
<1> SUFFICES ASSUME PipeInv, [PipeNext]_pipeVars PROVE PipeInv'
  OBVIOUS
<1>1. ASSUME NEW bytes \in Writes, PipeWrite(bytes) PROVE PipeInv'
  BY <1>1, WriteInv
<1>2. ASSUME NEW len \in Reads, PipeRead(len) PROVE PipeInv'
  BY <1>2, ReadInv
<1>3. CASE PipeDestroy
  BY <1>3 DEF PipeDestroy, PipeInv, PipeTypeOK, PosInv
<1>4. CASE Refuse
  BY <1>4 DEF Refuse, PipeInv, PipeTypeOK, PosInv
<1>5. CASE PipeCreate
  <2>1. 0 \in Places /\ 0 \in 0 .. PIPE_BUF_SIZE
    BY PipeAssumption DEF Places
  <2>2. Place(0, 0) = 0
    BY <2>1, PlaceTurns, PipeAssumption
  <2> QED
    BY <1>5, <2>1, <2>2 DEF PipeCreate, PipeInv, PipeTypeOK, PosInv
<1>6. CASE UNCHANGED pipeVars
  BY <1>6 DEF pipeVars, PipeInv, PipeTypeOK, PosInv
<1> QED
  BY <1>1, <1>2, <1>3, <1>4, <1>5, <1>6 DEF PipeNext

\* The ring, its positions and the answers keep their types.
THEOREM PipeTypeCorrect == PipeSpec => []PipeTypeOK
<1>1. PipeInv => PipeTypeOK
  BY DEF PipeInv
<1> QED
  BY <1>1, PipeInitInv, PipeStepInv, PTL DEF PipeSpec

\* The two positions and the count never disagree (pipe.c:24-43).
THEOREM PositionsAgree == PipeSpec => []PosInv
<1>1. PipeInv => PosInv
  BY DEF PipeInv
<1> QED
  BY <1>1, PipeInitInv, PipeStepInv, PTL DEF PipeSpec

-----------------------------------------------------------------------------
(* The refinement.                                                         *)

\* A write appends what it took of the bytes, and overwrites nothing unread.
LEMMA WriteAppends ==
    ASSUME PipeInv, NEW bytes \in Writes, PipeWrite(bytes)
    PROVE  Unread' = Unread \o SubSeq(bytes, 1, Room(Len(bytes)))
<1> DEFINE n == Room(Len(bytes))
           taken == SubSeq(bytes, 1, n)
<1>1. bytes \in Seq(Bytes) /\ Len(bytes) \in Nat
  BY PipeAssumption
<1>2. /\ n \in 0 .. PIPE_BUF_SIZE - count
      /\ n \in 0 .. Len(bytes)
      /\ count \in 0 .. PIPE_BUF_SIZE
  BY <1>1, PipeAssumption DEF Room, PipeInv, PipeTypeOK
<1>3. /\ ring' = [k \in Places |-> IF Distance(write_pos, k) < n
                                     THEN bytes[Distance(write_pos, k) + 1]
                                     ELSE ring[k]]
      /\ count' = count + n /\ read_pos' = read_pos
  BY DEF PipeWrite
<1> HIDE DEF n
<1>4. /\ taken \in Seq(Bytes) /\ Len(taken) = n
      /\ \A i \in 1 .. n : taken[i] = bytes[i]
  <2>1. \A i \in 1 .. n : bytes[i] \in Bytes
    BY <1>1, <1>2
  <2>2. 1 \in Int /\ n \in Int
    BY <1>2
  <2>3. /\ SubSeq(bytes, 1, n) \in Seq(Bytes)
        /\ Len(SubSeq(bytes, 1, n)) = IF 1 <= n THEN n - 1 + 1 ELSE 0
        /\ \A i \in 1 .. n - 1 + 1 : SubSeq(bytes, 1, n)[i] = bytes[1 + i - 1]
    BY <2>1, <2>2, SubSeqProperties
  <2> QED
    BY <1>2, <2>3
<1> HIDE DEF taken
<1>5. Unread \in Seq(Bytes) /\ Len(Unread) = count
      /\ \A i \in 1 .. count : Unread[i] = ring[Place(read_pos, i - 1)]
  BY UnreadAre
<1>6. /\ Unread \o taken \in Seq(Bytes)
      /\ Len(Unread \o taken) = count + n
      /\ \A i \in 1 .. count + n :
           (Unread \o taken)[i] = IF i <= count THEN Unread[i] ELSE taken[i - count]
  BY <1>4, <1>5, ConcatProperties
<1>7. PipeInv'
  BY WriteInv
<1>8. /\ Unread' \in Seq(Bytes) /\ Len(Unread') = count + n
      /\ \A i \in 1 .. count + n : Unread'[i] = ring'[Place(read_pos, i - 1)]
  BY <1>3, <1>7, UnreadNext DEF Place
<1>9. ASSUME NEW i \in 1 .. count + n
      PROVE  Unread'[i] = (Unread \o taken)[i]
  <2> DEFINE k == Place(read_pos, i - 1)
  <2>1. i - 1 \in 0 .. PIPE_BUF_SIZE - 1 /\ i - 1 \in 0 .. PIPE_BUF_SIZE
    BY <1>2, PipeAssumption
  <2>2. k \in Places /\ write_pos = Place(read_pos, count) /\ read_pos \in Places
    BY <2>1, PlaceTurns DEF PipeInv, PipeTypeOK, PosInv
  <2>3. Distance(write_pos, k) =
          IF count <= i - 1 THEN i - 1 - count ELSE i - 1 - count + PIPE_BUF_SIZE
    BY <1>2, <2>1, <2>2, DistanceTurns
  <2>4. Unread'[i] = IF Distance(write_pos, k) < n
                       THEN bytes[Distance(write_pos, k) + 1] ELSE ring[k]
    BY <1>3, <1>8, <2>2
  <2> HIDE DEF k
  <2>5. CASE i <= count
    <3>1. ~(Distance(write_pos, k) < n)
      BY <1>2, <2>3, <2>5, PipeAssumption
    <3>2. Unread'[i] = ring[k] /\ i \in 1 .. count
      BY <1>2, <2>4, <2>5, <3>1
    <3> QED
      BY <1>5, <1>6, <2>5, <3>2 DEF k
  <2>6. CASE i > count
    <3>1. Distance(write_pos, k) = i - 1 - count /\ i - 1 - count < n
          /\ i - count \in 1 .. n
      BY <1>2, <2>3, <2>6, PipeAssumption
    <3>2. Unread'[i] = bytes[i - count]
      <4>1. (i - 1 - count) + 1 = i - count
        BY <1>2
      <4> QED
        BY <2>4, <3>1, <4>1
    <3>3. (Unread \o taken)[i] = taken[i - count]
      BY <1>2, <1>6, <2>6
    <3> QED
      BY <1>4, <3>1, <3>2, <3>3
  <2>7. i \in Int /\ count \in Int
    BY <1>2
  <2>8. i <= count \/ i > count
    BY <2>7
  <2> QED
    BY <2>5, <2>6, <2>8
<1>10. Unread' = Unread \o taken
  BY <1>6, <1>8, <1>9, SeqEqual
<1> QED
  BY <1>10 DEF taken, n

\* A read gives the first bytes and leaves the others.
LEMMA ReadTakes ==
    ASSUME PipeInv, NEW len \in Reads, PipeRead(len)
    PROVE  /\ data' = SubSeq(Unread, 1, Stock(len))
           /\ Unread' = SubSeq(Unread, Stock(len) + 1, count)
<1> DEFINE n == Stock(len)
<1>1. n \in 0 .. count /\ count \in 0 .. PIPE_BUF_SIZE /\ n \in 0 .. PIPE_BUF_SIZE
  BY PipeAssumption DEF Stock, PipeInv, PipeTypeOK
<1>2. /\ data' = [i \in 1 .. n |-> ring[Place(read_pos, i - 1)]]
      /\ read_pos' = Place(read_pos, n) /\ count' = count - n /\ ring' = ring
  BY DEF PipeRead
<1> HIDE DEF n
<1>3. /\ Unread \in Seq(Bytes) /\ Len(Unread) = count
      /\ \A i \in 1 .. count : Unread[i] = ring[Place(read_pos, i - 1)]
  BY UnreadAre
<1>4. data' = SubSeq(Unread, 1, n)
  <2>1. \A i \in 1 .. n : Unread[i] \in Bytes /\ data'[i] = Unread[i]
    BY <1>1, <1>2, <1>3
  <2>2. 1 \in Int /\ n \in Int
    BY <1>1
  <2>3. /\ SubSeq(Unread, 1, n) \in Seq(Bytes)
        /\ Len(SubSeq(Unread, 1, n)) = IF 1 <= n THEN n - 1 + 1 ELSE 0
        /\ \A i \in 1 .. n - 1 + 1 : SubSeq(Unread, 1, n)[i] = Unread[1 + i - 1]
    BY <2>1, <2>2, SubSeqProperties
  <2>4. data' \in Seq(Bytes) /\ Len(data') = n
    <3>0. n \in Nat
      BY <1>1
    <3>1. ASSUME NEW i \in 1 .. n PROVE ring[Place(read_pos, i - 1)] \in Bytes
      <4>1. i \in 1 .. count
        BY <1>1
      <4>2. Unread[i] = ring[Place(read_pos, i - 1)]
        BY <1>3, <4>1
      <4> QED
        BY <2>1, <4>2
    <3>2. data' = [i \in 1 .. n |-> ring[Place(read_pos, i - 1)]]
      BY <1>2
    <3>3. data' \in [1 .. n -> Bytes]
      BY <3>1, <3>2, Zenon
    <3> QED
      BY <3>0, <3>3
  <2>5. /\ Len(SubSeq(Unread, 1, n)) = n
        /\ \A i \in 1 .. n : SubSeq(Unread, 1, n)[i] = data'[i]
    BY <1>1, <2>1, <2>3
  <2> QED
    BY <2>3, <2>4, <2>5, SeqEqual
<1>5. Unread' = SubSeq(Unread, n + 1, count)
  <2>1. PipeInv'
    BY ReadInv
  <2>2. /\ Unread' \in Seq(Bytes) /\ Len(Unread') = count - n
        /\ \A i \in 1 .. count - n : Unread'[i] = ring[Place(Place(read_pos, n), i - 1)]
    BY <1>2, <2>1, UnreadNext DEF Place
  <2>3. \A i \in n + 1 .. count : Unread[i] \in Bytes
    BY <1>1, <1>3
  <2>4. n + 1 \in Int /\ count \in Int
    BY <1>1
  <2>5. /\ SubSeq(Unread, n + 1, count) \in Seq(Bytes)
        /\ Len(SubSeq(Unread, n + 1, count)) =
             IF n + 1 <= count THEN count - (n + 1) + 1 ELSE 0
        /\ \A i \in 1 .. count - (n + 1) + 1 :
             SubSeq(Unread, n + 1, count)[i] = Unread[(n + 1) + i - 1]
    BY <2>3, <2>4, SubSeqProperties
  <2>6. /\ Len(SubSeq(Unread, n + 1, count)) = count - n
        /\ \A i \in 1 .. count - n :
             SubSeq(Unread, n + 1, count)[i] = Unread[n + i]
    BY <1>1, <2>5
  <2>7. ASSUME NEW i \in 1 .. count - n
        PROVE  Unread'[i] = Unread[n + i]
    <3>1. /\ i - 1 \in 0 .. PIPE_BUF_SIZE /\ n + (i - 1) <= PIPE_BUF_SIZE
          /\ n + (i - 1) = (n + i) - 1 /\ n + i \in 1 .. count
      BY <1>1, PipeAssumption
    <3>2. Place(Place(read_pos, n), i - 1) = Place(read_pos, n + (i - 1))
      BY <1>1, <3>1, PlaceAdds DEF PipeInv, PipeTypeOK
    <3>3. Unread[n + i] = ring[Place(read_pos, (n + i) - 1)]
      BY <1>3, <3>1
    <3> QED
      BY <2>2, <3>1, <3>2, <3>3
  <2> QED
    BY <2>2, <2>5, <2>6, <2>7, SeqEqual
<1> QED
  BY <1>4, <1>5 DEF n

LEMMA PipeInitMaps == PipeInit => Stream!Init
<1> SUFFICES ASSUME PipeInit PROVE Stream!Init
  OBVIOUS
<1>1. Unread \in Seq(Bytes) /\ Len(Unread) = 0
  BY PipeInitInv, UnreadAre DEF PipeInit
<1>2. Unread = <<>>
  BY <1>1
<1> QED
  BY <1>2 DEF PipeInit, Stream!Init

LEMMA PipeStepMaps == PipeInv /\ [PipeNext]_pipeVars => [Stream!Next]_(Stream!vars)
<1> SUFFICES ASSUME PipeInv, [PipeNext]_pipeVars PROVE [Stream!Next]_(Stream!vars)
  OBVIOUS
<1>0. Len(Unread) = count /\ count \in 0 .. PIPE_BUF_SIZE
  BY UnreadAre DEF PipeInv, PipeTypeOK
<1>s. ASSUME UNCHANGED <<ring, read_pos, count>> PROVE UNCHANGED Unread
  BY <1>s DEF Unread, Place
<1>1. ASSUME NEW bytes \in Writes, PipeWrite(bytes) PROVE Stream!Write(bytes)
  <2>1. Room(Len(bytes)) = Stream!Least(Len(bytes), PIPE_BUF_SIZE - Len(Unread))
    BY <1>0 DEF Room, Stream!Least
  <2>2. Unread' = Unread \o SubSeq(bytes, 1, Room(Len(bytes)))
    BY <1>1, WriteAppends
  <2>3. ret' = Room(Len(bytes)) /\ ~closed /\ data' = <<>> /\ closed' = closed
    BY <1>1 DEF PipeWrite
  <2> QED
    BY <2>1, <2>2, <2>3 DEF Stream!Write
<1>2. ASSUME NEW len \in Reads, PipeRead(len) PROVE Stream!Read(len)
  <2>1. Stock(len) = Stream!Least(len, Len(Unread))
    BY <1>0 DEF Stock, Stream!Least
  <2>2. /\ data' = SubSeq(Unread, 1, Stock(len))
        /\ Unread' = SubSeq(Unread, Stock(len) + 1, Len(Unread))
    BY <1>0, <1>2, ReadTakes
  <2>3. ret' = Stock(len) /\ ~closed /\ closed' = closed
    BY <1>2 DEF PipeRead
  <2> QED
    BY <2>1, <2>2, <2>3 DEF Stream!Read
<1>3. CASE PipeDestroy
  BY <1>s, <1>3 DEF PipeDestroy, Stream!Destroy, Stream!Next
<1>4. CASE Refuse
  BY <1>s, <1>4 DEF Refuse, Stream!Refuse, Stream!Next
<1>5. CASE PipeCreate
  <2>1. PipeInv' /\ count' = 0
    BY <1>5, PipeStepInv DEF PipeNext, PipeCreate
  <2>2. Unread' \in Seq(Bytes) /\ Len(Unread') = 0
    BY <2>1, UnreadNext
  <2>3. Unread' = <<>>
    BY <2>2
  <2> QED
    BY <1>5, <2>3 DEF PipeCreate, Stream!Create, Stream!Next
<1>6. CASE UNCHANGED pipeVars
  BY <1>s, <1>6 DEF pipeVars, Stream!vars
<1> QED
  BY <1>1, <1>2, <1>3, <1>4, <1>5, <1>6 DEF PipeNext, Stream!Next

\* The ring of pipe.c is a stream of bytes, whatever its size: writes and reads cut
\* short, turns of the ring and reused blocks included.
THEOREM RingIsStream == PipeSpec => InOrder
<1> QED
  BY PipeInitInv, PipeInitMaps, PipeStepInv, PipeStepMaps, PTL DEF PipeSpec, InOrder, Stream!Spec

-----------------------------------------------------------------------------
(* The decoder of keyboard.c: the tables.                                  *)

\* What a key queues: one character, or nothing.
StrokeOrNothing(t) == t = <<>> \/ t \in Strokes

LEMMA ArrowTypes == \A sc : StrokeOrNothing(Arrow(sc))
  BY DEF Arrow, StrokeOrNothing, Strokes, Inks

LEMMA UpperIs == Upper("q") = "Q" /\ Upper("a") = "A"
  BY DEF Upper

\* Two flags, shift and caps lock, make of a plain key what is on it.
LEMMA DecodesAsTyped ==
    ASSUME NEW key, key.ext = FALSE, shift_down \in BOOLEAN, caps_lock \in BOOLEAN
    PROVE  /\ Decoded(key.code) = Typed(key, shift_down, caps_lock)
           /\ StrokeOrNothing(Decoded(key.code))
<1> DEFINE plain == sc_normal(key.code)
<1>1. plain \in {"none", "1", "q", "a", "enter"}
  BY DEF sc_normal
<1>2. /\ key.code = 2 <=> plain = "1"
      /\ sc_shift(key.code) = IF plain = "1" THEN "!"
                              ELSE IF plain \in Letters THEN Upper(plain) ELSE plain
  BY DEF sc_normal, sc_shift, Letters
<1>3. Typed(key, shift_down, caps_lock)
        = IF plain = "none" THEN <<>>
          ELSE IF plain \in Letters
          THEN IF shift_down # caps_lock THEN <<Upper(plain)>> ELSE <<plain>>
          ELSE IF shift_down /\ plain = "1" THEN <<"!">> ELSE <<plain>>
  BY <1>1 DEF Typed, Letters
<1>4. \A ch : WithCaps(ch) =
        IF caps_lock /\ ch \in Letters THEN Upper(ch)
        ELSE IF caps_lock /\ \E l \in Letters : Upper(l) = ch
        THEN CHOOSE l \in Letters : Upper(l) = ch ELSE ch
  BY UpperIs DEF WithCaps, Letters
<1>5. /\ (CHOOSE l \in Letters : Upper(l) = "Q") = "q"
      /\ (CHOOSE l \in Letters : Upper(l) = "A") = "a"
  BY UpperIs DEF Letters
<1>6. /\ WithCaps("q") = IF caps_lock THEN "Q" ELSE "q"
      /\ WithCaps("a") = IF caps_lock THEN "A" ELSE "a"
      /\ WithCaps("Q") = IF caps_lock THEN "q" ELSE "Q"
      /\ WithCaps("A") = IF caps_lock THEN "a" ELSE "A"
      /\ WithCaps("1") = "1" /\ WithCaps("!") = "!" /\ WithCaps("enter") = "enter"
  BY <1>4, <1>5, UpperIs DEF Letters
<1> HIDE DEF plain
<1>7. Decoded(key.code) = LET ch == IF shift_down THEN sc_shift(key.code) ELSE plain
                          IN  IF ch = "none" THEN <<>> ELSE <<WithCaps(ch)>>
  BY DEF Decoded, plain
<1>8. CASE plain = "none"
  BY <1>2, <1>3, <1>7, <1>8 DEF Letters, StrokeOrNothing
<1>9. CASE plain = "1"
  BY <1>2, <1>3, <1>6, <1>7, <1>9 DEF Letters, StrokeOrNothing, Strokes, Inks
<1>10. CASE plain = "enter"
  BY <1>2, <1>3, <1>6, <1>7, <1>10 DEF Letters, StrokeOrNothing, Strokes, Inks
<1>11. CASE plain = "q"
  BY <1>2, <1>3, <1>6, <1>7, <1>11, UpperIs DEF Letters, StrokeOrNothing, Strokes, Inks
<1>12. CASE plain = "a"
  BY <1>2, <1>3, <1>6, <1>7, <1>12, UpperIs DEF Letters, StrokeOrNothing, Strokes, Inks
<1> QED
  BY <1>1, <1>8, <1>9, <1>10, <1>11, <1>12 DEF plain

\* What is queued for a key is at most one character more.
LEMMA Queued ==
    ASSUME NEW s \in Seq(Inks), NEW t, StrokeOrNothing(t)
    PROVE  /\ s \o t \in Seq(Inks)
           /\ Len(s) \in Nat /\ Len(t) \in {0, 1} /\ Len(s \o t) = Len(s) + Len(t)
           /\ t = <<>> => s \o t = s
<1>1. t \in Seq(Inks) /\ Len(t) \in {0, 1}
  <2>1. CASE t = <<>>
    BY <2>1
  <2>2. CASE t # <<>>
    <3>1. PICK ch \in Inks : t = <<ch>>
      BY <2>2 DEF StrokeOrNothing, Strokes
    <3> QED
      BY <3>1
  <2> QED
    BY <2>1, <2>2
<1>2. Len(s) \in Nat /\ s \o t \in Seq(Inks) /\ Len(s \o t) = Len(s) + Len(t)
  BY <1>1, ConcatProperties
<1>3. s \o <<>> = s
  BY ConcatEmptySeq
<1> QED
  BY <1>1, <1>2, <1>3

-----------------------------------------------------------------------------
(* The wire.                                                               *)

\* The bytes a keyboard sends.
Said ==
    {b \in [byte : 0 .. 255, key : Keys, what : {"prefix", "make", "break"}] :
        b = Says(b.key, b.what) /\ (b.what = "prefix" => b.key.ext)}

\* The byte after a prefix.
Extended(b) == b.key.ext /\ b.what # "prefix"

\* A prefix is followed by its code, and an extended code but the first follows
\* its prefix.
WellFormed(w, n) ==
    /\ Long(w, Said, n)
    /\ \A i \in 1 .. n : w[i].what = "prefix" => i < n /\ Extended(w[i + 1])
    /\ \A i \in 2 .. n : Extended(w[i]) => w[i - 1].what = "prefix"

Amid(w, n) == n > 0 /\ Extended(w[1])

LEMMA SaysIs ==
    ASSUME NEW key \in Keys, NEW what \in {"prefix", "make", "break"},
           what = "prefix" => key.ext
    PROVE  Says(key, what) \in Said
<1>1. key.code \in 1 .. 88 /\ key.ext \in BOOLEAN
  BY ScancodeAssumption
<1>2. Says(key, what) = [byte |-> Says(key, what).byte, key |-> key, what |-> what]
  BY DEF Says
<1>3. Says(key, what).byte \in 0 .. 255
  BY <1>1 DEF Says
<1> QED
  BY <1>2, <1>3 DEF Said

\* Between two keys the keyboard may add all the codes of a key.
LEMMA GrowsWell ==
    ASSUME NEW w, NEW n, WellFormed(w, n), NEW key \in Keys, NEW what \in {"make", "break"}
    PROVE  \E m \in Nat : /\ WellFormed(w \o CodesOf(key, what), m)
                          /\ Amid(w \o CodesOf(key, what), m) <=> Amid(w, n)
<1> DEFINE q == CodesOf(key, what)
           a == Says(key, "prefix")
           b == Says(key, what)
           m == IF key.ext THEN 2 ELSE 1
           t == w \o q
<1>1. key.ext \in BOOLEAN
  BY ScancodeAssumption
<1>2. b \in Said /\ (key.ext => a \in Said)
  BY SaysIs
<1>3. /\ a.what = "prefix" /\ a.key = key /\ ~Extended(a)
      /\ b.what = what /\ b.key = key /\ (Extended(b) <=> key.ext)
  BY DEF Says, Extended
<1>4. q = IF key.ext THEN <<a, b>> ELSE <<b>>
  BY DEF CodesOf
<1> HIDE DEF a, b, q
<1>5. /\ Long(q, Said, m) /\ m \in {1, 2}
      /\ key.ext => m = 2 /\ q[1] = a /\ q[2] = b
      /\ ~key.ext => m = 1 /\ q[1] = b
  <2>1. CASE key.ext
    BY <1>2, <1>4, <2>1 DEF Long
  <2>2. CASE ~key.ext
    BY <1>2, <1>4, <2>2 DEF Long
  <2> QED
    BY <2>1, <2>2
<1>6. Joined(t, w, q, Said, n, m)
  BY <1>5, ConcatIs DEF WellFormed
<1> HIDE DEF t, m
<1>7. n \in Nat /\ m \in Nat /\ Long(t, Said, n + m)
  BY <1>5, <1>6 DEF Joined, WellFormed, Long
<1>8. /\ \A i \in 1 .. n : t[i] = w[i]
      /\ key.ext => t[n + 1] = a /\ t[n + 2] = b
      /\ ~key.ext => t[n + 1] = b
  BY <1>5, <1>6 DEF Joined
<1>9. ASSUME NEW i \in 1 .. n + m, t[i].what = "prefix"
      PROVE  i < n + m /\ Extended(t[i + 1])
  <2>1. CASE i \in 1 .. n
    <3>1. i < n /\ Extended(w[i + 1])
      BY <1>8, <1>9, <2>1 DEF WellFormed
    <3> QED
      BY <1>7, <1>8, <2>1, <3>1
  <2>2. CASE i = n + 1
    BY <1>1, <1>3, <1>5, <1>7, <1>8, <1>9, <2>2
  <2>3. CASE i = n + 2
    BY <1>1, <1>3, <1>5, <1>7, <1>8, <1>9, <2>3
  <2> QED
    BY <1>5, <1>7, <2>1, <2>2, <2>3
<1>10. ASSUME NEW i \in 2 .. n + m, Extended(t[i])
       PROVE  t[i - 1].what = "prefix"
  <2>1. CASE i \in 1 .. n
    <3>1. i \in 2 .. n /\ i - 1 \in 1 .. n
      BY <1>7, <2>1
    <3> QED
      BY <1>8, <1>10, <3>1 DEF WellFormed
  <2>2. CASE i = n + 1
    BY <1>1, <1>3, <1>5, <1>7, <1>8, <1>10, <2>2
  <2>3. CASE i = n + 2
    <3>1. key.ext /\ i - 1 = n + 1
      BY <1>1, <1>5, <1>7, <2>3
    <3> QED
      BY <1>3, <1>8, <3>1
  <2> QED
    BY <1>5, <1>7, <2>1, <2>2, <2>3
<1>11. WellFormed(t, n + m)
  BY <1>7, <1>9, <1>10 DEF WellFormed
<1>12. Amid(t, n + m) <=> Amid(w, n)
  <2>1. CASE n = 0
    BY <1>1, <1>3, <1>5, <1>7, <1>8, <2>1 DEF Amid
  <2>2. CASE n > 0
    BY <1>5, <1>7, <1>8, <2>2 DEF Amid
  <2> QED
    BY <1>7, <2>1, <2>2
<1> QED
  BY <1>7, <1>11, <1>12 DEF t, q

\* Reading takes the first byte off; what is amid a key then is so for its prefix.
LEMMA ShrinksWell ==
    ASSUME NEW w, NEW n, WellFormed(w, n), w # <<>>
    PROVE  /\ n > 0 /\ Head(w) = w[1] /\ w[1] \in Said
           /\ WellFormed(Tail(w), n - 1)
           /\ Amid(Tail(w), n - 1) <=> w[1].what = "prefix"
<1> DEFINE t == Tail(w)
<1>1. w \in Seq(Said) /\ n \in Nat /\ Len(w) = n
  BY DEF WellFormed, Long
<1>2. n > 0
  BY <1>1, EmptySeq
<1>3. /\ Head(w) = w[1] /\ w[1] \in Said /\ t \in Seq(Said) /\ Len(t) = n - 1
      /\ \A i \in 1 .. n - 1 : t[i] = w[i + 1]
  BY <1>1, <1>2, HeadTailProperties
<1> HIDE DEF t
<1>4. Long(t, Said, n - 1)
  BY <1>1, <1>2, <1>3 DEF Long
<1>5. ASSUME NEW i \in 1 .. n - 1, t[i].what = "prefix"
      PROVE  i < n - 1 /\ Extended(t[i + 1])
  <2>1. i + 1 \in 1 .. n /\ w[i + 1].what = "prefix"
    BY <1>1, <1>3, <1>5
  <2>2. i + 1 < n /\ Extended(w[(i + 1) + 1])
    BY <2>1 DEF WellFormed
  <2>3. i + 1 \in 1 .. n - 1 /\ i < n - 1
    BY <1>1, <2>2
  <2> QED
    BY <1>3, <2>2, <2>3
<1>6. ASSUME NEW i \in 2 .. n - 1, Extended(t[i])
      PROVE  t[i - 1].what = "prefix"
  <2>1. i + 1 \in 2 .. n /\ Extended(w[i + 1]) /\ i \in 1 .. n - 1 /\ i - 1 \in 1 .. n - 1
    BY <1>1, <1>3, <1>6
  <2>2. w[(i + 1) - 1].what = "prefix" /\ (i + 1) - 1 = i /\ (i - 1) + 1 = i
    BY <2>1 DEF WellFormed
  <2> QED
    BY <1>3, <2>1, <2>2
<1>7. Amid(t, n - 1) <=> w[1].what = "prefix"
  <2>1. ASSUME w[1].what = "prefix" PROVE Amid(t, n - 1)
    <3>1. 1 < n /\ Extended(w[1 + 1])
      BY <1>1, <1>2, <2>1 DEF WellFormed
    <3> QED
      BY <1>1, <1>3, <3>1 DEF Amid
  <2>2. ASSUME Amid(t, n - 1) PROVE w[1].what = "prefix"
    <3>1. n - 1 > 0 /\ Extended(w[2]) /\ 2 \in 2 .. n
      BY <1>1, <1>3, <2>2 DEF Amid
    <3> QED
      BY <3>1 DEF WellFormed
  <2> QED
    BY <2>1, <2>2
<1> QED
  BY <1>2, <1>3, <1>4, <1>5, <1>6, <1>7 DEF t, WellFormed

(***************************************************************************)
(* The inductive invariant.  The flags are what the typist's keys make of  *)
(* them, once for all keys read; a code that is read after its prefix      *)
(* finds the prefix flag up; and if the flag is up without a code to come, *)
(* one of the arrows released has not cost its character yet.              *)
(***************************************************************************)
Flags ==
    /\ shift_down = (typist.shifts # {})
    /\ caps_lock = typist.caps
    /\ typist.shifts \subseteq ShiftCodes
    /\ \A code \in typist.shifts : \E key \in Keys : key.code = code

Typing ==
    /\ typist \in [shifts : SUBSET ShiftCodes, caps : BOOLEAN, text : Seq(Inks), released : Nat]
    /\ out \in Seq(Inks)

Owed(amid) ==
    /\ amid => esc_prefix
    /\ Len(typist.text) - Len(out) + (IF esc_prefix /\ ~amid THEN 1 ELSE 0) <= typist.released

Wired == \E n \in Nat : WellFormed(wire, n) /\ Owed(Amid(wire, n))

DecoderInv ==
    /\ down \subseteq Keys
    /\ sent \in 0 .. MaxEvents
    /\ {shift_down, caps_lock, esc_prefix} \subseteq BOOLEAN
    /\ Typing
    /\ Flags
    /\ Wired

LEMMA DecoderInitInv == DecoderInit => DecoderInv
<1> SUFFICES ASSUME DecoderInit PROVE DecoderInv
  OBVIOUS
<1>1. WellFormed(<<>>, 0) /\ ~Amid(<<>>, 0)
  BY DEF WellFormed, Amid, Long
<1>2. Typing
  <2>1. <<>> \in Seq(Inks)
    OBVIOUS
  <2> QED
    BY <2>1 DEF DecoderInit, Typing
<1>3. Flags
  BY DEF DecoderInit, Flags
<1>4. Wired
  BY <1>1 DEF DecoderInit, Wired, Owed
<1>5. MaxEvents \in Nat /\ sent = 0 /\ down = {}
  BY ScancodeAssumption DEF DecoderInit
<1>6. {shift_down, caps_lock, esc_prefix} \subseteq BOOLEAN
  BY DEF DecoderInit
<1> QED
  BY <1>2, <1>3, <1>4, <1>5, <1>6 DEF DecoderInv

LEMMA SendInv ==
    ASSUME DecoderInv, NEW key \in Keys, Press(key) \/ Lift(key)
    PROVE  DecoderInv' /\ out' = out
<1>1. PICK what \in {"make", "break"} : SendCodes(key, what)
  BY DEF Press, Lift
<1>2. down' \subseteq Keys
  BY DEF Press, Lift, DecoderInv
<1>3. sent' \in 0 .. MaxEvents
  BY <1>1, ScancodeAssumption DEF SendCodes, DecoderInv
<1>4. UNCHANGED <<shift_down, caps_lock, esc_prefix, typist, out>>
  BY <1>1 DEF SendCodes
<1>5. PICK n \in Nat : WellFormed(wire, n) /\ Owed(Amid(wire, n))
  BY DEF DecoderInv, Wired
<1>6. PICK m \in Nat : WellFormed(wire', m) /\ (Amid(wire', m) <=> Amid(wire, n))
  BY <1>1, <1>5, GrowsWell DEF SendCodes
<1>7. Wired'
  BY <1>4, <1>5, <1>6 DEF Wired, Owed
<1>8. Typing' /\ Flags'
  BY <1>4 DEF DecoderInv, Typing, Flags
<1> QED
  BY <1>2, <1>3, <1>4, <1>7, <1>8 DEF DecoderInv

\* A step that queues t where u was typed.
Takes(t, u) ==
    /\ StrokeOrNothing(t) /\ StrokeOrNothing(u)
    /\ out' = out \o t
    /\ typist'.text = typist.text \o u

OwedNext(amid) ==
    /\ amid => esc_prefix'
    /\ Len(typist'.text) - Len(out') + (IF esc_prefix' /\ ~amid THEN 1 ELSE 0)
         <= typist'.released

\* The flag down, or as it was between two keys, or up for the code to come: a
\* step that queues what was typed owes no more.
LEMMA PaidInFull ==
    ASSUME Typing, NEW amid \in BOOLEAN, Owed(amid), NEW next \in BOOLEAN,
           esc_prefix \in BOOLEAN, NEW t, Takes(t, t), typist'.released = typist.released,
           \/ esc_prefix' = FALSE /\ ~next
           \/ esc_prefix' = esc_prefix /\ ~next /\ ~amid
           \/ esc_prefix' = TRUE /\ next
    PROVE  OwedNext(next)
<1> DEFINE x == Len(typist.text)
           y == Len(out)
           d == Len(t)
           r == typist.released
<1>1. /\ x \in Nat /\ y \in Nat /\ d \in {0, 1} /\ r \in Nat
      /\ Len(typist'.text) = x + d /\ Len(out') = y + d
  BY Queued DEF Typing, Takes
<1>2. x - y + (IF esc_prefix /\ ~amid THEN 1 ELSE 0) <= r
  BY DEF Owed
<1> HIDE DEF x, y, d, r
<1>3. (x + d) - (y + d) + (IF esc_prefix' /\ ~next THEN 1 ELSE 0) <= r
  BY <1>1, <1>2
<1> QED
  BY <1>1, <1>3 DEF OwedNext, r

\* The flag of a released arrow goes down, and takes what was typed with it.
LEMMA PaidByFlag ==
    ASSUME Typing, Owed(FALSE), esc_prefix = TRUE, NEW u, Takes(<<>>, u),
           typist'.released = typist.released, esc_prefix' = FALSE
    PROVE  OwedNext(FALSE)
<1> DEFINE x == Len(typist.text)
           y == Len(out)
           d == Len(u)
           r == typist.released
<1>1. /\ x \in Nat /\ y \in Nat /\ d \in {0, 1} /\ r \in Nat
      /\ Len(typist'.text) = x + d /\ out' = out
  BY Queued DEF Typing, Takes
<1>2. x - y + 1 <= r
  BY DEF Owed
<1> HIDE DEF x, d, r
<1>3. (x + d) - y <= r
  BY <1>1, <1>2
<1> QED
  BY <1>1, <1>3 DEF OwedNext, r, y

\* The release of an arrow pays for the flag it leaves up.
LEMMA PaidAhead ==
    ASSUME Typing, NEW amid \in BOOLEAN, Owed(amid), Takes(<<>>, <<>>),
           typist'.released = typist.released + 1
    PROVE  OwedNext(FALSE)
<1> DEFINE x == Len(typist.text)
           y == Len(out)
           r == typist.released
<1>1. /\ x \in Nat /\ y \in Nat /\ r \in Nat
      /\ typist'.text = typist.text /\ out' = out
  BY Queued DEF Typing, Takes
<1>2. x - y <= r
  <2>1. x - y + (IF esc_prefix /\ ~amid THEN 1 ELSE 0) <= r
    BY DEF Owed
  <2> HIDE DEF x, y, r
  <2> QED
    BY <1>1, <2>1
<1> HIDE DEF x, y, r
<1>3. x - y + (IF esc_prefix' /\ ~FALSE THEN 1 ELSE 0) <= r + 1
  BY <1>1, <1>2
<1> QED
  BY <1>1, <1>3 DEF OwedNext, x, y, r

\* What a step that reads a byte does, byte by byte.
LEMMA ReadCases ==
    ASSUME DecoderInv, NEW b \in Said, Head(wire) = b,
           \/ Prefix(b.byte) \/ Release(b.byte) \/ ShiftMake(b.byte)
           \/ CapsMake(b.byte) \/ Make(b.byte)
    PROVE  /\ b.what = "prefix" =>
                /\ typist' = typist /\ UNCHANGED <<shift_down, caps_lock, out>>
                /\ esc_prefix' = TRUE
           /\ b.what = "break" =>
                /\ IF b.key.ext
                   THEN /\ typist' = [typist EXCEPT !.released = @ + 1]
                        /\ shift_down' = shift_down
                   ELSE /\ typist' = [typist EXCEPT !.shifts = @ \ {b.key.code}]
                        /\ shift_down' = IF b.key.code \in ShiftCodes THEN FALSE ELSE shift_down
                /\ UNCHANGED <<caps_lock, esc_prefix, out>>
           /\ (b.what = "make" /\ b.key.code \in ShiftCodes) =>
                /\ typist' = [typist EXCEPT !.shifts = @ \cup {b.key.code}]
                /\ shift_down' = TRUE /\ UNCHANGED <<caps_lock, esc_prefix, out>>
           /\ (b.what = "make" /\ b.key.code = CapsLock) =>
                /\ typist' = [typist EXCEPT !.caps = ~@]
                /\ caps_lock' = ~caps_lock /\ UNCHANGED <<shift_down, esc_prefix, out>>
           /\ (b.what = "make" /\ b.key.code \notin ShiftCodes \cup {CapsLock}) =>
                /\ typist' = [typist EXCEPT !.text =
                                @ \o Typed(b.key, typist.shifts # {}, typist.caps)]
                /\ out' = out \o (IF esc_prefix THEN Arrow(b.key.code) ELSE Decoded(b.key.code))
                /\ esc_prefix' = FALSE /\ UNCHANGED <<shift_down, caps_lock>>
<1> DEFINE key == b.key
           code == b.key.code
<1>1. /\ key \in Keys /\ code \in 1 .. 88 /\ key.ext \in BOOLEAN
      /\ key.ext => code \notin ShiftCodes /\ code # CapsLock
  BY ScancodeAssumption DEF Said
<1>2. b.byte = CASE b.what = "prefix" -> 224
                 [] b.what = "make"   -> code
                 [] b.what = "break"  -> code + 128
  BY DEF Said, Says
<1>3. ShiftCodes = {42, 54} /\ CapsLock = 58
  BY DEF ShiftCodes, LeftShift, RightShift, CapsLock
<1>4. typist' = Typist(typist, b)
  BY DEF Prefix, Release, ShiftMake, CapsMake, Make, PortRead
<1>5. CASE b.what = "prefix"
  <2>1. b.byte = 224
    BY <1>2, <1>5
  <2>2. Prefix(b.byte)
    BY <1>3, <2>1 DEF Release, ShiftMake, CapsMake, Make
  <2>3. typist' = typist
    BY <1>4, <1>5 DEF Typist
  <2> QED
    BY <1>5, <2>2, <2>3 DEF Prefix
<1>6. CASE b.what = "break"
  <2>1. b.byte = code + 128
    BY <1>2, <1>6
  <2> HIDE DEF code
  <2>0. /\ b.byte # 224 /\ ~(b.byte < 128) /\ b.byte - 128 = code
        /\ b.byte \notin ShiftCodes /\ b.byte # CapsLock
    BY <1>1, <1>3, <2>1
  <2>2. Release(b.byte)
    BY <2>0 DEF Prefix, ShiftMake, CapsMake, Make
  <2>3. b.byte - 128 = code
    BY <2>0
  <2>4. typist' = IF key.ext THEN [typist EXCEPT !.released = @ + 1]
                  ELSE [typist EXCEPT !.shifts = @ \ {code}]
    BY <1>1, <1>4, <1>6 DEF Typist, code
  <2>5. shift_down' = IF code \in ShiftCodes THEN FALSE ELSE shift_down
    BY <2>2, <2>3 DEF Release
  <2>6. UNCHANGED <<caps_lock, esc_prefix, out>>
    BY <2>2 DEF Release
  <2> QED
    BY <1>1, <1>6, <2>4, <2>5, <2>6 DEF code
<1>7. CASE b.what = "make"
  <2>1. b.byte = code
    BY <1>2, <1>7
  <2>2. ~Prefix(b.byte) /\ ~Release(b.byte)
    <3> HIDE DEF code
    <3>1. b.byte # 224 /\ ~(b.byte >= 128)
      BY <1>1, <2>1
    <3> QED
      BY <3>1 DEF Prefix, Release
  <2>3. CASE code \in ShiftCodes
    <3>1. ShiftMake(b.byte)
      BY <1>3, <2>1, <2>2, <2>3 DEF CapsMake, Make
    <3>2. typist' = [typist EXCEPT !.shifts = @ \cup {code}]
      BY <1>4, <1>3, <1>7, <2>3 DEF Typist
    <3> QED
      <4>1. shift_down' = TRUE /\ UNCHANGED <<caps_lock, esc_prefix, out>>
        BY <3>1 DEF ShiftMake
      <4>2. code # CapsLock
        BY <1>3, <2>3
      <4> QED
        BY <1>7, <2>3, <3>2, <4>1, <4>2
  <2>4. CASE code = CapsLock
    <3>1. CapsMake(b.byte)
      BY <1>3, <2>1, <2>2, <2>4 DEF ShiftMake, Make
    <3>2. typist' = [typist EXCEPT !.caps = ~@]
      BY <1>4, <1>3, <1>7, <2>4 DEF Typist
    <3> QED
      BY <1>3, <1>7, <2>4, <3>1, <3>2 DEF CapsMake
  <2>5. CASE code \notin ShiftCodes /\ code # CapsLock
    <3>1. Make(b.byte)
      BY <2>1, <2>2, <2>5 DEF ShiftMake, CapsMake
    <3>2. typist' = [typist EXCEPT !.text = @ \o Typed(key, typist.shifts # {}, typist.caps)]
      BY <1>4, <1>7, <2>5 DEF Typist
    <3> QED
      BY <1>7, <2>1, <2>5, <3>1, <3>2 DEF Make
  <2> QED
    BY <2>3, <2>4, <2>5
<1> QED
  BY <1>5, <1>6, <1>7 DEF Said

LEMMA ReadByteInv ==
    ASSUME DecoderInv, KbCallback
    PROVE  /\ DecoderInv'
           /\ out' = out \/ \E t \in Strokes : /\ out' = out \o t
                                               /\ typist'.text = typist.text \o t
<1> DEFINE b == wire[1]
           key == b.key
           code == b.key.code
           next == b.what = "prefix"
           Step == IF out' = out THEN TRUE
                   ELSE \E t \in Strokes : out' = out \o t /\ typist'.text = typist.text \o t
<1>1. PICK n \in Nat : WellFormed(wire, n) /\ Owed(Amid(wire, n))
  BY DEF DecoderInv, Wired
<1>2. /\ n > 0 /\ Head(wire) = b /\ b \in Said
      /\ WellFormed(Tail(wire), n - 1) /\ (Amid(Tail(wire), n - 1) <=> next)
  BY <1>1, ShrinksWell DEF KbCallback
<1>3. \/ Prefix(b.byte) \/ Release(b.byte) \/ ShiftMake(b.byte)
      \/ CapsMake(b.byte) \/ Make(b.byte)
  BY <1>2 DEF KbCallback
<1>4. /\ wire' = Tail(wire) /\ down' = down /\ sent' = sent
  BY <1>3 DEF Prefix, Release, ShiftMake, CapsMake, Make, PortRead
<1>5. /\ key \in Keys /\ code \in 1 .. 88 /\ key.ext \in BOOLEAN
      /\ key.ext => code \notin ShiftCodes \cup {CapsLock}
      /\ ~key.ext => Arrow(code) = <<>>
      /\ b.what \in {"prefix", "break", "make"}
      /\ next => key.ext
      /\ Extended(b) <=> key.ext /\ ~next
  BY <1>2, ScancodeAssumption DEF Said, Extended
<1>6. Amid(wire, n) <=> Extended(b)
  BY <1>2 DEF Amid
<1>7. /\ Typing /\ Flags
      /\ shift_down \in BOOLEAN /\ caps_lock \in BOOLEAN /\ esc_prefix \in BOOLEAN
  BY DEF DecoderInv
<1>8. CapsLock \notin ShiftCodes
  BY DEF CapsLock, ShiftCodes, LeftShift, RightShift
<1> HIDE DEF b
<1>9. ASSUME OwedNext(next), Typing', Flags', Step,
             shift_down' \in BOOLEAN, caps_lock' \in BOOLEAN, esc_prefix' \in BOOLEAN
      PROVE  /\ DecoderInv'
             /\ out' = out \/ \E t \in Strokes : /\ out' = out \o t
                                                 /\ typist'.text = typist.text \o t
  <2>1. n - 1 \in Nat
    BY <1>2
  <2>2. Wired'
    <3>1. WellFormed(wire', n - 1) /\ (Amid(wire', n - 1) <=> next)
      BY <1>2, <1>4
    <3>2. (next => esc_prefix')
          /\ Len(typist'.text) - Len(out') + (IF esc_prefix' /\ ~next THEN 1 ELSE 0)
               <= typist'.released
      BY <1>9 DEF OwedNext
    <3> HIDE DEF next
    <3> QED
      BY <2>1, <3>1, <3>2 DEF Wired, Owed
  <2>3. DecoderInv'
    BY <1>4, <1>9, <2>2 DEF DecoderInv
  <2> QED
    BY <1>9, <2>3
<1>10. typist = [shifts |-> typist.shifts, caps |-> typist.caps, text |-> typist.text,
                 released |-> typist.released]
       /\ typist.shifts \in SUBSET ShiftCodes /\ typist.caps \in BOOLEAN
       /\ typist.text \in Seq(Inks) /\ typist.released \in Nat /\ out \in Seq(Inks)
  BY <1>7 DEF Typing
<1>11. Takes(<<>>, <<>>) <=> out' = out /\ typist'.text = typist.text
  BY <1>10, Queued DEF Takes, StrokeOrNothing
<1>12. ASSUME ~key.ext PROVE Owed(FALSE)
  <2>1. ~Amid(wire, n)
    BY <1>5, <1>6, <1>12
  <2>2. Amid(wire, n) = FALSE
    BY <2>1 DEF Amid
  <2> QED
    BY <1>1, <2>2
<1>13. code \in ShiftCodes \cup {CapsLock} => ~key.ext
  BY <1>5
<1>14. CASE b.what = "prefix"
  <2>1. typist' = typist /\ UNCHANGED <<shift_down, caps_lock, out>> /\ esc_prefix' = TRUE
    BY <1>2, <1>3, <1>14, ReadCases DEF DecoderInv
  <2>2. OwedNext(next)
    BY <1>1, <1>7, <1>11, <1>14, <2>1, PaidInFull DEF Amid
  <2>3. Typing' /\ Flags'
    BY <1>7, <2>1 DEF Typing, Flags
  <2> QED
    BY <1>7, <1>9, <2>1, <2>2, <2>3
<1>15. CASE b.what = "break"
  <2>1. UNCHANGED <<caps_lock, esc_prefix, out>>
    BY <1>2, <1>3, <1>15, ReadCases
  <2>2. CASE key.ext
    <3>1. typist' = [typist EXCEPT !.released = @ + 1] /\ shift_down' = shift_down
      BY <1>2, <1>3, <1>15, <2>2, ReadCases
    <3>2. typist'.text = typist.text /\ typist'.released = typist.released + 1
          /\ typist'.shifts = typist.shifts /\ typist'.caps = typist.caps
      BY <1>10, <3>1
    <3>3. OwedNext(FALSE)
      BY <1>1, <1>7, <1>11, <2>1, <3>2, PaidAhead DEF Amid
    <3>4. Typing'
      BY <1>7, <2>1, <3>1 DEF Typing
    <3>5. Flags'
      BY <1>7, <2>1, <3>1, <3>2 DEF Flags
    <3> QED
      BY <1>7, <1>9, <1>15, <2>1, <3>1, <3>3, <3>4, <3>5
  <2>3. CASE ~key.ext
    <3>1. /\ typist' = [typist EXCEPT !.shifts = @ \ {code}]
          /\ shift_down' = IF code \in ShiftCodes THEN FALSE ELSE shift_down
      BY <1>2, <1>3, <1>15, <2>3, ReadCases
    <3>2. typist'.text = typist.text /\ typist'.released = typist.released
          /\ typist'.shifts = typist.shifts \ {code} /\ typist'.caps = typist.caps
      BY <1>10, <3>1
    <3>3. OwedNext(FALSE)
      BY <1>7, <1>11, <1>12, <2>1, <2>3, <3>2, PaidInFull
    <3>4. Typing'
      BY <1>7, <2>1, <3>1 DEF Typing
    <3>5. typist'.shifts = IF code \in ShiftCodes THEN {} ELSE typist.shifts
      <4>1. ASSUME NEW held \in typist.shifts, code \in ShiftCodes PROVE held = code
        <5>1. PICK other \in Keys : other.code = held
          BY <1>7, <4>1 DEF Flags
        <5>2. held \in ShiftCodes
          BY <1>10
        <5>3. other = key
          BY <1>5, <4>1, <5>1, <5>2, ScancodeAssumption
        <5> QED
          BY <5>1, <5>3
      <4>2. code \notin ShiftCodes => code \notin typist.shifts
        BY <1>10
      <4> QED
        BY <3>2, <4>1, <4>2
    <3>6. Flags'
      BY <1>7, <2>1, <3>1, <3>2, <3>5 DEF Flags
    <3> QED
      BY <1>7, <1>9, <1>15, <2>1, <3>1, <3>3, <3>4, <3>6
  <2> QED
    BY <1>5, <2>2, <2>3
<1>16. CASE b.what = "make" /\ code \in ShiftCodes
  <2>1. /\ typist' = [typist EXCEPT !.shifts = @ \cup {code}]
        /\ shift_down' = TRUE /\ UNCHANGED <<caps_lock, esc_prefix, out>>
    BY <1>2, <1>3, <1>16, ReadCases
  <2>2. typist'.text = typist.text /\ typist'.released = typist.released
        /\ typist'.shifts = typist.shifts \cup {code} /\ typist'.caps = typist.caps
    BY <1>10, <2>1
  <2>3. OwedNext(FALSE)
    BY <1>7, <1>11, <1>16, <1>12, <1>13, <2>1, <2>2, PaidInFull
  <2>4. Typing'
    BY <1>7, <1>16, <2>1 DEF Typing
  <2>5. Flags'
    BY <1>5, <1>7, <1>16, <2>1, <2>2 DEF Flags
  <2> QED
    BY <1>7, <1>9, <1>16, <2>1, <2>3, <2>4, <2>5
<1>17. CASE b.what = "make" /\ code = CapsLock
  <2>1. /\ typist' = [typist EXCEPT !.caps = ~@]
        /\ caps_lock' = ~caps_lock /\ UNCHANGED <<shift_down, esc_prefix, out>>
    BY <1>2, <1>3, <1>17, ReadCases
  <2>2. typist'.text = typist.text /\ typist'.released = typist.released
        /\ typist'.shifts = typist.shifts /\ typist'.caps = ~typist.caps
    BY <1>10, <2>1
  <2>3. OwedNext(FALSE)
    BY <1>7, <1>11, <1>17, <1>12, <1>13, <2>1, <2>2, PaidInFull
  <2>4. Typing'
    BY <1>7, <2>1 DEF Typing
  <2>5. Flags'
    BY <1>7, <2>1, <2>2 DEF Flags
  <2> QED
    BY <1>7, <1>9, <1>17, <2>1, <2>3, <2>4, <2>5
<1>18. CASE b.what = "make" /\ code \notin ShiftCodes \cup {CapsLock}
  <2> DEFINE u == Typed(key, typist.shifts # {}, typist.caps)
             t == IF esc_prefix THEN Arrow(code) ELSE Decoded(code)
  <2>1. /\ typist' = [typist EXCEPT !.text = @ \o u]
        /\ out' = out \o t
        /\ esc_prefix' = FALSE /\ UNCHANGED <<shift_down, caps_lock>>
    BY <1>2, <1>3, <1>18, ReadCases
  <2>2. StrokeOrNothing(t) /\ StrokeOrNothing(u)
        /\ (t = u \/ (t = <<>> /\ esc_prefix /\ ~key.ext))
    <3>1. CASE key.ext
      <4>1. esc_prefix = TRUE
        BY <1>1, <1>5, <1>6, <1>7, <1>18, <3>1 DEF Owed
      <4>2. u = Arrow(code)
        BY <3>1 DEF Typed
      <4> QED
        BY <4>1, <4>2, ArrowTypes
    <3>2. CASE ~key.ext
      <4>1. shift_down = (typist.shifts # {}) /\ caps_lock = typist.caps
        BY <1>7 DEF Flags
      <4>2. Decoded(code) = u /\ StrokeOrNothing(u)
        BY <1>5, <1>7, <3>2, <4>1, DecodesAsTyped
      <4>3. esc_prefix => t = <<>>
        BY <1>5, <3>2
      <4> QED
        BY <1>7, <3>2, <4>2, <4>3 DEF StrokeOrNothing
    <3> QED
      BY <1>5, <3>1, <3>2
  <2> HIDE DEF t, u
  <2>3. typist'.text = typist.text \o u /\ typist'.released = typist.released
        /\ typist'.shifts = typist.shifts /\ typist'.caps = typist.caps
    BY <1>10, <2>1
  <2>4. Takes(t, u)
    BY <2>1, <2>2, <2>3 DEF Takes
  <2>5. OwedNext(FALSE)
    <3>1. CASE t = u
      BY <1>1, <1>7, <2>1, <2>3, <2>4, <3>1, PaidInFull DEF Amid
    <3>2. CASE t = <<>> /\ esc_prefix /\ ~key.ext
      <4>1. Owed(FALSE)
        BY <1>12, <3>2
      <4> QED
        BY <1>7, <2>1, <2>3, <2>4, <3>2, <4>1, PaidByFlag
    <3> QED
      BY <2>2, <3>1, <3>2
  <2>6. Typing'
    <3>1. typist.text \o u \in Seq(Inks) /\ out \o t \in Seq(Inks)
      BY <1>10, <2>2, Queued
    <3>2. typist' = [shifts |-> typist.shifts, caps |-> typist.caps,
                     text |-> typist.text \o u, released |-> typist.released]
      BY <1>10, <2>1
    <3> QED
      BY <1>10, <2>1, <3>1, <3>2 DEF Typing
  <2>7. Flags'
    BY <1>7, <2>1, <2>3 DEF Flags
  <2>8. Step
    <3>1. t = <<>> => out' = out
      BY <1>10, <2>1, <2>2, Queued
    <3>2. t # <<>> => t = u /\ t \in Strokes
      BY <2>2 DEF StrokeOrNothing
    <3> QED
      BY <2>1, <2>3, <3>1, <3>2
  <2> QED
    BY <1>7, <1>9, <1>18, <2>1, <2>5, <2>6, <2>7, <2>8
<1> QED
  BY <1>5, <1>14, <1>15, <1>16, <1>17, <1>18

LEMMA DecoderNextInv ==
    ASSUME DecoderInv, [DecoderNext]_decoderVars
    PROVE  /\ DecoderInv'
           /\ out' = out \/ \E t \in Strokes : /\ out' = out \o t
                                               /\ typist'.text = typist.text \o t
<1>1. CASE \E key \in Keys : Press(key) \/ Lift(key)
  BY <1>1, SendInv
<1>2. CASE KbCallback
  BY <1>2, ReadByteInv
<1>3. CASE UNCHANGED decoderVars
  BY <1>3 DEF decoderVars, DecoderInv, Typing, Flags, Wired, Owed
<1> QED
  BY <1>1, <1>2, <1>3 DEF DecoderNext

LEMMA DecoderInvariance == DecoderSpec => []DecoderInv
  BY DecoderInitInv, DecoderNextInv, PTL DEF DecoderSpec

\* The decoder's flags, the wire and what was queued keep their types.
THEOREM DecoderTypeCorrect == DecoderSpec => []DecoderTypeOK
<1>1. DecoderInv => DecoderTypeOK
  <2> SUFFICES ASSUME DecoderInv PROVE DecoderTypeOK
    OBVIOUS
  <2>1. PICK n \in Nat : WellFormed(wire, n)
    BY DEF DecoderInv, Wired
  <2>2. wire \in Seq([byte : 0 .. 255, key : Keys, what : {"prefix", "make", "break"}])
    <3> DEFINE B == [byte : 0 .. 255, key : Keys, what : {"prefix", "make", "break"}]
    <3>1. wire \in Seq(Said) /\ Said \subseteq B
      BY <2>1 DEF WellFormed, Long, Said
    <3> HIDE DEF B
    <3>2. Len(wire) \in Nat /\ wire = [i \in 1 .. Len(wire) |-> wire[i]]
          /\ \A i \in 1 .. Len(wire) : wire[i] \in B
      BY <3>1, ElementOfSeq, LenProperties
    <3>3. wire \in Seq(B)
      BY <3>2, IsASeq
    <3> QED
      BY <3>3 DEF B
  <2> QED
    BY <2>2 DEF DecoderInv, Typing, DecoderTypeOK
<1> QED
  BY <1>1, DecoderInvariance, PTL

\* Whatever keys are used and in whichever order they are pressed, held and
\* released, the decoder queues what was typed, in order, but for at most one
\* character for each arrow released (keyboard.c:47-86).
THEOREM LosesOnePerArrow == DecoderSpec => OneLostPerArrow
<1>1. DecoderInv /\ [DecoderNext]_decoderVars
        => [out' = out \/ \E t \in Strokes : /\ out' = out \o t
                                             /\ typist'.text = typist.text \o t]_decoderVars
  BY DecoderNextInv
<1>2. DecoderInv => Len(typist.text) - Len(out) <= typist.released
  <2> SUFFICES ASSUME DecoderInv PROVE Len(typist.text) - Len(out) <= typist.released
    OBVIOUS
  <2> DEFINE x == Len(typist.text)
             y == Len(out)
             r == typist.released
  <2>1. PICK n \in Nat : Owed(Amid(wire, n))
    BY DEF DecoderInv, Wired
  <2>2. x \in Nat /\ y \in Nat /\ r \in Nat
    BY DEF DecoderInv, Typing
  <2>3. x - y + (IF esc_prefix /\ ~Amid(wire, n) THEN 1 ELSE 0) <= r
    BY <2>1 DEF Owed
  <2> HIDE DEF x, y, r
  <2>4. x - y <= r
    BY <2>2, <2>3
  <2> QED
    BY <2>4 DEF x, y, r
<1> QED
  BY <1>1, <1>2, DecoderInvariance, PTL DEF DecoderSpec, OneLostPerArrow
=============================================================================
