------------------------------- MODULE Kfifo -------------------------------
(***************************************************************************)
(* The keyboard ring buffer of keyboard.c: written by the IRQ1 handler,    *)
(* read by the one kernel thread through keyboard_getchar and              *)
(* keyboard_try_getchar.                                                   *)
(*                                                                         *)
(* The handler runs behind an interrupt gate (idt.c, 0x8E), so kfifo_put   *)
(* is one atomic step; the reader can be interrupted between any two of    *)
(* its memory accesses, so each of them is a step.  head and tail are      *)
(* volatile and buffer is not (keyboard.h:8-12): the compiler keeps the    *)
(* order of the accesses to head and tail but may move the load of the     *)
(* character past the store to tail.  Both orders are modelled.            *)
(***************************************************************************)
EXTENDS Naturals, Sequences

CONSTANTS
    KFIFO_SIZE,  \* slots of the ring (512 in keyboard.h)
    Chars,       \* the characters kb_callback can queue
    NoChar       \* '\0': an unwritten slot, and the answer "no character"

ASSUME SizeAssumption == KFIFO_SIZE \in Nat /\ KFIFO_SIZE >= 2
ASSUME CharsAssumption == NoChar \notin Chars

VARIABLES
    buffer,    \* kfifo.buffer
    head,      \* kfifo.head: next slot to write, moved by the handler only
    tail,      \* kfifo.tail: next slot to read, moved by the reader only
    pc,        \* where the reader is
    blocking,  \* TRUE in keyboard_getchar, FALSE in keyboard_try_getchar
    slot,      \* the index of the slot the reader is taking
    c,         \* the reader's local variable, its answer when pc = "away"
    dropped    \* the last kfifo_put returned false

vars == <<buffer, head, tail, pc, blocking, slot, c, dropped>>

Slots == 0 .. KFIFO_SIZE - 1

Succ(i) == (i + 1) % KFIFO_SIZE

Init ==
    /\ buffer = [i \in Slots |-> NoChar]
    /\ head = 0
    /\ tail = 0
    /\ pc = "away"
    /\ blocking = FALSE
    /\ slot = 0
    /\ c = NoChar
    /\ dropped = FALSE

-----------------------------------------------------------------------------
(* The handlers.  An interrupt of any kind takes the reader out of hlt.    *)

\* Mutant: a ring with one character of room left counts as full.
FullEarly == tail \in {Succ(head), Succ(Succ(head))}

Full == Succ(head) = tail

\* Mutant: kfifo_put does not test for a full ring.
KfifoPutAlways(ch) ==
    /\ dropped' = FALSE
    /\ buffer' = [buffer EXCEPT ![head] = ch]
    /\ head' = Succ(head)

KfifoPut(ch) ==
    /\ dropped' = Full
    /\ IF Full
       THEN UNCHANGED <<buffer, head>>
       ELSE /\ buffer' = [buffer EXCEPT ![head] = ch]
            /\ head' = Succ(head)

\* Mutant: keyboard_getchar halts again without another look at the ring.
AfterIrqSleep == pc

AfterIrq == IF pc = "halted" THEN "test" ELSE pc

KeyIrq(ch) ==
    /\ KfifoPut(ch)
    /\ pc' = AfterIrq
    /\ UNCHANGED <<tail, blocking, slot, c>>

\* An interrupt that queues nothing: the 100 Hz timer, a key release.
OtherIrq ==
    /\ pc = "halted"
    /\ pc' = AfterIrq
    /\ UNCHANGED <<buffer, head, tail, blocking, slot, c, dropped>>

-----------------------------------------------------------------------------
(* The reader.                                                             *)

Enter(wait) ==
    /\ pc = "away"
    /\ pc' = "test"
    /\ blocking' = wait
    /\ c' = NoChar
    /\ UNCHANGED <<buffer, head, tail, slot, dropped>>

\* kfifo_get finds the ring empty: getchar goes on to hlt, try_getchar returns.
TestEmpty ==
    /\ pc = "test"
    /\ head = tail
    /\ pc' = IF blocking THEN "hlt" ELSE "away"
    /\ UNCHANGED <<buffer, head, tail, blocking, slot, c, dropped>>

\* kfifo_get finds a character; from here on it goes in either order.
TestSome ==
    /\ pc = "test"
    /\ head # tail
    /\ slot' = tail
    /\ pc' \in {"load", "advance"}
    /\ UNCHANGED <<buffer, head, tail, blocking, c, dropped>>

\* Source order: read the character, then move tail.
Load ==
    /\ pc = "load"
    /\ c' = buffer[slot]
    /\ pc' = "store"
    /\ UNCHANGED <<buffer, head, tail, blocking, slot, dropped>>

Store ==
    /\ pc = "store"
    /\ tail' = Succ(tail)
    /\ pc' = "away"
    /\ UNCHANGED <<buffer, head, blocking, slot, c, dropped>>

\* Compiler's other order: move tail, then read the character.
Advance ==
    /\ pc = "advance"
    /\ tail' = Succ(tail)
    /\ pc' = "lateLoad"
    /\ UNCHANGED <<buffer, head, blocking, slot, c, dropped>>

LateLoad ==
    /\ pc = "lateLoad"
    /\ c' = buffer[slot]
    /\ pc' = "away"
    /\ UNCHANGED <<buffer, head, tail, blocking, slot, dropped>>

\* The hlt instruction itself: an interrupt may come between test and hlt.
Hlt ==
    /\ pc = "hlt"
    /\ pc' = "halted"
    /\ UNCHANGED <<buffer, head, tail, blocking, slot, c, dropped>>

Reader ==
    \/ TestEmpty \/ TestSome
    \/ Load \/ Store
    \/ Advance \/ LateLoad
    \/ Hlt

Next ==
    \/ \E ch \in Chars : KeyIrq(ch)
    \/ OtherIrq
    \/ \E wait \in BOOLEAN : Enter(wait)
    \/ Reader

\* The CPU keeps executing the reader, and the timer keeps interrupting: IF is
\* set from idt_init on and IRQ0 is unmasked by timer_init before any read.
Fairness == WF_vars(Reader) /\ WF_vars(OtherIrq)

Spec == Init /\ [][Next]_vars /\ Fairness

-----------------------------------------------------------------------------
(* Properties.                                                             *)

\* Every variable keeps its C type; indices stay inside the buffer.
TypeOK ==
    /\ buffer \in [Slots -> Chars \cup {NoChar}]
    /\ head \in Slots
    /\ tail \in Slots
    /\ pc \in {"away", "test", "hlt", "halted", "load", "store", "advance", "lateLoad"}
    /\ blocking \in BOOLEAN
    /\ slot \in Slots
    /\ c \in Chars \cup {NoChar}
    /\ dropped \in BOOLEAN

\* The slot being taken has been written, and is the oldest one until tail moves
\* past it.  While its character is still to be read after tail moved, the slot
\* is the one the full test keeps free, so the handler cannot reach it.
SlotInv ==
    /\ pc \in {"load", "store", "advance"} => slot = tail /\ head # tail
    /\ pc = "store" => c = buffer[slot]
    /\ pc = "lateLoad" => tail = Succ(slot)
    /\ pc \notin {"away", "store"} => c = NoChar

\* The handler never overwrites the character the reader is in the middle of
\* taking, even when the compiler moves tail before the character is read
\* (kfifo_get, keyboard.c:40-45, against kfifo_put, keyboard.c:32-38).
NoOverwrite ==
    [][(pc \in {"load", "store", "advance", "lateLoad"})
         => (buffer'[slot] = buffer[slot])]_vars

\* The ring, read from tail to head.
Occupancy == IF tail <= head THEN head - tail ELSE head + KFIFO_SIZE - tail

Contents == [i \in 1 .. Occupancy |-> buffer[(tail + i - 1) % KFIFO_SIZE]]

\* The call is over for the queue when tail has moved.
QueueRd ==
    IF pc \in {"away", "lateLoad"} THEN "away"
    ELSE IF blocking THEN "getchar" ELSE "try"

\* The answer is the queue's from that moment on, and not before.
QueueGot ==
    CASE pc = "lateLoad" -> buffer[slot]
      [] pc = "store"    -> NoChar
      [] OTHER           -> c

CQ == INSTANCE CharQueue WITH
        Capacity <- KFIFO_SIZE - 1,
        q        <- Contents,
        rd       <- QueueRd,
        got      <- QueueGot

\* The ring is a FIFO of KFIFO_SIZE - 1 characters for the reader: none lost
\* below that, none duplicated, none reordered (kfifo_put, kfifo_get).
Fifo == CQ!Safe

\* No call stays unanswered while there is an answer: a character queued between
\* kfifo_get's test and hlt (keyboard.c:102-103) is delivered all the same, at
\* the latest after the next timer tick, and keyboard_try_getchar never waits.
Answered == CQ!Answered
=============================================================================
