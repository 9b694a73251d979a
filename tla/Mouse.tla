------------------------------- MODULE Mouse -------------------------------
(***************************************************************************)
(* The PS/2 mouse of mouse.c: the handler of IRQ 12 gathers packets of     *)
(* three bytes by counting.  Bit 3 of a first byte is always set, and that *)
(* is all the handler has to find its place by.                            *)
(*                                                                         *)
(* The device is modelled from how the handler uses it: it sends whole     *)
(* packets; a byte can be lost on the way.  mouse_wait(0x01) returns while *)
(* the controller has nothing to read, so the answers mouse_init means to  *)
(* read may still be on their way when the handler is registered.          *)
(***************************************************************************)
EXTENDS Integers, Sequences

CONSTANTS
    START_X, START_Y,  \* where mouse_init puts the pointer (512, 384)
    Flags,             \* first bytes of packets
    Data,              \* second and third bytes
    MaxX,              \* bound: right of it the device sends nothing more
    MaxLost            \* bound: bytes lost

Bit(byte, weight) == (byte \div weight) % 2 = 1

ASSUME MouseAssumption ==
    /\ {START_X, START_Y, MaxX, MaxLost} \subseteq Nat
    /\ Flags \cup Data \subseteq 0 .. 255
    /\ \A byte \in Flags : Bit(byte, 8)

VARIABLES
    x, y, buttons,  \* of mouse
    mouse_byte,     \* the bytes gathered: mouse_cycle is their number
    wire,           \* bytes sent and not yet handled
    packet,         \* history: the packet on the wire, <<>> if it is not whole
    lost,
    in_step         \* history: a calm packet has passed, and no byte was lost since

mouseVars == <<x, y, buttons, mouse_byte, wire, packet, lost, in_step>>

\* Answers to 0x20, 0xFF and 0xF4: the configuration, then acknowledge, self-test
\* passed, device id, acknowledge.
Answers == <<0, 250, 170, 0, 250>>

MouseInit ==
    /\ x = START_X /\ y = START_Y
    /\ buttons = 0
    /\ mouse_byte = <<>>
    /\ wire \in {SubSeq(Answers, k, 5) : k \in 2 .. 6}
    /\ packet = <<>>
    /\ lost = 0
    /\ in_step = FALSE

-----------------------------------------------------------------------------
(* The device.                                                             *)

Packet(b0, b1, b2) ==
    /\ wire = <<>>
    /\ x <= MaxX
    /\ wire' = <<b0, b1, b2>>
    /\ packet' = wire'
    /\ UNCHANGED <<x, y, buttons, mouse_byte, lost, in_step>>

Lose ==
    /\ wire # <<>>
    /\ lost < MaxLost
    /\ lost' = lost + 1
    /\ wire' = Tail(wire)
    /\ in_step' = FALSE
    /\ packet' = <<>>
    /\ UNCHANGED <<x, y, buttons, mouse_byte>>

-----------------------------------------------------------------------------
(* mouse_handler.                                                          *)

AtLeastZero(n) == IF n < 0 THEN 0 ELSE n

\* Mutant: the byte is sign-extended by its own top bit.
DxOfByte(b0, b1) == IF Bit(b1, 128) THEN b1 - 256 ELSE b1

\* | 0xFFFFFF00 makes the nine bits a negative number.
Dx(b0, b1) == IF Bit(b0, 16) THEN b1 - 256 ELSE b1

\* Mutant: the sign bit goes to the byte, and the number is negated then.
DyNegatedLast(b0, b2) == -(IF Bit(b0, 32) THEN b2 - 256 ELSE b2)

\* The byte is negated first: | 0xFFFFFF00 changes 0 only, which it makes -256.
Dy(b0, b2) == IF Bit(b0, 32) /\ b2 = 0 THEN -256 ELSE -b2

mouse_cycle == Len(mouse_byte)

\* Mutant: every byte can be a first one.
GatherAny(byte) ==
    IF mouse_cycle = 2 THEN <<>> ELSE Append(mouse_byte, byte)

\* The bytes gathered after another one.
Gather(byte) ==
    IF mouse_cycle = 2 \/ (mouse_cycle = 0 /\ ~Bit(byte, 8))
    THEN <<>>
    ELSE Append(mouse_byte, byte)

\* Whole, and no byte but the first looks like a first one.
Calm == packet # <<>> /\ ~Bit(packet[2], 8) /\ ~Bit(packet[3], 8)

Handler ==
    /\ wire # <<>>
    /\ wire' = Tail(wire)
    /\ mouse_byte' = Gather(Head(wire))
    /\ IF mouse_cycle = 2
       THEN /\ x' = AtLeastZero(x + Dx(mouse_byte[1], mouse_byte[2]))
            /\ y' = AtLeastZero(y + Dy(mouse_byte[1], Head(wire)))
            /\ buttons' = mouse_byte[1] % 8
       ELSE UNCHANGED <<x, y, buttons>>
    /\ in_step' = (in_step \/ (Len(wire) = 1 /\ Calm))
    /\ packet' = IF Len(wire) = 1 THEN <<>> ELSE packet
    /\ UNCHANGED lost

MouseNext ==
    \/ \E b0 \in Flags, b1 \in Data, b2 \in Data : Packet(b0, b1, b2)
    \/ Lose
    \/ Handler

MouseSpec == MouseInit /\ [][MouseNext]_mouseVars

-----------------------------------------------------------------------------
(* Properties.                                                             *)

MouseTypeOK ==
    /\ {x, y} \subseteq Nat
    /\ buttons \in 0 .. 7
    /\ mouse_byte \in Seq(0 .. 255) /\ mouse_cycle \in 0 .. 2
    /\ Len(wire) <= 4
    /\ lost \in 0 .. MaxLost
    /\ in_step \in BOOLEAN

\* Out of step, at boot or after any loss, the handler is back in step after one
\* whole packet whose movement bytes do not look like first bytes, wherever in the
\* packet it stood, and stays so until a byte is lost (mouse.c:69-91).
Resync == MouseTypeOK /\ (in_step => mouse_cycle = (3 - Len(wire)) % 3)

\* In step, a packet moves the pointer sideways by the nine-bit number the device
\* sent, up to the left edge, and its buttons are those of the mouse, although
\* the handler put the three together from three interrupts (mouse.c:80-86).
Follows ==
    [][(in_step /\ mouse_cycle = 2 /\ mouse_cycle' = 0) =>
         LET sent == packet[2] - 256 * ((packet[1] \div 16) % 2)
         IN  /\ (x' = IF x + sent < 0 THEN 0 ELSE x + sent)
             /\ buttons' = packet[1] % 8]_mouseVars

\* The pointer never goes down, in step or not: the sign of a downward movement
\* is lost on a byte that was negated before (mouse.c:81-84).
NeverDescends == [][y' <= y]_mouseVars
=============================================================================
