----------------------------- MODULE CharQueue -----------------------------
(***************************************************************************)
(* What the keyboard driver promises its one reader: a bounded FIFO of     *)
(* characters.  Typed characters are delivered in order, each at most      *)
(* once, and a character is dropped only when the queue is full.           *)
(* keyboard_getchar answers as soon as there is something to answer,       *)
(* keyboard_try_getchar answers at once.                                   *)
(***************************************************************************)
EXTENDS Naturals, Sequences

CONSTANTS
    Capacity,  \* characters the queue holds before it drops what is typed
    Chars,     \* characters that can be typed
    NoChar     \* the answer of a failed keyboard_try_getchar ('\0')

VARIABLES
    q,    \* typed and not yet delivered, oldest first
    rd,   \* the reader: "away", or inside "getchar" or "try"
    got,  \* the answer of the last finished call
    dropped  \* the last character typed found no room

vars == <<q, rd, got, dropped>>

Init == q = <<>> /\ rd = "away" /\ got = NoChar /\ dropped = FALSE

Type(ch) ==
    /\ q' = IF Len(q) < Capacity THEN Append(q, ch) ELSE q
    /\ dropped' = ~(Len(q) < Capacity)
    /\ UNCHANGED <<rd, got>>

Call(kind) ==
    /\ rd = "away"
    /\ rd' = kind
    /\ got' = NoChar
    /\ UNCHANGED <<q, dropped>>

Deliver ==
    /\ rd # "away"
    /\ q # <<>>
    /\ got' = Head(q)
    /\ q' = Tail(q)
    /\ rd' = "away"
    /\ UNCHANGED dropped

GiveUp ==
    /\ rd = "try"
    /\ q = <<>>
    /\ rd' = "away"
    /\ UNCHANGED <<q, got, dropped>>

Next ==
    \/ \E ch \in Chars : Type(ch)
    \/ \E kind \in {"getchar", "try"} : Call(kind)
    \/ Deliver
    \/ GiveUp

Safe == Init /\ [][Next]_vars

\* A call that can be answered is answered.
Answered == WF_vars(Deliver \/ GiveUp)

Spec == Safe /\ Answered
=============================================================================
