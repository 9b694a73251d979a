---------------------------- MODULE MCScancode ----------------------------
(* Keys by the codes a PS/2 keyboard gives them (set 1): a letter, a digit, *)
(* shift, caps lock and an arrow.                                          *)
EXTENDS Scancode

Key(code, ext) == [code |-> code, ext |-> ext]

LetterQ == Key(\h10, FALSE)
Digit1 == Key(\h02, FALSE)
Shift == Key(LeftShift, FALSE)
Caps == Key(CapsLock, FALSE)
Up == Key(\h48, TRUE)

MCKeys == {LetterQ, Digit1, Shift, Caps, Up}

\* A held caps lock would toggle again and again; here it is only tapped.
MCRepeating == {LetterQ, Shift, Up}
=============================================================================
