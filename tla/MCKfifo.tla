------------------------------ MODULE MCKfifo ------------------------------
(* A ring of four slots and two characters: it fills, wraps and drops.     *)
EXTENDS Kfifo

CONSTANTS a, b

MCChars == {a, b}
=============================================================================
