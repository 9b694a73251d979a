------------------------------ MODULE MCScreen ------------------------------
(***************************************************************************)
(* Lines of up to two characters, one less than a row holds with the       *)
(* prompt, on two rows; history slots of one character, in a ring of two   *)
(* slots that goes round twice.  Commands print nothing, a line, a tab and *)
(* no end of line, or what they wipe again.                                *)
(***************************************************************************)
EXTENDS Screen

CONSTANTS a, b, dollar

MCPrompt == <<dollar>>
MCOutputs == {<<>>, <<a, NL>>, <<HT, b>>, <<a, a, CR, Blank, Blank, CR>>}
=============================================================================
