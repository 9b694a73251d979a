------------------------------ MODULE Terminal ------------------------------
(***************************************************************************)
(* A terminal of desktop.c: the text it shows and the line being typed,    *)
(* by their lengths.  The text is stored up to TERM_BUF_SIZE - 1 by        *)
(* term_puts, but Enter stores its newline and the '\0' behind it without  *)
(* a test, and behind the text lies buf_len itself, least significant byte *)
(* first.                                                                  *)
(*                                                                         *)
(* line_pos is left out: it is always line_len.  What a command does to    *)
(* the file system is left out; its output is a length.                    *)
(***************************************************************************)
EXTENDS Integers

CONSTANTS
    TERM_BUF_SIZE,   \* room for the text (4096)
    TERM_LINE_SIZE,  \* room for the line, '\0' included (256)
    BYTE,            \* values of a byte (256)
    NEWLINE,         \* the code of '\n' (10)
    PROMPT           \* length of the prompt (17)

\* buf_len, were it 4096, would have 0 in its first byte and fit in two.
ASSUME TerminalAssumption ==
    /\ {TERM_BUF_SIZE, TERM_LINE_SIZE, BYTE} \subseteq Nat \ {0}
    /\ TERM_BUF_SIZE % BYTE = 0
    /\ TERM_BUF_SIZE < BYTE * BYTE
    /\ NEWLINE \in 1 .. BYTE - 1
    /\ PROMPT \in Nat

\* buf_len after v is written over its first or its second byte.
FirstByte(len, v) == (len \div BYTE) * BYTE + v
SecondByte(len, v) ==
    (len \div (BYTE * BYTE)) * BYTE * BYTE + v * BYTE + (len % BYTE)

\* term_puts of n characters: what does not fit is dropped.
Puts(len, n) ==
    IF len >= TERM_BUF_SIZE - 1 THEN len
    ELSE IF len + n > TERM_BUF_SIZE - 1 THEN TERM_BUF_SIZE - 1
    ELSE len + n

\* Mutant: the '\0' is put one place further.
NewlineApart(len) ==
    IF len < TERM_BUF_SIZE - 1 THEN {len + 1}
    ELSE IF len = TERM_BUF_SIZE - 1 THEN {SecondByte(TERM_BUF_SIZE, 0)}
    ELSE {FirstByte(len + 1, NEWLINE), SecondByte(len + 1, 0)}

\* buffer[buf_len++] = '\n'; buffer[buf_len] = '\0'.  In a text that is full the
\* '\0' goes to the first byte of buf_len, which holds 0.  One newline later the
\* '\n' goes there, before or after the increment is stored, which C leaves open,
\* and buf_len may be read again for the '\0' or not: the '\0' then falls into the
\* line, or on the second byte of buf_len.  A text that has grown into the line is
\* not followed further (len <= TERM_BUF_SIZE).
Newline(len) ==
    IF len < TERM_BUF_SIZE - 1 THEN {len + 1}
    ELSE IF len = TERM_BUF_SIZE - 1 THEN {FirstByte(TERM_BUF_SIZE, 0)}
    ELSE {FirstByte(len + 1, NEWLINE), SecondByte(len + 1, 0),
          SecondByte(FirstByte(len + 1, NEWLINE), 0)}

\* term_execute: what the text is after a command that prints n characters, or
\* clears the screen, and the prompt.
Executed(len, n) == Puts(Puts(len, n), PROMPT)
Cleared == Puts(0, PROMPT)

\* terminal_keypress.  Enter runs the line; a blank one prints the prompt only.
TextAfter(len, blank, outputs) ==
    IF blank THEN {Executed(len, 0)}
    ELSE {Executed(len, n) : n \in outputs \cup {0}} \cup {Cleared}

Enter(t, outputs) ==
    {[t EXCEPT !.buf_len = len, !.line_len = 0] :
        len \in UNION {TextAfter(nl, t.line_len = 0, outputs) : nl \in Newline(t.buf_len)}}

Erase(t) == IF t.line_len > 0 THEN [t EXCEPT !.line_len = @ - 1] ELSE t

Type(t) == IF t.line_len < TERM_LINE_SIZE - 1 THEN [t EXCEPT !.line_len = @ + 1] ELSE t
=============================================================================
