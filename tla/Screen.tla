------------------------------- MODULE Screen -------------------------------
(***************************************************************************)
(* The text screen of vga.c under the shell's input: the prompt, the echo  *)
(* of the line editor and what commands print.  The editor erases with     *)
(* '\b', which does nothing in column 0: what was typed before the line    *)
(* reached the right edge stays on the screen.                             *)
(*                                                                         *)
(* Colours and the hardware cursor are left out, and vga_set_cursor, which *)
(* only the game calls.                                                    *)
(***************************************************************************)
EXTENDS LineEditor

CONSTANTS
    VGA_WIDTH,        \* 80
    VGA_HEIGHT,       \* 25
    TAB,              \* columns between tab stops (8)
    NL, CR, HT, BS,   \* '\n', '\r', '\t' and '\b'
    Glyphs,           \* the other characters, which a cell shows
    Blank,            \* ' '
    PromptText,       \* what shell_print_prompt prints
    Outputs           \* what commands print

Controls == {NL, CR, HT, BS}

Cells == 0 .. VGA_WIDTH * VGA_HEIGHT - 1

ASSUME ScreenAssumption ==
    /\ {VGA_WIDTH, VGA_HEIGHT, TAB} \subseteq Nat \ {0}
    /\ NL \notin {CR, HT, BS} /\ CR \notin {HT, BS} /\ HT # BS
    /\ Glyphs \cap Controls = {}
    /\ Chars \cup {Blank} \subseteq Glyphs
    /\ PromptText \in Seq(Glyphs)
    /\ Outputs \subseteq Seq(Glyphs \cup Controls)

VARIABLES
    vga,      \* vga_buf, cur_row and cur_col
    reading,  \* the shell is in keyboard_wait_line
    home,     \* history: the column after the prompt
    above,    \* history: the row the prompt is in, negative once it scrolled away
    wrapped   \* history: the line has reached the right edge since the prompt

view == <<vga, reading, home, above, wrapped>>
consoleVars == <<vars, view>>

-----------------------------------------------------------------------------
(* vga_putc and vga_puts, as functions of the screen.                      *)

Pos(s) == s.row * VGA_WIDTH + s.col

Erased(s) ==
    IF s.col > 0
    THEN [s EXCEPT !.col = @ - 1, !.cells[Pos(s) - 1] = Blank]
    ELSE s

\* The next tab stop.
Stop(col) == (col + TAB) - ((col + TAB) % TAB)

NextRow(s) == [s EXCEPT !.col = 0, !.row = @ + 1]

Moved(s, c) ==
    CASE c = NL -> NextRow(s)
      [] c = CR -> [s EXCEPT !.col = 0]
      [] c = HT -> [s EXCEPT !.col = Stop(@)]
      [] c = BS -> Erased(s)
      [] OTHER  -> [s EXCEPT !.cells[Pos(s)] = c, !.col = @ + 1]

Wrap(s) == IF s.col >= VGA_WIDTH THEN NextRow(s) ELSE s

\* vga_scroll.
Scrolled(s) ==
    [s EXCEPT !.row = VGA_HEIGHT - 1,
              !.cells = [k \in Cells |-> IF k + VGA_WIDTH \in Cells THEN @[k + VGA_WIDTH]
                                         ELSE Blank]]

Putc(s, c) ==
    LET at == Wrap(Moved(s, c))
    IN  IF at.row >= VGA_HEIGHT THEN Scrolled(at) ELSE at

\* The screen after each character of a text.
Prints(s, text) ==
    LET after[i \in Nat] == IF i = 0 THEN s ELSE Putc(after[i - 1], text[i])
    IN  after

Puts(s, text) == Prints(s, text)[Len(text)]

\* vga_clear.
Cleared == [cells |-> [k \in Cells |-> Blank], row |-> 0, col |-> 0]

\* Nothing stands behind the cursor.
Swept(s) == \A k \in Cells : k >= Pos(s) => s.cells[k] = Blank

\* A '\r' is followed by what wipes the line: otherwise the next prompt would
\* stand before the rest of it.
ASSUME OutputsAssumption == \A text \in Outputs : Swept(Puts(Cleared, text))

Overflows(s, c) == Wrap(Moved(s, c)).row >= VGA_HEIGHT

\* How many rows the screen scrolls while the text is printed.
Scrolls(s, text) ==
    LET upTo[i \in Nat] ==
          IF i = 0 THEN 0
          ELSE upTo[i - 1] + (IF Overflows(Prints(s, text)[i - 1], text[i]) THEN 1 ELSE 0)
    IN  upTo[Len(text)]

-----------------------------------------------------------------------------
(* The editor and the shell.                                               *)

\* shell_print_prompt, on a screen.
Prompt(s) ==
    /\ vga' = Puts(s, PromptText)
    /\ home' = vga'.col
    /\ above' = vga'.row
    /\ wrapped' = FALSE
    /\ reading' = TRUE

\* vga_clear, init_run's messages and the first prompt, at the end of the screen.
ConsoleInit ==
    /\ Init
    /\ vga = Puts([Cleared EXCEPT !.row = VGA_HEIGHT - 1], PromptText)
    /\ home = vga.col
    /\ above = vga.row
    /\ wrapped = FALSE
    /\ reading = TRUE

\* What the editor prints, when the line is buf' afterwards.
Echo(text) ==
    /\ vga' = Puts(vga, text)
    /\ above' = above - Scrolls(vga, text)
    /\ wrapped' = (wrapped \/ home + Len(buf') >= VGA_WIDTH)
    /\ UNCHANGED home

\* Mutant: the first character of the old line is not erased.
BackToSecond == [i \in 1 .. IF buf = <<>> THEN 0 ELSE Len(buf) - 1 |-> BS]

\* As many '\b' as the line is long.
Back == [i \in 1 .. Len(buf) |-> BS]

EditLine ==
    \/ \E ch \in Chars : Type(ch) /\ Echo(<<ch>>)
    \/ Backspace /\ Echo(<<BS>>)
    \/ Up /\ Echo(IF hist_pos' # hist_pos THEN Back \o buf' ELSE <<>>)
    \/ Down /\ Echo(Back \o buf')

Edit == reading /\ EditLine /\ UNCHANGED reading

Return ==
    /\ reading
    /\ Enter
    /\ vga' = Puts(vga, <<NL>>)
    /\ reading' = FALSE
    /\ UNCHANGED <<home, above, wrapped>>

\* A command prints, and the shell prompts again.
Command ==
    /\ ~reading
    /\ \E text \in Outputs : Prompt(Puts(vga, text))
    /\ UNCHANGED vars

\* clear
Clear ==
    /\ ~reading
    /\ Prompt(Cleared)
    /\ UNCHANGED vars

ConsoleNext == Edit \/ Return \/ Command \/ Clear

ConsoleSpec == ConsoleInit /\ [][ConsoleNext]_consoleVars

-----------------------------------------------------------------------------
(* Properties.                                                             *)

\* Every character goes into vga_buf, the cursor included.
ScreenTypeOK ==
    /\ TypeOK
    /\ vga.cells \in [Cells -> Glyphs]
    /\ vga.row \in 0 .. VGA_HEIGHT - 1
    /\ vga.col \in 0 .. VGA_WIDTH - 1
    /\ home \in 0 .. VGA_WIDTH - 1
    /\ above <= vga.row

\* A line that has stayed in the prompt's row is what that row shows after the
\* prompt, through any typing, erasing and recalling of longer and shorter lines:
\* nothing of a line that was there before is left (keyboard.c:155-160, 178-209).
ShowsLine ==
    /\ ScreenTypeOK
    /\ reading /\ ~wrapped =>
         \A c \in home .. VGA_WIDTH - 1 :
           vga.cells[vga.row * VGA_WIDTH + c] =
             IF c - home < Len(buf) THEN buf[c - home + 1] ELSE Blank

\* The editor never erases the prompt, however the line wrapped and scrolled.
PromptKept ==
    reading /\ above >= 0 /\ home >= Len(PromptText) =>
      \A i \in 1 .. Len(PromptText) :
        vga.cells[above * VGA_WIDTH + home - Len(PromptText) + i - 1] = PromptText[i]
=============================================================================
