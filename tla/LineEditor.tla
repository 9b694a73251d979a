----------------------------- MODULE LineEditor -----------------------------
(***************************************************************************)
(* keyboard_wait_line, the line editor the shell reads its commands with:  *)
(* what is typed, erased and recalled with the arrow keys until Enter, over *)
(* any number of calls.  The history is a ring of fixed slots, shorter     *)
(* than a line can be.  A call begins where the one before it ended.       *)
(***************************************************************************)
EXTENDS Integers, Sequences

CONSTANTS
    MAX_LEN,   \* SHELL_MAX_INPUT, '\0' included (1024)
    SLOT_LEN,  \* length of a history slot, '\0' included (128)
    HIST,      \* history slots (16)
    Chars,     \* printable characters
    MaxLines   \* bound: lines that are saved

ASSUME EditorAssumption ==
    /\ {MAX_LEN, SLOT_LEN, HIST} \subseteq Nat \ {0}
    /\ 2 <= SLOT_LEN /\ SLOT_LEN <= MAX_LEN
    /\ MaxLines \in Nat

VARIABLES
    buf,         \* buf[0..i-1]
    hist,
    hist_count,
    hist_pos,    \* -1: on the fresh line
    backup,      \* current_backup
    saved,       \* history: every line that was saved, in full, oldest first
    fresh        \* history: the line that was left with the up arrow

vars == <<buf, hist, hist_count, hist_pos, backup, saved, fresh>>

HistSlots == 0 .. HIST - 1

Init ==
    /\ buf = <<>>
    /\ hist = [k \in HistSlots |-> <<>>]
    /\ hist_count = 0
    /\ hist_pos = -1
    /\ backup = <<>>
    /\ saved = <<>>
    /\ fresh = <<>>

Prefix(line, n) == SubSeq(line, 1, IF Len(line) <= n THEN Len(line) ELSE n)

\* strncpy of at most SLOT_LEN - 1 characters.
Trunc(line) == Prefix(line, SLOT_LEN - 1)

-----------------------------------------------------------------------------
\* Printable characters go in while there is room; every other character but
\* those below is ignored.
Type(ch) ==
    /\ Len(buf) < MAX_LEN - 1
    /\ buf' = Append(buf, ch)
    /\ UNCHANGED <<hist, hist_count, hist_pos, backup, saved, fresh>>

\* Mutant: the start of the line is not looked for.
BackspaceAnyway ==
    /\ buf' = SubSeq(buf, 1, Len(buf) - 1)
    /\ UNCHANGED <<hist, hist_count, hist_pos, backup, saved, fresh>>

Backspace ==
    /\ buf # <<>>
    /\ buf' = SubSeq(buf, 1, Len(buf) - 1)
    /\ UNCHANGED <<hist, hist_count, hist_pos, backup, saved, fresh>>

\* A line is saved when it is not what the last slot holds.
Save ==
    /\ hist_count < MaxLines
    /\ hist' = [hist EXCEPT ![hist_count % HIST] = Trunc(buf)]
    /\ hist_count' = hist_count + 1
    /\ saved' = Append(saved, buf)

Repeated == hist_count > 0 /\ buf = hist[(hist_count - 1) % HIST]

Enter ==
    /\ IF buf # <<>> /\ ~Repeated
       THEN Save
       ELSE UNCHANGED <<hist, hist_count, saved>>
    /\ buf' = <<>>
    /\ hist_pos' = -1
    /\ backup' = <<>>
    /\ fresh' = <<>>

Available == IF hist_count > HIST THEN HIST ELSE hist_count

\* Mutant: the index is counted from the slot after the newest.
SlotAfter(pos) == (hist_count - pos) % HIST

\* The slot that is pos lines back.
Slot(pos) == (hist_count - 1 - pos) % HIST

Recall(pos) == buf' = Prefix(hist[Slot(pos)], MAX_LEN - 1)

\* Mutant: the fresh line is backed up at every step up.
UpBacksUpAlways ==
    /\ hist_count > 0
    /\ backup' = Trunc(buf)
    /\ fresh' = IF hist_pos = -1 THEN buf ELSE fresh
    /\ IF hist_pos < Available - 1
       THEN /\ hist_pos' = hist_pos + 1
            /\ Recall(hist_pos + 1)
       ELSE UNCHANGED <<hist_pos, buf>>
    /\ UNCHANGED <<hist, hist_count, saved>>

Up ==
    /\ hist_count > 0
    /\ IF hist_pos = -1
       THEN backup' = Trunc(buf) /\ fresh' = buf
       ELSE UNCHANGED <<backup, fresh>>
    /\ IF hist_pos < Available - 1
       THEN /\ hist_pos' = hist_pos + 1
            /\ Recall(hist_pos + 1)
       ELSE UNCHANGED <<hist_pos, buf>>
    /\ UNCHANGED <<hist, hist_count, saved>>

Down ==
    /\ hist_pos >= 0
    /\ hist_pos' = hist_pos - 1
    /\ IF hist_pos = 0
       THEN buf' = Prefix(backup, MAX_LEN - 1)
       ELSE Recall(hist_pos - 1)
    /\ UNCHANGED <<hist, hist_count, backup, saved, fresh>>

Next ==
    \/ \E ch \in Chars : Type(ch)
    \/ Backspace
    \/ Enter
    \/ Up
    \/ Down

Spec == Init /\ [][Next]_vars

-----------------------------------------------------------------------------
(* Properties.                                                             *)

\* The line and every slot end inside their arrays.
TypeOK ==
    /\ buf \in Seq(Chars) /\ Len(buf) < MAX_LEN
    /\ hist \in [HistSlots -> Seq(Chars)]
    /\ \A k \in HistSlots : Len(hist[k]) < SLOT_LEN
    /\ hist_count \in Nat
    /\ hist_pos \in -1 .. HIST - 1
    /\ backup \in Seq(Chars) /\ Len(backup) < SLOT_LEN
    /\ saved \in Seq(Seq(Chars))
    /\ fresh \in Seq(Chars)

\* The n-th line back in the history, however often the ring has gone round and
\* whatever was typed over a recalled line, is the n-th last line saved, cut to a
\* slot (the index computed in keyboard.c:173-174 and 201-202).
Recalls ==
    [][(hist_pos' # hist_pos /\ hist_pos' >= 0)
         => (buf' = Trunc(saved[Len(saved) - hist_pos']))]_vars

\* Coming back down gives the line that was left, cut to a slot, through any
\* number of ups, downs and edits of recalled lines in between.
ComesBack == [][(Down /\ hist_pos = 0) => (buf' = Trunc(fresh))]_vars
=============================================================================
