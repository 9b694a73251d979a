--------------------------- MODULE ConsoleProofs ----------------------------
(***************************************************************************)
(* Proofs about the line editor and the screen it echoes on, for every     *)
(* length of a line and of a slot, every size of the history and of the    *)
(* screen, and any text of the commands: the arrays are never overrun, the *)
(* arrow keys find the lines that were saved, and the row of the prompt    *)
(* shows the line that Enter will return.                                  *)
(***************************************************************************)
EXTENDS Screen, Basics, SequenceTheorems, TLAPS

-----------------------------------------------------------------------------
(* The line editor.                                                        *)

LEMMA Bounds ==
    /\ MAX_LEN \in Nat /\ SLOT_LEN \in Nat /\ HIST \in Nat \ {0}
    /\ 2 <= SLOT_LEN /\ SLOT_LEN <= MAX_LEN
  BY EditorAssumption

\* What Prefix returns.
LEMMA PrefixIs ==
    ASSUME NEW line \in Seq(Chars), NEW n \in Nat
    PROVE  /\ Prefix(line, n) \in Seq(Chars)
           /\ Len(Prefix(line, n)) <= n
           /\ Len(line) <= n => Prefix(line, n) = line
<1> DEFINE m == IF Len(line) <= n THEN Len(line) ELSE n
<1>1. m \in 0 .. Len(line) /\ m <= n
  BY LenProperties
<1>2. Prefix(line, n) = SubSeq(line, 1, m)
  BY DEF Prefix
<1> HIDE DEF m
<1>3. SubSeq(line, 1, m) \in Seq(Chars) /\ Len(SubSeq(line, 1, m)) = m
  BY <1>1, SubSeqProperties, LenProperties
<1>4. ASSUME Len(line) <= n PROVE SubSeq(line, 1, m) = line
  <2>1. m = Len(line)
    BY <1>4 DEF m
  <2>2. \A i \in 1 .. m : SubSeq(line, 1, m)[i] = line[i]
    BY <1>1, <2>1, SubSeqProperties, LenProperties
  <2> QED
    BY <1>3, <2>1, <2>2, SeqEqual
<1> QED
  BY <1>1, <1>2, <1>3, <1>4, LenProperties

\* Two indices less than a turn apart are in different slots.
LEMMA DifferentSlots ==
    ASSUME NEW i \in Nat, NEW j \in Nat, i < j, j < i + HIST
    PROVE  i % HIST # j % HIST
<1> DEFINE q1 == i \div HIST
           q2 == j \div HIST
           r1 == i % HIST
           r2 == j % HIST
<1>1. /\ q1 \in Int /\ r1 \in 0 .. HIST - 1 /\ i = HIST * q1 + r1
      /\ q2 \in Int /\ r2 \in 0 .. HIST - 1 /\ j = HIST * q2 + r2
  BY Bounds
<1> HIDE DEF q1, q2, r1, r2
<1> SUFFICES ASSUME r1 = r2 PROVE FALSE
  BY DEF r1, r2
<1>2. 0 < HIST * q2 - HIST * q1 /\ HIST * q2 - HIST * q1 < HIST
  BY Bounds, <1>1
<1>3. HIST * q2 - HIST * q1 = HIST * (q2 - q1)
  BY Bounds, <1>1
<1>4. CASE q2 - q1 >= 1
  <2>1. HIST * (q2 - q1) >= HIST * 1
    BY Bounds, <1>1, <1>4
  <2> QED
    BY Bounds, <1>1, <1>2, <1>3, <2>1
<1>5. CASE q2 - q1 <= 0
  <2>1. HIST * (q2 - q1) <= HIST * 0
    BY Bounds, <1>1, <1>5
  <2> QED
    BY Bounds, <1>1, <1>2, <1>3, <2>1
<1> QED
  BY <1>1, <1>4, <1>5

LEMMA SlotInRange ==
    ASSUME NEW i \in Nat
    PROVE  i % HIST \in HistSlots
  BY Bounds DEF HistSlots

(***************************************************************************)
(* The inductive invariant: the ring holds the last HIST saved lines, cut  *)
(* to a slot, line k in slot (k - 1) % HIST; hist_pos never goes past the  *)
(* oldest of them.                                                         *)
(***************************************************************************)
RingIsRecent ==
    /\ hist_count = Len(saved)
    /\ \A k \in 1 .. Len(saved) :
         Len(saved) < k + HIST => hist[(k - 1) % HIST] = Trunc(saved[k])

PosInRing == hist_pos < hist_count /\ hist_pos < HIST

\* The backup is the line that was left.
BackedUp == backup = Trunc(fresh)

Inv == TypeOK /\ RingIsRecent /\ PosInRing /\ BackedUp

LEMMA TruncEmpty == Trunc(<<>>) = <<>>
<1>1. SLOT_LEN - 1 \in Nat /\ <<>> \in Seq(Chars) /\ Len(<<>>) = 0 /\ 0 <= SLOT_LEN - 1
  BY Bounds
<1> QED
  BY <1>1, PrefixIs DEF Trunc

LEMMA InitInv == Init => Inv
<1> SUFFICES ASSUME Init PROVE Inv
  OBVIOUS
<1>1. <<>> \in Seq(Chars) /\ <<>> \in Seq(Seq(Chars)) /\ Len(<<>>) = 0
  OBVIOUS
<1>2. TypeOK
  BY <1>1, Bounds DEF Init, TypeOK
<1>3. RingIsRecent
  BY <1>1 DEF Init, RingIsRecent
<1>4. PosInRing
  BY Bounds DEF Init, PosInRing
<1>5. BackedUp
  BY TruncEmpty DEF Init, BackedUp
<1> QED
  BY <1>2, <1>3, <1>4, <1>5 DEF Inv

\* A line that was saved, as its slot holds it.
LEMMA TruncIs ==
    ASSUME NEW line \in Seq(Chars)
    PROVE  Trunc(line) \in Seq(Chars) /\ Len(Trunc(line)) < SLOT_LEN
<1>1. SLOT_LEN - 1 \in Nat
  BY Bounds
<1>2. Prefix(line, SLOT_LEN - 1) \in Seq(Chars) /\ Len(Prefix(line, SLOT_LEN - 1)) <= SLOT_LEN - 1
  BY <1>1, PrefixIs
<1> QED
  BY <1>1, <1>2, Bounds, LenProperties DEF Trunc

\* A line as short as a slot is copied to buf whole.
LEMMA SlotFits ==
    ASSUME NEW line \in Seq(Chars), Len(line) < SLOT_LEN
    PROVE  Prefix(line, MAX_LEN - 1) = line /\ Len(line) < MAX_LEN
<1>1. MAX_LEN - 1 \in Nat /\ Len(line) \in Nat /\ Len(line) <= MAX_LEN - 1
  BY Bounds, LenProperties
<1> QED
  BY <1>1, PrefixIs, Bounds

LEMMA EnterInv ==
    ASSUME Inv, Enter
    PROVE  Inv'
<1> USE DEF Inv
<1>1. /\ buf' \in Seq(Chars) /\ Len(buf') < MAX_LEN
      /\ hist_pos' = -1 /\ backup' \in Seq(Chars) /\ Len(backup') < SLOT_LEN
      /\ fresh' \in Seq(Chars)
  BY Bounds DEF Enter, TypeOK
<1>b. BackedUp'
  BY TruncEmpty DEF Enter, BackedUp
<1>2. CASE UNCHANGED <<hist, hist_count, saved>>
  <2>1. TypeOK'
    BY <1>1, <1>2, Bounds DEF TypeOK
  <2>2. RingIsRecent'
    BY <1>2 DEF RingIsRecent
  <2>3. PosInRing'
    BY <1>1, <1>2, Bounds DEF PosInRing, TypeOK
  <2> QED
    BY <1>b, <2>1, <2>2, <2>3
<1>3. CASE Save
  <2> DEFINE n == Len(saved)
  <2>1. n \in Nat /\ hist_count = n /\ saved \in Seq(Seq(Chars)) /\ buf \in Seq(Chars)
    BY LenProperties DEF TypeOK, RingIsRecent
  <2>2. /\ saved' \in Seq(Seq(Chars)) /\ Len(saved') = n + 1
        /\ \A k \in 1 .. n : saved'[k] = saved[k]
        /\ saved'[n + 1] = buf
    BY <1>3, <2>1, AppendProperties DEF Save
  <2>3. n % HIST \in HistSlots
    BY <2>1, SlotInRange
  <2>4. /\ hist' \in [HistSlots -> Seq(Chars)]
        /\ hist'[n % HIST] = Trunc(buf)
        /\ \A slot \in HistSlots : slot # n % HIST => hist'[slot] = hist[slot]
    BY <1>3, <2>1, <2>3, TruncIs DEF Save, TypeOK
  <2>5. \A slot \in HistSlots : Len(hist'[slot]) < SLOT_LEN
    BY <2>1, <2>4, TruncIs DEF TypeOK
  <2>6. hist_count' = n + 1
    BY <1>3, <2>1 DEF Save
  <2> HIDE DEF n
  <2>7. TypeOK'
    BY <1>1, <2>1, <2>2, <2>4, <2>5, <2>6, Bounds DEF TypeOK
  <2>8. ASSUME NEW k \in 1 .. n + 1, n + 1 < k + HIST
        PROVE  hist'[(k - 1) % HIST] = Trunc(saved'[k])
    <3>1. CASE k = n + 1
      BY <2>1, <2>2, <2>4, <3>1
    <3>2. CASE k # n + 1
      <4>1. k \in 1 .. n /\ k - 1 \in Nat /\ k - 1 < n /\ n < k - 1 + HIST
        BY <2>1, <2>8, <3>2, Bounds
      <4>2. (k - 1) % HIST # n % HIST /\ (k - 1) % HIST \in HistSlots
        BY <2>1, <4>1, DifferentSlots, SlotInRange
      <4>3. hist[(k - 1) % HIST] = Trunc(saved[k])
        BY <2>1, <4>1, Bounds DEF RingIsRecent, n
      <4> QED
        BY <2>2, <2>4, <4>1, <4>2, <4>3
    <3> QED
      BY <3>1, <3>2
  <2>9. RingIsRecent'
    BY <2>2, <2>6, <2>8 DEF RingIsRecent
  <2>10. PosInRing'
    BY <1>1, <2>1, <2>6, Bounds DEF PosInRing
  <2> QED
    BY <1>b, <2>7, <2>9, <2>10
<1> QED
  BY <1>2, <1>3 DEF Enter

\* A position in the ring recalls the line saved so many lines back.
LEMMA RecallIs ==
    ASSUME Inv, NEW pos \in Nat, pos < hist_count, pos < HIST, Recall(pos)
    PROVE  /\ buf' = Trunc(saved[Len(saved) - pos])
           /\ buf' \in Seq(Chars)
           /\ Len(buf') < MAX_LEN
<1> DEFINE k == hist_count - pos
<1>1. /\ hist_count = Len(saved) /\ hist_count \in Nat
      /\ k \in 1 .. Len(saved) /\ k - 1 \in Nat /\ Len(saved) < k + HIST
  BY Bounds DEF Inv, RingIsRecent, TypeOK
<1>2. Slot(pos) = (k - 1) % HIST
  <2>1. hist_count - 1 - pos = k - 1
    BY <1>1
  <2> QED
    BY <2>1 DEF Slot
<1>3. Slot(pos) \in HistSlots
  BY <1>1, <1>2, SlotInRange
<1>4. hist[Slot(pos)] \in Seq(Chars) /\ Len(hist[Slot(pos)]) < SLOT_LEN
  BY <1>3 DEF Inv, TypeOK
<1>5. buf' = hist[Slot(pos)] /\ Len(hist[Slot(pos)]) < MAX_LEN
  BY <1>4, SlotFits DEF Recall
<1>6. hist[Slot(pos)] = Trunc(saved[k])
  BY <1>1, <1>2 DEF Inv, RingIsRecent
<1> QED
  BY <1>1, <1>4, <1>5, <1>6

LEMMA UpInv ==
    ASSUME Inv, Up
    PROVE  Inv'
<1> USE DEF Inv
<1>1. /\ UNCHANGED <<hist, hist_count, saved>>
      /\ hist_count \in Nat /\ hist_count > 0 /\ hist_pos \in -1 .. HIST - 1
      /\ buf \in Seq(Chars)
  BY DEF Up, TypeOK
<1>2. /\ backup' \in Seq(Chars) /\ Len(backup') < SLOT_LEN
      /\ fresh' \in Seq(Chars)
  BY <1>1, TruncIs DEF Up, TypeOK
<1>b. BackedUp'
  BY DEF Up, BackedUp
<1>3. CASE hist_pos < Available - 1
  <2>1. /\ hist_pos + 1 \in Nat /\ hist_pos + 1 < hist_count /\ hist_pos + 1 < HIST
    BY <1>1, <1>3, Bounds DEF Available
  <2>2. hist_pos' = hist_pos + 1 /\ Recall(hist_pos + 1)
    BY <1>3 DEF Up
  <2>3. buf' \in Seq(Chars) /\ Len(buf') < MAX_LEN
    BY <2>1, <2>2, RecallIs
  <2> QED
    BY <1>1, <1>2, <1>b, <2>1, <2>2, <2>3, Bounds DEF TypeOK, RingIsRecent, PosInRing
<1>4. CASE UNCHANGED <<hist_pos, buf>>
  BY <1>1, <1>2, <1>4, <1>b DEF TypeOK, RingIsRecent, PosInRing
<1> QED
  BY <1>3, <1>4 DEF Up

LEMMA DownInv ==
    ASSUME Inv, Down
    PROVE  Inv'
<1> USE DEF Inv
<1>1. /\ UNCHANGED <<hist, hist_count, backup, saved, fresh>>
      /\ hist_pos' = hist_pos - 1 /\ hist_pos \in 0 .. HIST - 1
      /\ hist_pos < hist_count /\ hist_count \in Nat
  BY Bounds DEF Down, TypeOK, PosInRing
<1>2. buf' \in Seq(Chars) /\ Len(buf') < MAX_LEN
  <2>1. CASE hist_pos = 0
    <3>1. buf' = Prefix(backup, MAX_LEN - 1) /\ backup \in Seq(Chars) /\ Len(backup) < SLOT_LEN
      BY <2>1 DEF Down, TypeOK
    <3> QED
      BY <3>1, SlotFits
  <2>2. CASE hist_pos # 0
    <3>1. /\ hist_pos - 1 \in Nat /\ hist_pos - 1 < hist_count /\ hist_pos - 1 < HIST
          /\ Recall(hist_pos - 1)
      BY <1>1, <2>2, Bounds DEF Down
    <3> QED
      BY <3>1, RecallIs
  <2> QED
    BY <2>1, <2>2
<1>3. BackedUp'
  BY <1>1 DEF BackedUp
<1> QED
  BY <1>1, <1>2, <1>3, Bounds DEF TypeOK, RingIsRecent, PosInRing

LEMMA NextInv == Inv /\ [Next]_vars => Inv'
<1> SUFFICES ASSUME Inv, [Next]_vars PROVE Inv'
  OBVIOUS
<1>1. ASSUME NEW ch \in Chars, Type(ch) PROVE Inv'
  <2>1. /\ buf' = Append(buf, ch) /\ buf \in Seq(Chars) /\ Len(buf) < MAX_LEN - 1
        /\ UNCHANGED <<hist, hist_count, hist_pos, backup, saved, fresh>>
    BY <1>1 DEF Type, Inv, TypeOK
  <2>2. buf' \in Seq(Chars) /\ Len(buf') = Len(buf) + 1 /\ Len(buf) \in Nat
    BY <2>1, AppendProperties, LenProperties
  <2> QED
    BY <2>1, <2>2, Bounds DEF Inv, TypeOK, RingIsRecent, PosInRing, BackedUp
<1>2. CASE Backspace
  <2>1. /\ buf' = SubSeq(buf, 1, Len(buf) - 1) /\ buf \in Seq(Chars) /\ buf # <<>>
        /\ Len(buf) < MAX_LEN
        /\ UNCHANGED <<hist, hist_count, hist_pos, backup, saved, fresh>>
    BY <1>2 DEF Backspace, Inv, TypeOK
  <2>2. Len(buf) \in Nat \ {0}
    BY <2>1, EmptySeq, LenProperties
  <2>3. buf' \in Seq(Chars) /\ Len(buf') = Len(buf) - 1
    <3> DEFINE n == Len(buf) - 1
    <3>1. n \in Nat /\ n \in Int /\ 1 \in Int /\ \A j \in 1 .. n : buf[j] \in Chars
      BY <2>1, <2>2, LenProperties
    <3> HIDE DEF n
    <3>2. SubSeq(buf, 1, n) \in Seq(Chars)
          /\ Len(SubSeq(buf, 1, n)) = IF 1 <= n THEN n - 1 + 1 ELSE 0
      BY <3>1, SubSeqProperties
    <3>3. Len(SubSeq(buf, 1, n)) = n
      BY <3>1, <3>2
    <3> QED
      BY <2>1, <3>2, <3>3 DEF n
  <2> QED
    BY <2>1, <2>2, <2>3, Bounds DEF Inv, TypeOK, RingIsRecent, PosInRing, BackedUp
<1>3. CASE Enter
  BY <1>3, EnterInv
<1>4. CASE Up
  BY <1>4, UpInv
<1>5. CASE Down
  BY <1>5, DownInv
<1>6. CASE UNCHANGED vars
  BY <1>6 DEF vars, Inv, TypeOK, RingIsRecent, PosInRing, BackedUp
<1> QED
  BY <1>1, <1>2, <1>3, <1>4, <1>5, <1>6 DEF Next

\* buf never outgrows SHELL_MAX_INPUT, no slot outgrows its array, and the
\* history position stays in the ring, whatever is typed.
THEOREM TypeCorrect == Spec => []TypeOK
<1>1. Inv => TypeOK
  BY DEF Inv
<1> QED
  BY <1>1, InitInv, NextInv, PTL DEF Spec

\* The arrow keys find the n-th last saved line at any size of the ring.
THEOREM RecallsSaved == Spec => Recalls
<1>1. Inv /\ [Next]_vars
        => [(hist_pos' # hist_pos /\ hist_pos' >= 0)
              => (buf' = Trunc(saved[Len(saved) - hist_pos']))]_vars
  <2> SUFFICES ASSUME Inv, [Next]_vars, hist_pos' # hist_pos, hist_pos' >= 0
               PROVE  buf' = Trunc(saved[Len(saved) - hist_pos'])
    OBVIOUS
  <2>1. Up \/ Down
    BY DEF Next, Type, Backspace, Enter, vars
  <2>2. hist_pos' \in Nat /\ hist_pos' < hist_count /\ hist_pos' < HIST
    <3>1. hist_pos' \in -1 .. HIST - 1 /\ hist_pos' < hist_count'
      BY NextInv DEF Inv, TypeOK, PosInRing
    <3>2. hist_count' = hist_count
      BY <2>1 DEF Up, Down
    <3> QED
      BY <3>1, <3>2, Bounds
  <2>3. Recall(hist_pos')
    <3>1. CASE Up
      BY <3>1 DEF Up
    <3>2. CASE Down
      <4>1. hist_pos' = hist_pos - 1 /\ hist_pos \in Int /\ hist_pos # 0
        BY <3>2 DEF Down, Inv, TypeOK
      <4> QED
        BY <3>2, <4>1 DEF Down
    <3> QED
      BY <2>1, <3>1, <3>2
  <2> QED
    BY <2>2, <2>3, RecallIs
<1> QED
  BY <1>1, InitInv, NextInv, PTL DEF Spec, Recalls

\* And the down arrow the line that was left, at any length of line and slot.
THEOREM FreshLineComesBack == Spec => ComesBack
<1>1. Inv /\ [Next]_vars => [(Down /\ hist_pos = 0) => (buf' = Trunc(fresh))]_vars
  <2> SUFFICES ASSUME Inv, Down, hist_pos = 0 PROVE buf' = Trunc(fresh)
    OBVIOUS
  <2>1. /\ buf' = Prefix(backup, MAX_LEN - 1) /\ backup = Trunc(fresh)
        /\ backup \in Seq(Chars) /\ Len(backup) < SLOT_LEN
    BY DEF Down, Inv, TypeOK, BackedUp
  <2> QED
    BY <2>1, SlotFits
<1> QED
  BY <1>1, InitInv, NextInv, PTL DEF Spec, ComesBack

-----------------------------------------------------------------------------
(* The screen: rows, and what vga_putc does to them.                       *)

\* The first cell of a row.
RowStart(r) == r * VGA_WIDTH

Screens(V) == [cells : [Cells -> V], row : 0 .. VGA_HEIGHT - 1, col : 0 .. VGA_WIDTH - 1]

LEMMA Sizes ==
    VGA_WIDTH \in Nat /\ VGA_WIDTH > 0 /\ VGA_HEIGHT \in Nat /\ VGA_HEIGHT > 0
    /\ TAB \in Nat /\ TAB > 0
  BY ScreenAssumption

\* Rows follow each other and end where the screen does.
LEMMA RowsAre ==
    ASSUME NEW r \in 0 .. VGA_HEIGHT - 1
    PROVE  /\ RowStart(r) \in Nat
           /\ RowStart(r + 1) = RowStart(r) + VGA_WIDTH
           /\ \A k \in Int : k \in Cells <=> k >= 0 /\ k < RowStart(VGA_HEIGHT - 1) + VGA_WIDTH
           /\ \A q \in 0 .. VGA_HEIGHT - 1 :
                q > r => RowStart(r) + VGA_WIDTH <= RowStart(q)
           /\ RowStart(r) <= RowStart(VGA_HEIGHT - 1)
<1>1. r \in Nat /\ VGA_WIDTH \in Nat /\ VGA_HEIGHT - 1 \in Nat
  BY Sizes
<1>2. r * VGA_WIDTH \in Nat /\ (r + 1) * VGA_WIDTH = r * VGA_WIDTH + VGA_WIDTH
  BY <1>1
<1>3. VGA_WIDTH * VGA_HEIGHT = (VGA_HEIGHT - 1) * VGA_WIDTH + VGA_WIDTH
      /\ (VGA_HEIGHT - 1) * VGA_WIDTH \in Nat
  BY <1>1, Sizes
<1>4. ASSUME NEW q \in 0 .. VGA_HEIGHT - 1, q > r
      PROVE  r * VGA_WIDTH + VGA_WIDTH <= q * VGA_WIDTH
  <2>1. r + 1 <= q /\ r + 1 \in Nat /\ q \in Nat
    BY <1>1, <1>4
  <2> QED
    BY <1>1, <1>2, <2>1, Monotone
<1>5. r * VGA_WIDTH <= (VGA_HEIGHT - 1) * VGA_WIDTH
  <2>1. r <= VGA_HEIGHT - 1
    BY <1>1
  <2> QED
    BY <1>1, <2>1, Monotone
<1>6. \A k \in Int :
        k \in Cells <=> k >= 0 /\ k < (VGA_HEIGHT - 1) * VGA_WIDTH + VGA_WIDTH
  <2> DEFINE x == VGA_WIDTH * VGA_HEIGHT
             y == (VGA_HEIGHT - 1) * VGA_WIDTH
  <2>1. x = y + VGA_WIDTH /\ y \in Nat
    BY <1>3
  <2>2. Cells = 0 .. x - 1
    BY DEF Cells
  <2> HIDE DEF x, y
  <2>3. \A k \in Int : k \in Cells <=> k >= 0 /\ k < y + VGA_WIDTH
    BY <1>1, <2>1, <2>2
  <2> QED
    BY <2>3 DEF y
<1> QED
  BY <1>2, <1>4, <1>5, <1>6 DEF RowStart

\* A tab goes forward.
LEMMA StopIs ==
    ASSUME NEW col \in 0 .. VGA_WIDTH - 1
    PROVE  Stop(col) \in Nat /\ Stop(col) > col
<1> DEFINE z == col + TAB
<1>1. z \in Nat /\ z = col + TAB /\ col \in Nat
  BY Sizes
<1> HIDE DEF z
<1>2. z % TAB \in 0 .. TAB - 1
  BY <1>1, Sizes
<1>3. z - (z % TAB) \in Nat /\ z - (z % TAB) > col
  BY <1>1, <1>2, Sizes
<1> QED
  BY <1>3 DEF z, Stop

\* The cells with the character in them.
Inked(s, c) == IF c \in Controls THEN s.cells ELSE [s.cells EXCEPT ![Pos(s)] = c]

\* What a character does when the cursor stays in its row ...
Stays(s, c, r) ==
    /\ r.row = s.row
    /\ \/ /\ c \notin Controls
          /\ s.col + 1 < VGA_WIDTH /\ r.col = s.col + 1 /\ r.cells = Inked(s, c)
       \/ /\ c = HT /\ Stop(s.col) < VGA_WIDTH
          /\ r.col = Stop(s.col) /\ r.col > s.col /\ r.cells = s.cells
       \/ c = CR /\ r.col = 0 /\ r.cells = s.cells
       \/ /\ c = BS /\ s.col > 0
          /\ r.col = s.col - 1 /\ r.cells = [s.cells EXCEPT ![Pos(s) - 1] = Blank]
       \/ c = BS /\ s.col = 0 /\ r.col = 0 /\ r.cells = s.cells

\* What takes it out of its row.
Turns(s, c) ==
    \/ c = NL
    \/ c = HT /\ Stop(s.col) >= VGA_WIDTH
    \/ c \notin Controls /\ s.col + 1 = VGA_WIDTH

\* ... when it goes to the next one ...
Feeds(s, c, r) ==
    /\ Turns(s, c)
    /\ s.row + 1 < VGA_HEIGHT /\ r.row = s.row + 1
    /\ r.col = 0
    /\ r.cells = Inked(s, c)

\* ... and when the screen scrolls.
Rolls(s, c, r) ==
    /\ Turns(s, c)
    /\ s.row = VGA_HEIGHT - 1 /\ r.row = s.row
    /\ r.col = 0
    /\ r.cells = [k \in Cells |-> IF k + VGA_WIDTH \in Cells THEN Inked(s, c)[k + VGA_WIDTH]
                                  ELSE Blank]

PutcDoes(s, c, r) ==
    \/ Stays(s, c, r) /\ ~Overflows(s, c)
    \/ Feeds(s, c, r) /\ ~Overflows(s, c)
    \/ Rolls(s, c, r) /\ Overflows(s, c)

LEMMA PosIs ==
    ASSUME NEW V, NEW s \in Screens(V)
    PROVE  /\ Pos(s) = RowStart(s.row) + s.col
           /\ Pos(s) \in Cells
           /\ s.col > 0 => Pos(s) - 1 \in Cells
<1>1. /\ s.row \in 0 .. VGA_HEIGHT - 1 /\ s.col \in 0 .. VGA_WIDTH - 1
      /\ s.row \in Int /\ s.col \in Int
  BY Sizes DEF Screens
<1>2. Pos(s) = RowStart(s.row) + s.col
  BY DEF Pos, RowStart
<1> QED
  BY <1>1, <1>2, RowsAre, Sizes

\* A cursor that goes to the next row.
LEMMA NextRowIs ==
    ASSUME NEW x, NEW y \in Int, NEW z,
           NEW at, at = [cells |-> x, row |-> y, col |-> z]
    PROVE  NextRow(at) = [cells |-> x, row |-> y + 1, col |-> 0]
<1> DEFINE m == y + 1
           b == [at EXCEPT !.col = 0]
<1>1. at.row = y
  OBVIOUS
<1>2. [at EXCEPT !.col = 0, !.row = @ + 1] = [b EXCEPT !.row = m]
  BY <1>1
<1>3. b = [cells |-> x, row |-> y, col |-> 0]
  OBVIOUS
<1> HIDE DEF m, b
<1>4. [b EXCEPT !.row = m] = [cells |-> x, row |-> m, col |-> 0]
  BY <1>3
<1> QED
  BY <1>2, <1>4 DEF m, NextRow

\* The end of vga_putc, from the cursor past the right edge or in a new row.
LEMMA TurnIs ==
    ASSUME NEW V, NEW s \in Screens(V), NEW c, NEW cells \in [Cells -> V], Blank \in V,
           Turns(s, c),
           cells = Inked(s, c),
           Wrap(Moved(s, c)) = [cells |-> cells, row |-> s.row + 1, col |-> 0]
    PROVE  Putc(s, c) \in Screens(V) /\ PutcDoes(s, c, Putc(s, c))
<1> DEFINE at == Wrap(Moved(s, c))
           r == Putc(s, c)
<1>1. s.row \in 0 .. VGA_HEIGHT - 1
  BY DEF Screens
<1>2. at = [cells |-> cells, row |-> s.row + 1, col |-> 0]
  OBVIOUS
<1>3. r = IF at.row >= VGA_HEIGHT THEN Scrolled(at) ELSE at
  BY DEF Putc
<1>4. Overflows(s, c) <=> at.row >= VGA_HEIGHT
  BY DEF Overflows
<1> HIDE DEF at, r
<1>5. CASE s.row + 1 < VGA_HEIGHT
  <2>1. ~(at.row >= VGA_HEIGHT)
    BY <1>1, <1>2, <1>5, Sizes
  <2>2. r = [cells |-> cells, row |-> s.row + 1, col |-> 0] /\ ~Overflows(s, c)
    BY <1>2, <1>3, <1>4, <2>1
  <2>3. r \in Screens(V)
    BY <1>1, <1>5, <2>2, Sizes DEF Screens
  <2>4. Feeds(s, c, r)
    BY <1>5, <2>2 DEF Feeds
  <2> QED
    BY <2>2, <2>3, <2>4 DEF PutcDoes, r
<1>6. CASE ~(s.row + 1 < VGA_HEIGHT)
  <2>1. at.row >= VGA_HEIGHT /\ s.row = VGA_HEIGHT - 1
    BY <1>1, <1>2, <1>6, Sizes
  <2> DEFINE new == [k \in Cells |-> IF k + VGA_WIDTH \in Cells THEN cells[k + VGA_WIDTH]
                                     ELSE Blank]
  <2>2. r = [cells |-> new, row |-> VGA_HEIGHT - 1, col |-> 0] /\ Overflows(s, c)
    BY <1>2, <1>3, <1>4, <2>1 DEF Scrolled
  <2>3. new \in [Cells -> V]
    OBVIOUS
  <2>4. r \in Screens(V)
    <3> HIDE DEF new
    <3> QED
      BY <2>2, <2>3, Sizes DEF Screens
  <2>5. Rolls(s, c, r)
    BY <2>1, <2>2 DEF Rolls
  <2> QED
    BY <2>2, <2>4, <2>5 DEF PutcDoes, r
<1> QED
  BY <1>5, <1>6

\* The same, when the cursor is still in its row.
LEMMA StayIs ==
    ASSUME NEW V, NEW s \in Screens(V), NEW c, NEW at \in Screens(V),
           Moved(s, c) = at, Stays(s, c, at)
    PROVE  Putc(s, c) \in Screens(V) /\ PutcDoes(s, c, Putc(s, c))
<1>1. at.row \in 0 .. VGA_HEIGHT - 1 /\ at.col \in 0 .. VGA_WIDTH - 1
  BY DEF Screens
<1>2. ~(at.col >= VGA_WIDTH) /\ ~(at.row >= VGA_HEIGHT)
  BY <1>1, Sizes
<1>3. Wrap(Moved(s, c)) = at
  BY <1>2 DEF Wrap
<1>4. Putc(s, c) = at /\ ~Overflows(s, c)
  BY <1>2, <1>3 DEF Putc, Overflows
<1> QED
  BY <1>4 DEF PutcDoes

LEMMA PutcIs ==
    ASSUME NEW V, NEW s \in Screens(V), NEW c, Blank \in V, c \in V \/ c \in Controls
    PROVE  Putc(s, c) \in Screens(V) /\ PutcDoes(s, c, Putc(s, c))
<1>1. /\ s.cells \in [Cells -> V]
      /\ s.row \in 0 .. VGA_HEIGHT - 1 /\ s.col \in 0 .. VGA_WIDTH - 1
      /\ s = [cells |-> s.cells, row |-> s.row, col |-> s.col]
  BY DEF Screens
<1>2. Pos(s) \in Cells
  BY PosIs
<1>3. Inked(s, c) \in [Cells -> V]
  BY <1>1, <1>2 DEF Inked
<1>k. /\ NL # CR /\ NL # HT /\ NL # BS /\ CR # HT /\ CR # BS /\ HT # BS
      /\ Controls = {NL, CR, HT, BS}
  BY ScreenAssumption DEF Controls
<1>4. CASE c = NL
  <2>1. Moved(s, c) = [cells |-> s.cells, row |-> s.row + 1, col |-> 0]
    <3>1. Moved(s, c) = NextRow(s) /\ s.row \in Int
      BY <1>1, <1>4, <1>k DEF Moved
    <3> QED
      BY <1>1, <3>1, NextRowIs
  <2>2. Wrap(Moved(s, c)) = [cells |-> s.cells, row |-> s.row + 1, col |-> 0]
    BY <2>1, Sizes DEF Wrap
  <2>3. Inked(s, c) = s.cells
    BY <1>4, <1>k DEF Inked
  <2>4. Turns(s, c)
    BY <1>4 DEF Turns
  <2> QED
    BY <1>1, <2>2, <2>3, <2>4, TurnIs
<1>5. CASE c = CR
  <2> DEFINE at == [cells |-> s.cells, row |-> s.row, col |-> 0]
  <2>1. Moved(s, c) = at
    BY <1>1, <1>5, <1>k DEF Moved
  <2>2. at \in Screens(V)
    BY <1>1, Sizes DEF Screens
  <2>3. Stays(s, c, at)
    BY <1>5 DEF Stays
  <2> QED
    BY <2>1, <2>2, <2>3, StayIs
<1>6. CASE c = HT
  <2> DEFINE n == Stop(s.col)
  <2>1. n \in Nat /\ n > s.col
    BY <1>1, StopIs
  <2>2. Moved(s, c) = [cells |-> s.cells, row |-> s.row, col |-> n]
    BY <1>1, <1>6, <1>k DEF Moved
  <2> HIDE DEF n
  <2>3. CASE n >= VGA_WIDTH
    <3>1. Wrap(Moved(s, c)) = [cells |-> s.cells, row |-> s.row + 1, col |-> 0]
      <4> DEFINE at == [cells |-> s.cells, row |-> s.row, col |-> n]
      <4>1. Moved(s, c) = at /\ at.col >= VGA_WIDTH /\ s.row \in Int
        BY <1>1, <2>2, <2>3
      <4>2. NextRow(at) = [cells |-> s.cells, row |-> s.row + 1, col |-> 0]
        BY <4>1, NextRowIs
      <4> HIDE DEF at
      <4> QED
        BY <4>1, <4>2 DEF Wrap
    <3>2. Inked(s, c) = s.cells
      BY <1>6, <1>k DEF Inked
    <3>3. Turns(s, c)
      BY <1>6, <2>3 DEF Turns, n
    <3> QED
      BY <1>1, <3>1, <3>2, <3>3, TurnIs
  <2>4. CASE ~(n >= VGA_WIDTH)
    <3> DEFINE at == [cells |-> s.cells, row |-> s.row, col |-> n]
    <3>1. n \in 0 .. VGA_WIDTH - 1
      BY <2>1, <2>4, Sizes
    <3>2. at \in Screens(V)
      BY <1>1, <3>1 DEF Screens
    <3>3. Stays(s, c, at)
      <4>1. /\ Stop(s.col) = n /\ n < VGA_WIDTH /\ n > s.col
            /\ at.row = s.row /\ at.col = n /\ at.cells = s.cells
        BY <2>1, <3>1, Sizes DEF n
      <4> HIDE DEF n, at
      <4> QED
        BY <1>6, <4>1 DEF Stays
    <3> QED
      BY <2>2, <3>2, <3>3, StayIs
  <2> QED
    BY <2>3, <2>4
<1>7. CASE c = BS
  <2>1. Moved(s, c) = Erased(s)
    BY <1>7, <1>k DEF Moved
  <2>2. CASE s.col > 0
    <3> DEFINE new == [s.cells EXCEPT ![Pos(s) - 1] = Blank]
               at == [cells |-> new, row |-> s.row, col |-> s.col - 1]
    <3>1. Erased(s) = at
      BY <1>1, <2>2 DEF Erased
    <3>2. new \in [Cells -> V]
      BY <1>1
    <3>3. s.col - 1 \in 0 .. VGA_WIDTH - 1
      BY <1>1, <2>2, Sizes
    <3>4. at \in Screens(V)
      <4> HIDE DEF new
      <4> QED
        BY <1>1, <3>2, <3>3 DEF Screens
    <3>5. Stays(s, c, at)
      BY <1>7, <2>2 DEF Stays
    <3> QED
      BY <2>1, <3>1, <3>4, <3>5, StayIs
  <2>3. CASE ~(s.col > 0)
    <3>1. Erased(s) = s /\ s.col = 0
      BY <1>1, <2>3, Sizes DEF Erased
    <3>2. Stays(s, c, s)
      BY <1>7, <3>1 DEF Stays
    <3> QED
      BY <2>1, <3>1, <3>2, StayIs
  <2> QED
    BY <2>2, <2>3
<1>8. CASE c \notin Controls
  <2> DEFINE new == [s.cells EXCEPT ![Pos(s)] = c]
  <2>1. Moved(s, c) = [cells |-> new, row |-> s.row, col |-> s.col + 1]
    BY <1>1, <1>8, <1>k DEF Moved
  <2>2. Inked(s, c) = new
    BY <1>8 DEF Inked
  <2> HIDE DEF new
  <2>3. CASE s.col + 1 < VGA_WIDTH
    <3> DEFINE at == [cells |-> new, row |-> s.row, col |-> s.col + 1]
    <3>1. s.col + 1 \in 0 .. VGA_WIDTH - 1
      BY <1>1, <2>3, Sizes
    <3>2. at \in Screens(V)
      BY <1>1, <1>3, <2>2, <3>1 DEF Screens
    <3>3. Stays(s, c, at)
      BY <1>8, <2>2, <2>3 DEF Stays
    <3> QED
      BY <2>1, <3>2, <3>3, StayIs
  <2>4. CASE ~(s.col + 1 < VGA_WIDTH)
    <3>1. s.col + 1 = VGA_WIDTH
      BY <1>1, <2>4, Sizes
    <3>2. Wrap(Moved(s, c)) = [cells |-> new, row |-> s.row + 1, col |-> 0]
      <4> DEFINE at == [cells |-> new, row |-> s.row, col |-> s.col + 1]
      <4>1. Moved(s, c) = at /\ at.col >= VGA_WIDTH /\ s.row \in Int
        BY <1>1, <2>1, <3>1, Sizes
      <4>2. NextRow(at) = [cells |-> new, row |-> s.row + 1, col |-> 0]
        BY <4>1, NextRowIs
      <4> HIDE DEF at
      <4> QED
        BY <4>1, <4>2 DEF Wrap
    <3>3. Turns(s, c)
      BY <1>8, <3>1 DEF Turns
    <3> QED
      BY <1>3, <2>2, <3>2, <3>3, TurnIs
  <2> QED
    BY <2>3, <2>4
<1> QED
  BY <1>4, <1>5, <1>6, <1>7, <1>8, <1>k

-----------------------------------------------------------------------------
(* A text: what it leaves is found character by character.                 *)

\* The screens after each character.
Printed(f, s, text) ==
    /\ f[0] = s
    /\ \A i \in Nat \ {0} : f[i] = Putc(f[i - 1], text[i])

LEMMA PrintsIs ==
    ASSUME NEW s \in Screens(Glyphs), NEW text
    PROVE  Printed(Prints(s, text), s, text)
<1> DEFINE V == Glyphs \cup {text[i] : i \in Nat}
           T == Screens(V)
           g == [z \in T \X Nat |-> Putc(z[1], text[z[2]])]
           P == CHOOSE after : after = [i \in Nat |->
                  IF i = 0 THEN s ELSE Putc(after[i - 1], text[i])]
<1>1. Prints(s, text) = P
  BY DEF Prints
<1>2. g \in [T \X Nat -> T]
  <2>1. ASSUME NEW z \in T \X Nat PROVE Putc(z[1], text[z[2]]) \in T
    <3>1. z[1] \in Screens(V) /\ text[z[2]] \in V /\ Blank \in V
      BY ScreenAssumption
    <3> HIDE DEF V
    <3> QED
      BY <3>1, PutcIs
  <2> HIDE DEF T
  <2> QED
    BY <2>1
<1>3. s \in T
  <2>1. \A c \in Glyphs : c \in V
    OBVIOUS
  <2> HIDE DEF V
  <2> QED
    BY <2>1 DEF Screens
<1>4. PICK f : Recurs(f, T, s, g)
  <2> HIDE DEF g, T, P
  <2> QED
    BY <1>2, <1>3, Recursion
<1>5. \A i \in Nat : i # 0 => g[<<f[i - 1], i>>] = Putc(f[i - 1], text[i])
  <2> SUFFICES ASSUME NEW i \in Nat, i # 0
               PROVE  g[<<f[i - 1], i>>] = Putc(f[i - 1], text[i])
    OBVIOUS
  <2>1. i - 1 \in Nat
    OBVIOUS
  <2>2. <<f[i - 1], i>> \in T \X Nat
    <3> HIDE DEF T, g, P
    <3> QED
      BY <1>4, <2>1 DEF Recurs
  <2> HIDE DEF T, P
  <2> QED
    BY <2>2
<1> HIDE DEF T, g
<1>6. f = [i \in Nat |-> IF i = 0 THEN s ELSE Putc(f[i - 1], text[i])]
  <2>1. \A i \in Nat : f[i] = IF i = 0 THEN s ELSE Putc(f[i - 1], text[i])
    BY <1>4, <1>5 DEF Recurs
  <2> QED
    BY <1>4, <2>1 DEF Recurs
<1>7. P = [i \in Nat |-> IF i = 0 THEN s ELSE Putc(P[i - 1], text[i])]
  BY <1>6, Zenon
<1> HIDE DEF P
<1>8. P[0] = s /\ \A i \in Nat \ {0} : P[i] = Putc(P[i - 1], text[i])
  BY <1>7
<1> QED
  BY <1>1, <1>8 DEF Printed

\* How many rows have scrolled away after each character.
Counted(u, f, text) ==
    /\ u[0] = 0
    /\ \A i \in Nat \ {0} : u[i] = u[i - 1] + (IF Overflows(f[i - 1], text[i]) THEN 1 ELSE 0)

LEMMA ScrollsIs ==
    ASSUME NEW s, NEW text
    PROVE  \E u : /\ Counted(u, Prints(s, text), text)
                  /\ Scrolls(s, text) = u[Len(text)]
<1> DEFINE f == Prints(s, text)
           over == [i \in Nat |-> IF Overflows(f[i - 1], text[i]) THEN 1 ELSE 0]
           g == [z \in Nat \X Nat |-> z[1] + over[z[2]]]
           P == CHOOSE upTo : upTo = [i \in Nat |->
                  IF i = 0 THEN 0
                  ELSE upTo[i - 1] + (IF Overflows(Prints(s, text)[i - 1], text[i]) THEN 1
                                      ELSE 0)]
<1>1. Scrolls(s, text) = P[Len(text)]
  BY DEF Scrolls
<1>o. \A i \in Nat : over[i] = (IF Overflows(f[i - 1], text[i]) THEN 1 ELSE 0) /\ over[i] \in Nat
  OBVIOUS
<1> HIDE DEF over
<1>2. g \in [Nat \X Nat -> Nat]
  BY <1>o
<1>3. PICK e : Recurs(e, Nat, 0, g)
  <2> HIDE DEF g, P
  <2> QED
    BY <1>2, Recursion
<1>4. \A i \in Nat : e[i] = IF i = 0 THEN 0 ELSE e[i - 1] + over[i]
  <2> SUFFICES ASSUME NEW i \in Nat, i # 0 PROVE e[i] = e[i - 1] + over[i]
    BY <1>3 DEF Recurs
  <2> HIDE DEF g, P, f
  <2>1. i - 1 \in Nat /\ e[i] = g[<<e[i - 1], i>>]
    BY <1>3 DEF Recurs
  <2>2. <<e[i - 1], i>> \in Nat \X Nat
    BY <1>3, <2>1 DEF Recurs
  <2> QED
    BY <2>1, <2>2 DEF g
<1>5. e = [i \in Nat |-> IF i = 0 THEN 0
                         ELSE e[i - 1] + (IF Overflows(Prints(s, text)[i - 1], text[i]) THEN 1
                                          ELSE 0)]
  <2>1. \A i \in Nat : e[i] = IF i = 0 THEN 0
                              ELSE e[i - 1] + (IF Overflows(Prints(s, text)[i - 1], text[i])
                                               THEN 1 ELSE 0)
    BY <1>4, <1>o
  <2>2. e \in [Nat -> Nat]
    BY <1>3 DEF Recurs
  <2> HIDE DEF f, P, g
  <2> QED
    BY <2>1, <2>2
<1>6. P = [i \in Nat |-> IF i = 0 THEN 0
                         ELSE P[i - 1] + (IF Overflows(Prints(s, text)[i - 1], text[i]) THEN 1
                                          ELSE 0)]
  BY <1>5, Zenon
<1> HIDE DEF P
<1>7. Counted(P, Prints(s, text), text)
  BY <1>6 DEF Counted
<1> QED
  BY <1>1, <1>7

-----------------------------------------------------------------------------
(* What stands behind the cursor.                                          *)

\* Only a '\r' brings the cursor before something.
LEMMA SweptStep ==
    ASSUME NEW V, NEW s \in Screens(V), NEW c, NEW r \in Screens(V),
           PutcDoes(s, c, r), c # CR, Swept(s)
    PROVE  Swept(r)
<1> SUFFICES ASSUME NEW k \in Cells, k >= Pos(r) PROVE r.cells[k] = Blank
  BY DEF Swept
<1> DEFINE a == RowStart(s.row)
           p == Pos(s)
<1>1. /\ s.row \in 0 .. VGA_HEIGHT - 1 /\ r.row \in 0 .. VGA_HEIGHT - 1
      /\ s.col \in 0 .. VGA_WIDTH - 1 /\ r.col \in 0 .. VGA_WIDTH - 1
      /\ s.cells \in [Cells -> V]
  BY DEF Screens
<1>2. /\ p = a + s.col /\ p \in Cells /\ Pos(r) = RowStart(r.row) + r.col
      /\ s.col > 0 => p - 1 \in Cells
  BY PosIs
<1>3. k \in Int /\ a \in Nat /\ Cells \subseteq Int
  BY <1>1, RowsAre DEF Cells
<1>4. \A j \in Cells : j >= p => s.cells[j] = Blank
  BY DEF Swept
<1> HIDE DEF a, p
<1>5. \A j \in Cells : j > p => Inked(s, c)[j] = Blank
  <2> SUFFICES ASSUME NEW j \in Cells, j > p PROVE Inked(s, c)[j] = Blank
    OBVIOUS
  <2>1. s.cells[j] = Blank /\ j # p
    BY <1>2, <1>3, <1>4
  <2> QED
    BY <1>1, <2>1 DEF Inked, p
<1>6. CASE Stays(s, c, r)
  <2>1. r.row = s.row
    BY <1>6 DEF Stays
  <2>2. Pos(r) = a + r.col
    BY <1>2, <2>1 DEF a
  <2>3. CASE c \notin Controls /\ r.col = s.col + 1 /\ r.cells = Inked(s, c)
    <3>1. k > p
      BY <1>1, <1>2, <1>3, <2>2, <2>3, Sizes
    <3> QED
      BY <1>5, <2>3, <3>1
  <2>4. CASE r.col > s.col /\ r.cells = s.cells
    <3>1. k >= p
      BY <1>1, <1>2, <1>3, <2>2, <2>4, Sizes
    <3> QED
      BY <1>4, <2>4, <3>1
  <2>5. CASE s.col > 0 /\ r.col = s.col - 1 /\ r.cells = [s.cells EXCEPT ![Pos(s) - 1] = Blank]
    <3>1. k >= p - 1 /\ p - 1 \in Cells
      BY <1>1, <1>2, <1>3, <2>2, <2>5, Sizes
    <3>2. CASE k = p - 1
      BY <1>1, <2>5, <3>1, <3>2 DEF p
    <3>3. CASE k # p - 1
      <4>1. k >= p
        BY <1>2, <1>3, <3>1, <3>3
      <4> QED
        BY <1>1, <1>4, <2>5, <3>3, <4>1 DEF p
    <3> QED
      BY <3>2, <3>3
  <2>6. CASE s.col = 0 /\ r.col = 0 /\ r.cells = s.cells
    <3>1. k >= p
      BY <1>2, <1>3, <2>2, <2>6
    <3> QED
      BY <1>4, <2>6, <3>1
  <2> QED
    BY <1>6, <2>3, <2>4, <2>5, <2>6 DEF Stays
<1>7. CASE Feeds(s, c, r)
  <2>1. r.row = s.row + 1 /\ r.col = 0 /\ r.cells = Inked(s, c)
    BY <1>7 DEF Feeds
  <2>2. Pos(r) = a + VGA_WIDTH
    BY <1>1, <1>2, <1>3, <2>1, RowsAre, Sizes DEF a
  <2>3. k > p
    BY <1>1, <1>2, <1>3, <2>2, Sizes
  <2> QED
    BY <1>5, <2>1, <2>3
<1>8. CASE Rolls(s, c, r)
  <2>1. /\ r.row = VGA_HEIGHT - 1 /\ r.col = 0
        /\ r.cells = [j \in Cells |-> IF j + VGA_WIDTH \in Cells THEN Inked(s, c)[j + VGA_WIDTH]
                                      ELSE Blank]
    BY <1>8 DEF Rolls
  <2>2. k >= RowStart(VGA_HEIGHT - 1)
    BY <1>1, <1>2, <1>3, <2>1, RowsAre
  <2>3. k + VGA_WIDTH \notin Cells
    BY <1>1, <1>3, <2>2, RowsAre, Sizes
  <2> QED
    BY <2>1, <2>3
<1> QED
  BY <1>6, <1>7, <1>8 DEF PutcDoes

\* The rows below the cursor's are blank.
Below(s) == \A k \in Cells : k >= RowStart(s.row) + VGA_WIDTH => s.cells[k] = Blank

\* So is its own, when it has just come there.
LEMMA NewRow ==
    ASSUME NEW V, NEW s \in Screens(V), NEW c, NEW r \in Screens(V),
           Feeds(s, c, r) \/ Rolls(s, c, r), Below(s)
    PROVE  /\ r.col = 0
           /\ \A k \in Cells : k >= RowStart(r.row) => r.cells[k] = Blank
<1> SUFFICES ASSUME NEW k \in Cells, k >= RowStart(r.row) PROVE r.cells[k] = Blank
  BY DEF Feeds, Rolls
<1>1. /\ s.row \in 0 .. VGA_HEIGHT - 1 /\ r.row \in 0 .. VGA_HEIGHT - 1
      /\ s.col \in 0 .. VGA_WIDTH - 1 /\ s.cells \in [Cells -> V]
  BY DEF Screens
<1>2. k \in Int /\ RowStart(s.row) \in Nat /\ Pos(s) \in Cells /\ Pos(s) = RowStart(s.row) + s.col
  BY <1>1, RowsAre, PosIs DEF Cells
<1>3. CASE Feeds(s, c, r)
  <2>1. r.row = s.row + 1 /\ r.cells = Inked(s, c)
    BY <1>3 DEF Feeds
  <2>2. k >= RowStart(s.row) + VGA_WIDTH
    BY <1>1, <1>2, <2>1, RowsAre
  <2>3. s.cells[k] = Blank /\ k # Pos(s)
    BY <1>1, <1>2, <2>2, Sizes DEF Below
  <2> QED
    BY <1>1, <2>1, <2>3 DEF Inked
<1>4. CASE Rolls(s, c, r)
  <2>1. /\ r.row = VGA_HEIGHT - 1
        /\ r.cells = [j \in Cells |-> IF j + VGA_WIDTH \in Cells THEN Inked(s, c)[j + VGA_WIDTH]
                                      ELSE Blank]
    BY <1>4 DEF Rolls
  <2>2. k + VGA_WIDTH \notin Cells
    BY <1>1, <1>2, <2>1, RowsAre, Sizes
  <2> QED
    BY <2>1, <2>2
<1> QED
  BY <1>3, <1>4

LEMMA BelowStep ==
    ASSUME NEW V, NEW s \in Screens(V), NEW c, NEW r \in Screens(V),
           PutcDoes(s, c, r), Below(s)
    PROVE  Below(r)
<1>1. /\ s.row \in 0 .. VGA_HEIGHT - 1 /\ r.row \in 0 .. VGA_HEIGHT - 1
      /\ s.col \in 0 .. VGA_WIDTH - 1 /\ s.cells \in [Cells -> V]
  BY DEF Screens
<1>2. RowStart(s.row) \in Nat /\ Pos(s) \in Cells /\ Pos(s) = RowStart(s.row) + s.col
      /\ Cells \subseteq Int /\ RowStart(r.row) \in Nat
  BY <1>1, RowsAre, PosIs DEF Cells
<1>3. CASE Stays(s, c, r)
  <2> SUFFICES ASSUME NEW k \in Cells, k >= RowStart(s.row) + VGA_WIDTH
               PROVE  r.cells[k] = Blank
    BY <1>3 DEF Below, Stays
  <2>1. s.cells[k] = Blank /\ k # Pos(s) /\ k # Pos(s) - 1
    BY <1>1, <1>2, Sizes DEF Below
  <2> QED
    BY <1>1, <1>3, <2>1 DEF Stays, Inked
<1>4. CASE Feeds(s, c, r) \/ Rolls(s, c, r)
  <2>1. \A k \in Cells : k >= RowStart(r.row) => r.cells[k] = Blank
    BY <1>4, NewRow
  <2> QED
    BY <1>2, <2>1, Sizes DEF Below
<1> QED
  BY <1>3, <1>4 DEF PutcDoes

\* Two screens with the same row under the cursor.
Alike(s, t) ==
    /\ s.col = t.col
    /\ \A x \in 0 .. VGA_WIDTH - 1 :
         s.cells[RowStart(s.row) + x] = t.cells[RowStart(t.row) + x]

\* They stay alike, whatever else they show.
LEMMA AlikeStep ==
    ASSUME NEW V, NEW s \in Screens(V), NEW t \in Screens(V), NEW c,
           NEW r \in Screens(V), NEW q \in Screens(V),
           PutcDoes(s, c, r), PutcDoes(t, c, q), Alike(s, t), Below(s), Below(t)
    PROVE  Alike(r, q)
<1>1. /\ s.row \in 0 .. VGA_HEIGHT - 1 /\ t.row \in 0 .. VGA_HEIGHT - 1
      /\ r.row \in 0 .. VGA_HEIGHT - 1 /\ q.row \in 0 .. VGA_HEIGHT - 1
      /\ s.col \in 0 .. VGA_WIDTH - 1 /\ s.col = t.col
      /\ s.cells \in [Cells -> V] /\ t.cells \in [Cells -> V]
  BY DEF Screens, Alike
<1>2. /\ RowStart(s.row) \in Nat /\ Pos(s) = RowStart(s.row) + s.col
      /\ RowStart(t.row) \in Nat /\ Pos(t) = RowStart(t.row) + s.col
      /\ RowStart(r.row) \in Nat /\ RowStart(q.row) \in Nat
  BY <1>1, RowsAre, PosIs
<1>k. /\ NL # CR /\ NL # HT /\ NL # BS /\ CR # HT /\ CR # BS /\ HT # BS
      /\ Controls = {NL, CR, HT, BS}
  BY ScreenAssumption DEF Controls
<1>3. ASSUME NEW z \in Screens(V), NEW x \in 0 .. VGA_WIDTH - 1
      PROVE  RowStart(z.row) + x \in Cells
  <2>1. z.row \in 0 .. VGA_HEIGHT - 1
    BY DEF Screens
  <2> QED
    BY <2>1, RowsAre, Sizes
<1>4. CASE Turns(s, c)
  <2>1. ~Stays(s, c, r) /\ ~Stays(t, c, q)
    <3>1. Stop(s.col) \in Nat
      BY <1>1, StopIs
    <3> QED
      BY <1>1, <1>4, <1>k, <3>1, Sizes DEF Turns, Stays
  <2>2. /\ r.col = 0 /\ \A k \in Cells : k >= RowStart(r.row) => r.cells[k] = Blank
        /\ q.col = 0 /\ \A k \in Cells : k >= RowStart(q.row) => q.cells[k] = Blank
    BY <2>1, NewRow DEF PutcDoes
  <2>3. ASSUME NEW x \in 0 .. VGA_WIDTH - 1
        PROVE  r.cells[RowStart(r.row) + x] = q.cells[RowStart(q.row) + x]
    <3>1. RowStart(r.row) + x \in Cells /\ RowStart(q.row) + x \in Cells
      BY <1>3
    <3>2. RowStart(r.row) + x >= RowStart(r.row) /\ RowStart(q.row) + x >= RowStart(q.row)
      BY <1>2, Sizes
    <3> QED
      BY <2>2, <3>1, <3>2
  <2> QED
    BY <2>2, <2>3 DEF Alike
<1>5. CASE ~Turns(s, c)
  <2>1. Stays(s, c, r) /\ Stays(t, c, q)
    <3>1. ~Turns(t, c)
      BY <1>1, <1>5 DEF Turns
    <3> QED
      BY <1>5, <3>1 DEF PutcDoes, Feeds, Rolls
  <2>2. r.row = s.row /\ q.row = t.row
    BY <2>1 DEF Stays
  <2>3. r.col = q.col
    BY <1>1, <1>k, <2>1 DEF Stays
  <2>4. ASSUME NEW x \in 0 .. VGA_WIDTH - 1
        PROVE  r.cells[RowStart(s.row) + x] = q.cells[RowStart(t.row) + x]
    <3> DEFINE a == RowStart(s.row)
               b == RowStart(t.row)
    <3>1. a \in Nat /\ b \in Nat /\ a + x \in Cells /\ b + x \in Cells
          /\ Pos(s) = a + s.col /\ Pos(t) = b + s.col
          /\ s.cells[a + x] = t.cells[b + x]
      BY <1>2, <1>3 DEF Alike
    <3> HIDE DEF a, b
    <3>2. CASE c \notin Controls
      <4>1. /\ r.cells = [s.cells EXCEPT ![a + s.col] = c]
            /\ q.cells = [t.cells EXCEPT ![b + s.col] = c]
        BY <1>k, <2>1, <3>1, <3>2 DEF Stays, Inked
      <4>2. (a + x = a + s.col) <=> (b + x = b + s.col)
        BY <1>1, <3>1, Sizes
      <4> QED
        BY <1>1, <3>1, <4>1, <4>2 DEF a, b
    <3>3. CASE c = BS /\ s.col > 0
      <4>1. /\ r.cells = [s.cells EXCEPT ![a + s.col - 1] = Blank]
            /\ q.cells = [t.cells EXCEPT ![b + s.col - 1] = Blank]
        BY <1>1, <1>k, <2>1, <3>1, <3>3 DEF Stays
      <4>2. (a + x = a + s.col - 1) <=> (b + x = b + s.col - 1)
        BY <1>1, <3>1, Sizes
      <4> QED
        BY <1>1, <3>1, <4>1, <4>2 DEF a, b
    <3>4. CASE ~(c \notin Controls) /\ ~(c = BS /\ s.col > 0)
      <4>1. r.cells = s.cells /\ q.cells = t.cells
        BY <1>1, <1>k, <2>1, <3>4 DEF Stays
      <4> QED
        BY <3>1, <4>1 DEF a, b
    <3> QED
      BY <3>2, <3>3, <3>4
  <2> QED
    BY <2>2, <2>3, <2>4 DEF Alike
<1> QED
  BY <1>4, <1>5

-----------------------------------------------------------------------------
(* Whole texts.                                                            *)

Stepwise(f, s, text) ==
    /\ f[0] = s
    /\ \A i \in 0 .. Len(text) : f[i] \in Screens(Glyphs)
    /\ \A i \in 1 .. Len(text) : PutcDoes(f[i - 1], text[i], f[i])

LEMMA StepsAre ==
    ASSUME NEW s \in Screens(Glyphs), NEW text \in Seq(Glyphs \cup Controls)
    PROVE  Stepwise(Prints(s, text), s, text)
<1> DEFINE f == Prints(s, text)
           n == Len(text)
           S == {i \in Nat : f[i] \in Screens(Glyphs)}
<1>1. f[0] = s /\ \A i \in Nat \ {0} : f[i] = Putc(f[i - 1], text[i])
  BY PrintsIs DEF Printed
<1>2. n \in Nat /\ \A i \in 1 .. n : text[i] \in Glyphs \/ text[i] \in Controls
  BY LenProperties
<1> HIDE DEF f, n
<1>3. 0 \in S
  BY <1>1
<1>4. ASSUME NEW i \in 1 .. n, i - 1 \in S
      PROVE  i \in S /\ PutcDoes(f[i - 1], text[i], f[i])
  <2>1. i \in Nat \ {0} /\ f[i - 1] \in Screens(Glyphs) /\ Blank \in Glyphs
    BY <1>4, ScreenAssumption
  <2>2. Putc(f[i - 1], text[i]) \in Screens(Glyphs)
        /\ PutcDoes(f[i - 1], text[i], Putc(f[i - 1], text[i]))
    BY <1>2, <2>1, PutcIs
  <2> QED
    BY <1>1, <2>1, <2>2
<1>5. \A i \in 0 .. n : i \in S
  <2> HIDE DEF S
  <2> QED
    BY <1>2, <1>3, <1>4, Climb
<1>6. \A i \in 1 .. n : PutcDoes(f[i - 1], text[i], f[i])
  <2> SUFFICES ASSUME NEW i \in 1 .. n PROVE PutcDoes(f[i - 1], text[i], f[i])
    OBVIOUS
  <2>1. i - 1 \in 0 .. n
    BY <1>2
  <2> QED
    BY <1>4, <1>5, <2>1
<1> QED
  BY <1>1, <1>5, <1>6 DEF Stepwise, f, n

\* Nothing is left behind the cursor by a text without a '\r'.
LEMMA SweptRun ==
    ASSUME NEW s \in Screens(Glyphs), NEW text \in Seq(Glyphs \cup Controls),
           \A i \in 1 .. Len(text) : text[i] # CR, Swept(s)
    PROVE  Puts(s, text) \in Screens(Glyphs) /\ Swept(Puts(s, text))
<1> DEFINE f == Prints(s, text)
           n == Len(text)
           S == {i \in 0 .. n : Swept(f[i])}
<1>1. /\ f[0] = s
      /\ \A i \in 0 .. n : f[i] \in Screens(Glyphs)
      /\ \A i \in 1 .. n : PutcDoes(f[i - 1], text[i], f[i])
  BY StepsAre DEF Stepwise
<1>2. n \in Nat /\ Puts(s, text) = f[n] /\ n \in 0 .. n
  BY LenProperties DEF Puts
<1>n. \A i \in 1 .. n : text[i] # CR
  OBVIOUS
<1> HIDE DEF f, n
<1>3. 0 \in S
  BY <1>1, <1>2
<1>4. ASSUME NEW i \in 1 .. n, i - 1 \in S PROVE i \in S
  <2>1. i - 1 \in 0 .. n /\ i \in 0 .. n /\ Swept(f[i - 1])
    BY <1>4, <1>2
  <2>2. f[i - 1] \in Screens(Glyphs) /\ f[i] \in Screens(Glyphs)
    BY <1>1, <2>1
  <2>3. Swept(f[i])
    BY <1>1, <1>n, <2>1, <2>2, SweptStep
  <2> QED
    BY <2>1, <2>3
<1>5. n \in S
  <2> HIDE DEF S
  <2> QED
    BY <1>2, <1>3, <1>4, Climb
<1> QED
  BY <1>1, <1>2, <1>5

LEMMA ClearedIs == Cleared \in Screens(Glyphs) /\ Swept(Cleared) /\ Below(Cleared)
<1>1. Blank \in Glyphs /\ 0 \in 0 .. VGA_HEIGHT - 1 /\ 0 \in 0 .. VGA_WIDTH - 1
  BY ScreenAssumption, Sizes
<1> QED
  BY <1>1 DEF Cleared, Screens, Swept, Below

\* Two texts on screens that are alike leave screens that are alike.
LEMMA AlikeRun ==
    ASSUME NEW s \in Screens(Glyphs), NEW t \in Screens(Glyphs),
           NEW text \in Seq(Glyphs \cup Controls), Alike(s, t), Below(s), Below(t)
    PROVE  /\ Puts(s, text) \in Screens(Glyphs) /\ Puts(t, text) \in Screens(Glyphs)
           /\ Alike(Puts(s, text), Puts(t, text))
           /\ Below(Puts(s, text))
<1> DEFINE f == Prints(s, text)
           g == Prints(t, text)
           n == Len(text)
           S == {i \in 0 .. n : Alike(f[i], g[i]) /\ Below(f[i]) /\ Below(g[i])}
<1>1. /\ f[0] = s
      /\ \A i \in 0 .. n : f[i] \in Screens(Glyphs)
      /\ \A i \in 1 .. n : PutcDoes(f[i - 1], text[i], f[i])
  BY StepsAre DEF Stepwise
<1>2. /\ g[0] = t
      /\ \A i \in 0 .. n : g[i] \in Screens(Glyphs)
      /\ \A i \in 1 .. n : PutcDoes(g[i - 1], text[i], g[i])
  BY StepsAre DEF Stepwise
<1>3. n \in Nat /\ Puts(s, text) = f[n] /\ Puts(t, text) = g[n] /\ n \in 0 .. n
  BY LenProperties DEF Puts
<1> HIDE DEF f, g, n
<1>4. 0 \in S
  BY <1>1, <1>2, <1>3
<1>5. ASSUME NEW i \in 1 .. n, i - 1 \in S PROVE i \in S
  <2>1. i - 1 \in 0 .. n /\ i \in 0 .. n
    BY <1>3
  <2>2. Alike(f[i - 1], g[i - 1]) /\ Below(f[i - 1]) /\ Below(g[i - 1])
    BY <1>5
  <2>3. /\ f[i - 1] \in Screens(Glyphs) /\ f[i] \in Screens(Glyphs)
        /\ g[i - 1] \in Screens(Glyphs) /\ g[i] \in Screens(Glyphs)
        /\ PutcDoes(f[i - 1], text[i], f[i]) /\ PutcDoes(g[i - 1], text[i], g[i])
    BY <1>1, <1>2, <2>1
  <2>4. Alike(f[i], g[i])
    BY <2>2, <2>3, AlikeStep
  <2>5. Below(f[i]) /\ Below(g[i])
    BY <2>2, <2>3, BelowStep
  <2> QED
    BY <2>1, <2>4, <2>5
<1>6. n \in S
  <2> HIDE DEF S
  <2> QED
    BY <1>3, <1>4, <1>5, Climb
<1> QED
  BY <1>1, <1>2, <1>3, <1>6

\* What a command prints leaves nothing behind the cursor.
LEMMA OutputSwept ==
    ASSUME NEW s \in Screens(Glyphs), s.col = 0, Swept(s), NEW text \in Outputs
    PROVE  Puts(s, text) \in Screens(Glyphs) /\ Swept(Puts(s, text))
<1> DEFINE t == Cleared
           r == Puts(s, text)
           q == Puts(t, text)
<1>0. /\ text \in Seq(Glyphs \cup Controls) /\ Swept(q)
      /\ t \in Screens(Glyphs) /\ Swept(t) /\ Below(t) /\ t.col = 0
  BY ScreenAssumption, OutputsAssumption, ClearedIs DEF Cleared
<1> HIDE DEF t
<1>1. \A z \in Screens(Glyphs) :
        /\ z.row \in 0 .. VGA_HEIGHT - 1 /\ z.col \in 0 .. VGA_WIDTH - 1
        /\ RowStart(z.row) \in Nat /\ Pos(z) = RowStart(z.row) + z.col
        /\ \A x \in 0 .. VGA_WIDTH - 1 : RowStart(z.row) + x \in Cells
  <2> SUFFICES ASSUME NEW z \in Screens(Glyphs)
               PROVE  /\ z.row \in 0 .. VGA_HEIGHT - 1 /\ z.col \in 0 .. VGA_WIDTH - 1
                      /\ RowStart(z.row) \in Nat /\ Pos(z) = RowStart(z.row) + z.col
                      /\ \A x \in 0 .. VGA_WIDTH - 1 : RowStart(z.row) + x \in Cells
    OBVIOUS
  <2>1. z.row \in 0 .. VGA_HEIGHT - 1 /\ z.col \in 0 .. VGA_WIDTH - 1
    BY DEF Screens
  <2> QED
    BY <2>1, PosIs, RowsAre, Sizes
<1>2. ASSUME NEW z \in Screens(Glyphs), z.col = 0, Swept(z)
      PROVE  \A x \in 0 .. VGA_WIDTH - 1 : z.cells[RowStart(z.row) + x] = Blank
  <2> SUFFICES ASSUME NEW x \in 0 .. VGA_WIDTH - 1
               PROVE  z.cells[RowStart(z.row) + x] = Blank
    OBVIOUS
  <2>1. RowStart(z.row) + x \in Cells /\ RowStart(z.row) + x >= Pos(z)
    BY <1>1, <1>2, Sizes
  <2> QED
    BY <1>2, <2>1 DEF Swept
<1>3. Alike(s, t)
  BY <1>0, <1>2 DEF Alike
<1>4. Below(s)
  <2> SUFFICES ASSUME NEW k \in Cells, k >= RowStart(s.row) + VGA_WIDTH
               PROVE  s.cells[k] = Blank
    BY DEF Below
  <2>1. k >= Pos(s)
    <3>1. k \in Int
      BY DEF Cells
    <3> QED
      BY <1>1, <3>1, Sizes
  <2> QED
    BY <2>1 DEF Swept
<1>5. /\ r \in Screens(Glyphs) /\ q \in Screens(Glyphs) /\ Alike(r, q) /\ Below(r)
  BY <1>0, <1>3, <1>4, AlikeRun
<1> HIDE DEF r, q
<1>6. ASSUME NEW k \in Cells, k >= Pos(r) PROVE r.cells[k] = Blank
  <2> DEFINE a == RowStart(r.row)
             b == RowStart(q.row)
             x == k - a
  <2>1. /\ a \in Nat /\ b \in Nat /\ k \in Int /\ Pos(r) = a + r.col /\ Pos(q) = b + r.col
        /\ r.col \in 0 .. VGA_WIDTH - 1
    BY <1>1, <1>5 DEF Cells, Alike
  <2>2. CASE k >= a + VGA_WIDTH
    BY <1>5, <2>2 DEF Below
  <2>3. CASE ~(k >= a + VGA_WIDTH)
    <3>1. x \in 0 .. VGA_WIDTH - 1 /\ a + x = k /\ b + x >= Pos(q)
      <4> HIDE DEF a, b
      <4> QED
        BY <1>6, <2>1, <2>3, Sizes
    <3>2. b + x \in Cells
      BY <1>1, <1>5, <3>1
    <3>3. r.cells[a + x] = q.cells[b + x]
      BY <1>5, <3>1 DEF Alike
    <3> HIDE DEF a, b, x
    <3> QED
      BY <1>0, <3>1, <3>2, <3>3 DEF Swept, q
  <2> QED
    BY <2>2, <2>3
<1> QED
  BY <1>5, <1>6 DEF Swept, r

-----------------------------------------------------------------------------
(* The prompt and the line after it.                                       *)

\* A character leaves what stands before it, in whatever row that is by then.
LEMMA KeptStep ==
    ASSUME NEW V, NEW s \in Screens(V), NEW c, NEW r \in Screens(V), PutcDoes(s, c, r),
           NEW a \in Int, NEW b \in Nat, a <= s.row,
           b = IF Overflows(s, c) THEN a - 1 ELSE a,
           NEW x \in 0 .. VGA_WIDTH - 1,
           s.row = a => x < s.col /\ (c = BS => x < s.col - 1)
    PROVE  r.cells[RowStart(b) + x] = s.cells[RowStart(a) + x]
<1> DEFINE k == RowStart(a) + x
<1>1. /\ s.row \in 0 .. VGA_HEIGHT - 1 /\ s.col \in 0 .. VGA_WIDTH - 1
      /\ s.cells \in [Cells -> V] /\ a \in 0 .. VGA_HEIGHT - 1 /\ x \in Nat
  BY Sizes DEF Screens
<1>2. /\ RowStart(a) \in Nat /\ RowStart(s.row) \in Nat
      /\ Pos(s) = RowStart(s.row) + s.col /\ Pos(s) \in Cells /\ Pos(s) \in Int
  BY <1>1, RowsAre, PosIs DEF Cells
<1>3. k \in Cells /\ k \in Nat
  BY <1>1, <1>2, RowsAre, Sizes
<1>4. a # s.row => RowStart(a) + VGA_WIDTH <= RowStart(s.row)
  BY <1>1, RowsAre, Sizes
<1>5. k < Pos(s)
  BY <1>1, <1>2, <1>4, Sizes
<1>6. c = BS /\ s.col > 0 => k # Pos(s) - 1
  BY <1>1, <1>2, <1>4, Sizes
<1> HIDE DEF k
<1>7. Inked(s, c)[k] = s.cells[k]
  BY <1>1, <1>2, <1>3, <1>5 DEF Inked
<1>8. CASE Stays(s, c, r) /\ ~Overflows(s, c)
  <2>1. r.cells[k] = s.cells[k]
    BY <1>1, <1>3, <1>6, <1>7, <1>8 DEF Stays
  <2> QED
    BY <1>8, <2>1 DEF k
<1>9. CASE Feeds(s, c, r) /\ ~Overflows(s, c)
  BY <1>7, <1>9 DEF Feeds, k
<1>10. CASE Rolls(s, c, r) /\ Overflows(s, c)
  <2> DEFINE l == RowStart(b) + x
  <2>1. b \in 0 .. VGA_HEIGHT - 1 /\ b + 1 = a
    BY <1>1, <1>10, Sizes
  <2>2. RowStart(a) = RowStart(b) + VGA_WIDTH /\ RowStart(b) \in Nat /\ l \in Cells
    BY <1>1, <2>1, RowsAre, Sizes
  <2>3. l + VGA_WIDTH = k
    BY <1>1, <2>2, Sizes DEF k
  <2> HIDE DEF l
  <2>4. r.cells[l] = Inked(s, c)[l + VGA_WIDTH]
    BY <1>3, <1>10, <2>2, <2>3 DEF Rolls
  <2> QED
    BY <1>7, <2>3, <2>4 DEF k, l
<1> QED
  BY <1>8, <1>9, <1>10 DEF PutcDoes

\* The prompt stands before column h of row a.
Stands(s, a, h) ==
    \A i \in 1 .. Len(PromptText) :
      s.cells[RowStart(a) + (h - Len(PromptText) + i - 1)] = PromptText[i]

LEMMA PromptIs ==
    /\ Len(PromptText) \in Nat
    /\ PromptText \in Seq(Glyphs \cup Controls)
    /\ \A i \in 1 .. Len(PromptText) : PromptText[i] \in Glyphs /\ PromptText[i] \notin Controls
<1>1. PromptText \in Seq(Glyphs) /\ Glyphs \cap Controls = {}
  BY ScreenAssumption
<1>2. \A i \in 1 .. Len(PromptText) : PromptText[i] \in Glyphs
  BY <1>1, LenProperties
<1>3. PromptText \in Seq(Glyphs \cup Controls)
  BY <1>1
<1> QED
  BY <1>1, <1>2, <1>3, LenProperties

\* Once printed it stands before the cursor, when it has room there.
LEMMA PromptStands ==
    ASSUME NEW s \in Screens(Glyphs), NEW r, r = Puts(s, PromptText), r.col >= Len(PromptText)
    PROVE  Stands(r, r.row, r.col)
<1> DEFINE f == Prints(s, PromptText)
           n == Len(PromptText)
           Good(z, i) == \/ z.col < i
                         \/ /\ z.col = s.col + i
                            /\ \A k \in 1 .. i :
                                 z.cells[RowStart(z.row) + (s.col + k - 1)] = PromptText[k]
           S == {i \in 0 .. n : Good(f[i], i)}
<1>1. /\ f[0] = s
      /\ \A i \in 0 .. n : f[i] \in Screens(Glyphs)
      /\ \A i \in 1 .. n : PutcDoes(f[i - 1], PromptText[i], f[i])
  BY PromptIs, StepsAre DEF Stepwise
<1>2. n \in Nat /\ r = f[n] /\ \A i \in 1 .. n : PromptText[i] \notin Controls
  BY PromptIs DEF Puts
<1>3. s.col \in 0 .. VGA_WIDTH - 1 /\ s.col \in Nat
  BY Sizes DEF Screens
<1> HIDE DEF f, n
<1>4. 0 \in S
  BY <1>1, <1>2, <1>3
<1>5. ASSUME NEW i \in 1 .. n, i - 1 \in S PROVE i \in S
  <2> DEFINE p == f[i - 1]
             q == f[i]
             c == PromptText[i]
  <2>1. /\ i - 1 \in 0 .. n /\ i \in 0 .. n /\ i \in Nat
        /\ Good(p, i - 1) /\ c \notin Controls
        /\ p \in Screens(Glyphs) /\ q \in Screens(Glyphs) /\ PutcDoes(p, c, q)
    BY <1>1, <1>2, <1>5
  <2>2. /\ p.col \in 0 .. VGA_WIDTH - 1 /\ p.row \in 0 .. VGA_HEIGHT - 1 /\ p.col \in Int
        /\ p.cells \in [Cells -> Glyphs]
    BY <2>1, Sizes DEF Screens
  <2>k. {HT, CR, BS, NL} = Controls
    BY DEF Controls
  <2> HIDE DEF p, q, c
  <2>3. CASE Feeds(p, c, q) \/ Rolls(p, c, q)
    <3>1. q.col < i
      BY <2>1, <2>3 DEF Feeds, Rolls
    <3> QED
      BY <2>1, <3>1 DEF q
  <2>4. CASE Stays(p, c, q)
    <3>1. q.row = p.row /\ q.col = p.col + 1 /\ q.cells = [p.cells EXCEPT ![Pos(p)] = c]
      BY <2>1, <2>4, <2>k DEF Stays, Inked
    <3>2. CASE p.col < i - 1
      <4>1. q.col < i
        BY <2>1, <2>2, <3>1, <3>2
      <4> QED
        BY <2>1, <4>1 DEF q
    <3>3. CASE ~(p.col < i - 1)
      <4>1. /\ p.col = s.col + (i - 1)
            /\ \A k \in 1 .. i - 1 :
                 p.cells[RowStart(p.row) + (s.col + k - 1)] = PromptText[k]
        BY <2>1, <3>3
      <4>2. q.col = s.col + i
        BY <1>3, <2>1, <3>1, <4>1
      <4>3. /\ Pos(p) = RowStart(p.row) + p.col /\ Pos(p) \in Cells /\ RowStart(p.row) \in Nat
        BY <2>1, <2>2, PosIs, RowsAre
      <4>4. ASSUME NEW k \in 1 .. i
            PROVE  q.cells[RowStart(q.row) + (s.col + k - 1)] = PromptText[k]
        <5> DEFINE l == RowStart(p.row) + (s.col + k - 1)
        <5>1. l \in Cells
          <6> DEFINE x == s.col + k - 1
          <6>1. x \in 0 .. VGA_WIDTH - 1 /\ x \in Int
            <7>1. s.col + k - 1 >= 0 /\ s.col + k - 1 <= p.col /\ s.col + k - 1 \in Int
              BY <1>3, <2>1, <4>1
            <7> QED
              BY <2>2, <7>1, Sizes
          <6> HIDE DEF x
          <6>2. /\ RowStart(p.row) \in Nat /\ RowStart(p.row) <= RowStart(VGA_HEIGHT - 1)
                /\ \A k2 \in Int : k2 \in Cells
                                <=> k2 >= 0 /\ k2 < RowStart(VGA_HEIGHT - 1) + VGA_WIDTH
                /\ RowStart(VGA_HEIGHT - 1) \in Nat
            BY <2>2, RowsAre, Sizes
          <6>3. RowStart(p.row) + x \in Cells
            BY <6>1, <6>2, Sizes
          <6> QED
            BY <6>3 DEF x
        <5>2. CASE k = i
          <6>1. l = Pos(p)
            BY <1>3, <2>1, <4>1, <4>3, <5>2
          <6> HIDE DEF l
          <6>2. q.cells[l] = c
            BY <2>2, <3>1, <4>3, <6>1
          <6> QED
            BY <3>1, <5>2, <6>2 DEF l, c
        <5>3. CASE k # i
          <6>1. k \in 1 .. i - 1 /\ l # Pos(p)
            BY <1>3, <2>1, <4>1, <4>3, <5>3
          <6>2. p.cells[l] = PromptText[k]
            BY <4>1, <6>1
          <6> HIDE DEF l
          <6>3. q.cells[l] = p.cells[l]
            BY <2>2, <3>1, <4>3, <5>1, <6>1
          <6> QED
            BY <3>1, <6>2, <6>3 DEF l
        <5> QED
          BY <5>2, <5>3
      <4> QED
        BY <2>1, <4>2, <4>4 DEF q
    <3> QED
      BY <3>2, <3>3
  <2> QED
    BY <2>1, <2>3, <2>4 DEF PutcDoes
<1>6. n \in S
  <2>1. n \in 0 .. n
    BY <1>2
  <2> HIDE DEF S
  <2> QED
    BY <1>2, <1>4, <1>5, <2>1, Climb
<1>7. Good(f[n], n)
  BY <1>6
<1>8. r.col \in Nat /\ ~(r.col < n)
  <2>1. r.col \in 0 .. VGA_WIDTH - 1
    BY <1>1, <1>2 DEF Screens
  <2> QED
    BY <1>2, <2>1, Sizes DEF n
<1>9. /\ r.col = s.col + n
      /\ \A k \in 1 .. n : r.cells[RowStart(r.row) + (s.col + k - 1)] = PromptText[k]
  BY <1>2, <1>7, <1>8
<1>10. ASSUME NEW i \in 1 .. n
       PROVE  r.cells[RowStart(r.row) + (r.col - n + i - 1)] = PromptText[i]
  <2>1. r.col - n + i - 1 = s.col + i - 1
    BY <1>2, <1>3, <1>9
  <2> QED
    BY <1>9, <2>1
<1> QED
  BY <1>10 DEF Stands, n

\* The screen z while line's first j characters stand after column h of row a, the
\* cursor behind them.  Once the line has reached the right edge (w) the cursor
\* never comes back to the row: '\b' does nothing in column 0.
Shown(z, a, h, line, j, w) ==
    /\ z \in Screens(Glyphs) /\ Swept(z)
    /\ a \in Int /\ a <= z.row
    /\ a >= 0 /\ h >= Len(PromptText) => Stands(z, a, h)
    /\ IF w \/ h + j >= VGA_WIDTH
       THEN z.row > a
       ELSE /\ z.row = a /\ z.col = h + j
            /\ \A i \in 1 .. j : z.cells[RowStart(a) + (h + i - 1)] = line[i]

\* What a character does to what stands in the row's first columns, when it is not
\* before the cursor.
LEMMA StandsStep ==
    ASSUME NEW s \in Screens(Glyphs), NEW c, NEW r \in Screens(Glyphs), PutcDoes(s, c, r),
           NEW a \in Int, NEW b \in Int, a <= s.row,
           b = IF Overflows(s, c) THEN a - 1 ELSE a,
           NEW h \in 0 .. VGA_WIDTH - 1,
           s.row = a => h <= s.col /\ (c = BS => h < s.col),
           a >= 0 /\ h >= Len(PromptText) => Stands(s, a, h),
           b >= 0, h >= Len(PromptText)
    PROVE  Stands(r, b, h)
<1> SUFFICES ASSUME NEW i \in 1 .. Len(PromptText)
             PROVE  r.cells[RowStart(b) + (h - Len(PromptText) + i - 1)] = PromptText[i]
  BY DEF Stands
<1> DEFINE x == h - Len(PromptText) + i - 1
<1>1. x \in 0 .. VGA_WIDTH - 1 /\ x < h /\ h \in Nat /\ s.col \in Int
  BY PromptIs, Sizes DEF Screens
<1>2. b \in Nat /\ a >= 0 /\ Stands(s, a, h)
  OBVIOUS
<1>3. s.cells[RowStart(a) + x] = PromptText[i]
  BY <1>2 DEF Stands
<1> HIDE DEF x
<1>4. s.row = a => x < s.col /\ (c = BS => x < s.col - 1)
  BY <1>1
<1>5. r.cells[RowStart(b) + x] = s.cells[RowStart(a) + x]
  BY <1>1, <1>2, <1>4, KeptStep
<1> QED
  BY <1>3, <1>5 DEF x

\* The next character of the line.
LEMMA GlyphShown ==
    ASSUME NEW z, NEW a, NEW h \in 0 .. VGA_WIDTH - 1, NEW line, NEW j \in Nat, NEW w,
           Shown(z, a, h, line, j, w), NEW c \in Glyphs, c = line[j + 1],
           NEW r \in Screens(Glyphs), PutcDoes(z, c, r),
           NEW b, b = IF Overflows(z, c) THEN a - 1 ELSE a
    PROVE  Shown(r, b, h, line, j + 1, w)
<1>1. /\ z \in Screens(Glyphs) /\ Swept(z) /\ a \in Int /\ b \in Int /\ a <= z.row
      /\ a >= 0 /\ h >= Len(PromptText) => Stands(z, a, h)
      /\ h \in Nat
  BY Sizes DEF Shown
<1>2. /\ z.row \in 0 .. VGA_HEIGHT - 1 /\ z.col \in 0 .. VGA_WIDTH - 1
      /\ r.row \in 0 .. VGA_HEIGHT - 1 /\ r.col \in 0 .. VGA_WIDTH - 1
      /\ z.cells \in [Cells -> Glyphs] /\ z.row \in Int /\ z.col \in Int
  BY <1>1, Sizes DEF Screens
<1>k. c \notin Controls /\ c # BS /\ c # CR /\ c # HT
  BY ScreenAssumption DEF Controls
<1>3. Swept(r)
  BY <1>1, <1>k, SweptStep
<1>4. z.row = a => h <= z.col
  <2>1. z.row = a => z.col = h + j
    BY <1>1 DEF Shown
  <2> QED
    BY <1>1, <2>1
<1>5. b >= 0 /\ h >= Len(PromptText) => Stands(r, b, h)
  BY <1>1, <1>4, <1>k, StandsStep
<1>6. CASE Stays(z, c, r) /\ ~Overflows(z, c)
  <2>1. b = a /\ r.row = z.row /\ r.col = z.col + 1 /\ z.col + 1 < VGA_WIDTH
        /\ r.cells = [z.cells EXCEPT ![Pos(z)] = c]
    BY <1>6, <1>k DEF Stays, Inked
  <2>2. CASE w \/ h + j >= VGA_WIDTH
    <3>1. z.row > a /\ (w \/ h + (j + 1) >= VGA_WIDTH)
      BY <1>1, <2>2, Sizes DEF Shown
    <3> QED
      BY <1>1, <1>2, <1>3, <1>5, <2>1, <3>1 DEF Shown
  <2>3. CASE ~(w \/ h + j >= VGA_WIDTH)
    <3>1. /\ z.row = a /\ z.col = h + j
          /\ \A i \in 1 .. j : z.cells[RowStart(a) + (h + i - 1)] = line[i]
      BY <2>3 DEF Shown
    <3>2. ~(w \/ h + (j + 1) >= VGA_WIDTH) /\ r.col = h + (j + 1)
      BY <1>1, <2>1, <2>3, <3>1, Sizes
    <3>3. Pos(z) = RowStart(a) + z.col /\ Pos(z) \in Cells /\ RowStart(a) \in Nat
      BY <1>1, <1>2, <3>1, PosIs, RowsAre
    <3>4. ASSUME NEW i \in 1 .. j + 1
          PROVE  r.cells[RowStart(b) + (h + i - 1)] = line[i]
      <4> DEFINE l == RowStart(a) + (h + i - 1)
      <4>1. l \in Cells
        <5> DEFINE x == h + i - 1
        <5>1. x \in 0 .. VGA_WIDTH - 1 /\ x \in Int /\ a \in 0 .. VGA_HEIGHT - 1
          BY <1>1, <1>2, <2>1, <3>1, Sizes
        <5> HIDE DEF x
        <5>2. RowStart(a) + x \in Cells
          BY <5>1, RowsAre, Sizes
        <5> QED
          BY <5>2 DEF x
      <4>2. CASE i = j + 1
        <5>1. l = Pos(z)
          BY <1>1, <3>1, <3>3, <4>2
        <5> HIDE DEF l
        <5>2. r.cells[l] = c
          BY <1>2, <2>1, <3>3, <5>1
        <5> QED
          BY <2>1, <4>2, <5>2 DEF l
      <4>3. CASE i # j + 1
        <5>1. i \in 1 .. j /\ l # Pos(z)
          BY <1>1, <3>1, <3>3, <4>3
        <5>2. z.cells[l] = line[i]
          BY <3>1, <5>1
        <5> HIDE DEF l
        <5>3. r.cells[l] = z.cells[l]
          BY <1>2, <2>1, <3>3, <4>1, <5>1
        <5> QED
          BY <2>1, <5>2, <5>3 DEF l
      <4> QED
        BY <4>2, <4>3
    <3>5. r.row = b /\ b <= r.row
      BY <1>1, <2>1, <3>1
    <3> QED
      BY <1>1, <1>3, <1>5, <3>2, <3>4, <3>5 DEF Shown
  <2> QED
    BY <2>2, <2>3
<1>7. CASE (Feeds(z, c, r) /\ ~Overflows(z, c)) \/ (Rolls(z, c, r) /\ Overflows(z, c))
  <2>1. r.row > b
    BY <1>1, <1>2, <1>7 DEF Feeds, Rolls
  <2>2. w \/ h + (j + 1) >= VGA_WIDTH
    <3>1. z.col + 1 = VGA_WIDTH
      BY <1>7, <1>k DEF Feeds, Rolls, Turns, Controls
    <3>2. w \/ h + j >= VGA_WIDTH \/ z.col = h + j
      BY DEF Shown
    <3> QED
      BY <1>1, <3>1, <3>2, Sizes
  <2> QED
    BY <1>1, <1>2, <1>3, <1>5, <2>1, <2>2 DEF Shown
<1> QED
  BY <1>6, <1>7 DEF PutcDoes

\* '\b' takes the last one away.
LEMMA BackShown ==
    ASSUME NEW z, NEW a, NEW h \in 0 .. VGA_WIDTH - 1, NEW line, NEW j \in Nat, j > 0, NEW w,
           Shown(z, a, h, line, j, w), w \/ h + j < VGA_WIDTH,
           NEW r \in Screens(Glyphs), PutcDoes(z, BS, r),
           NEW b, b = IF Overflows(z, BS) THEN a - 1 ELSE a
    PROVE  Shown(r, b, h, line, j - 1, w)
<1>1. /\ z \in Screens(Glyphs) /\ Swept(z) /\ a \in Int /\ b \in Int /\ a <= z.row
      /\ a >= 0 /\ h >= Len(PromptText) => Stands(z, a, h)
      /\ h \in Nat
  BY Sizes DEF Shown
<1>2. /\ z.row \in 0 .. VGA_HEIGHT - 1 /\ z.col \in 0 .. VGA_WIDTH - 1
      /\ r.row \in 0 .. VGA_HEIGHT - 1 /\ r.col \in 0 .. VGA_WIDTH - 1
      /\ z.cells \in [Cells -> Glyphs] /\ z.row \in Int /\ z.col \in Int
  BY <1>1, Sizes DEF Screens
<1>k. BS \in Controls /\ BS # CR /\ BS # HT /\ BS # NL
  BY ScreenAssumption DEF Controls
<1>3. Swept(r)
  BY <1>1, <1>k, SweptStep
<1>4. z.row = a => h <= z.col /\ h < z.col
  <2>1. z.row = a => z.col = h + j
    BY <1>1 DEF Shown
  <2> QED
    BY <1>1, <2>1
<1>5. b >= 0 /\ h >= Len(PromptText) => Stands(r, b, h)
  BY <1>1, <1>4, StandsStep
<1>6. Stays(z, BS, r) /\ ~Overflows(z, BS)
  BY <1>k DEF PutcDoes, Feeds, Rolls, Turns
<1>7. b = a /\ r.row = z.row
  BY <1>6 DEF Stays
<1>8. CASE w
  <2>1. z.row > a
    BY <1>8 DEF Shown
  <2> QED
    BY <1>1, <1>3, <1>5, <1>7, <1>8, <2>1 DEF Shown
<1>9. CASE ~w
  <2>1. ~(h + j >= VGA_WIDTH) /\ ~(h + (j - 1) >= VGA_WIDTH)
    BY <1>1, <1>9, Sizes
  <2>2. /\ z.row = a /\ z.col = h + j
        /\ \A i \in 1 .. j : z.cells[RowStart(a) + (h + i - 1)] = line[i]
    BY <1>9, <2>1 DEF Shown
  <2>3. r.col = z.col - 1 /\ r.cells = [z.cells EXCEPT ![Pos(z) - 1] = Blank]
    BY <1>1, <1>2, <1>6, <1>k, <2>2 DEF Stays
  <2>4. Pos(z) = RowStart(a) + z.col /\ Pos(z) \in Cells /\ RowStart(a) \in Nat
    BY <1>1, <1>2, <2>2, PosIs, RowsAre
  <2>5. ASSUME NEW i \in 1 .. j - 1
        PROVE  r.cells[RowStart(b) + (h + i - 1)] = line[i]
    <3> DEFINE l == RowStart(a) + (h + i - 1)
    <3>1. l \in Cells /\ l # Pos(z) - 1
      <4> DEFINE x == h + i - 1
      <4>1. x \in 0 .. VGA_WIDTH - 1 /\ x \in Int /\ a \in 0 .. VGA_HEIGHT - 1
            /\ x < z.col - 1
        BY <1>1, <1>2, <2>2, Sizes
      <4> HIDE DEF x
      <4>2. RowStart(a) + x \in Cells /\ RowStart(a) + x # Pos(z) - 1
        BY <1>2, <2>4, <4>1, RowsAre, Sizes
      <4> QED
        BY <4>2 DEF x
    <3>2. z.cells[l] = line[i]
      BY <2>2
    <3> HIDE DEF l
    <3>3. r.cells[l] = z.cells[l]
      BY <1>2, <2>3, <3>1
    <3> QED
      BY <1>7, <3>2, <3>3 DEF l
  <2>6. r.row = b /\ b <= r.row /\ r.col = h + (j - 1)
    BY <1>1, <1>7, <2>2, <2>3
  <2> QED
    BY <1>1, <1>3, <1>5, <1>9, <2>1, <2>5, <2>6 DEF Shown
<1> QED
  BY <1>8, <1>9

\* What the editor prints takes back characters of the old line and goes on with
\* those of the new one.
Echoes(text, old, n, new, p, back) ==
    /\ n \in Nat /\ p \in Nat /\ back \in 0 .. n /\ n - back <= p
    /\ Len(text) = back + (p - (n - back))
    /\ \A i \in 1 .. back : text[i] = BS
    /\ \A i \in 1 .. p - (n - back) :
         text[back + i] = new[(n - back) + i] /\ text[back + i] \in Glyphs
    /\ \A i \in 1 .. n - back : new[i] = old[i]

LEMMA EchoRun ==
    ASSUME NEW z, NEW a, NEW h \in 0 .. VGA_WIDTH - 1, NEW w,
           NEW text \in Seq(Glyphs \cup Controls),
           NEW old, NEW n, NEW new, NEW p, NEW back, Echoes(text, old, n, new, p, back),
           Shown(z, a, h, old, n, w), w \/ h + n < VGA_WIDTH
    PROVE  Shown(Puts(z, text), a - Scrolls(z, text), h, new, p, w)
<1> DEFINE f == Prints(z, text)
           m == n - back
           len == Len(text)
<1>1. PICK u : Counted(u, Prints(z, text), text) /\ Scrolls(z, text) = u[Len(text)]
  BY ScrollsIs
<1>2. /\ z \in Screens(Glyphs) /\ a \in Int
      /\ n \in Nat /\ p \in Nat /\ back \in 0 .. n /\ m <= p
  BY DEF Shown, Echoes
<1>3. /\ f[0] = z
      /\ \A i \in 0 .. len : f[i] \in Screens(Glyphs)
      /\ \A i \in 1 .. len : PutcDoes(f[i - 1], text[i], f[i])
  BY <1>2, StepsAre DEF Stepwise
<1>4. /\ u[0] = 0
      /\ \A i \in 1 .. len : u[i] = u[i - 1] + (IF Overflows(f[i - 1], text[i]) THEN 1 ELSE 0)
      /\ Puts(z, text) = f[len] /\ Scrolls(z, text) = u[len]
  <2>1. \A i \in 1 .. len : i \in Nat \ {0}
    BY LenProperties
  <2> QED
    BY <1>1, <2>1 DEF Counted, Puts
<1>5. /\ m \in Nat /\ n = m + back /\ len = back + (p - m) /\ back \in Nat /\ len \in Nat
      /\ p - m \in Nat
      /\ \A i \in 1 .. back : text[i] = BS
      /\ \A i \in 1 .. p - m : text[back + i] = new[m + i] /\ text[back + i] \in Glyphs
      /\ \A i \in 1 .. m : new[i] = old[i]
  BY <1>2 DEF Echoes
<1>6. h \in Nat
  BY Sizes
<1> DEFINE S == {i \in Nat : u[i] \in Nat /\ Shown(f[i], a - u[i], h, old, n - i, w)}
           T == {i \in Nat : u[back + i] \in Nat
                             /\ Shown(f[back + i], a - u[back + i], h, new, m + i, w)}
<1> HIDE DEF f, m, len
<1>7. 0 \in S
  <2>1. a - u[0] = a /\ n - 0 = n
    BY <1>2, <1>4
  <2> QED
    BY <1>3, <1>4, <2>1
<1>8. ASSUME NEW i \in 1 .. back, i - 1 \in S PROVE i \in S
  <2>1. i \in Nat /\ i \in 1 .. len /\ i \in 0 .. len /\ i - 1 \in 0 .. len
    BY <1>5
  <2>2. PutcDoes(f[i - 1], BS, f[i]) /\ f[i] \in Screens(Glyphs)
    BY <1>3, <1>5, <2>1
  <2>3. u[i - 1] \in Nat /\ Shown(f[i - 1], a - u[i - 1], h, old, n - (i - 1), w)
    BY <1>8
  <2>4. u[i] = u[i - 1] + (IF Overflows(f[i - 1], BS) THEN 1 ELSE 0)
    BY <1>4, <1>5, <2>1
  <2>5. /\ u[i] \in Nat
        /\ a - u[i] = IF Overflows(f[i - 1], BS) THEN (a - u[i - 1]) - 1 ELSE a - u[i - 1]
    <3> DEFINE x == u[i - 1]
               y == u[i]
    <3>1. x \in Nat /\ y = x + (IF Overflows(f[i - 1], BS) THEN 1 ELSE 0)
      BY <2>3, <2>4
    <3>2. a \in Int
      BY <1>2
    <3> HIDE DEF x, y
    <3>3. /\ y \in Nat
          /\ a - y = IF Overflows(f[i - 1], BS) THEN (a - x) - 1 ELSE a - x
      BY <3>1, <3>2
    <3> QED
      BY <3>3 DEF x, y
  <2> DEFINE j == n - (i - 1)
  <2>6. j \in Nat /\ j > 0 /\ j - 1 = n - i /\ (w \/ h + j < VGA_WIDTH)
    BY <1>2, <1>5, <1>6, Sizes
  <2> HIDE DEF S
  <2>7. Shown(f[i], a - u[i], h, old, j - 1, w)
    <3>1. Shown(f[i - 1], a - u[i - 1], h, old, j, w)
      BY <2>3
    <3> HIDE DEF j
    <3> QED
      BY <2>2, <2>5, <2>6, <3>1, BackShown
  <2> QED
    BY <2>1, <2>5, <2>6, <2>7 DEF S
<1>9. back \in S
  <2>1. back \in 0 .. back
    BY <1>5
  <2> HIDE DEF S
  <2> QED
    BY <1>5, <1>7, <1>8, <2>1, Climb
<1>10. 0 \in T
  <2>1. back + 0 = back /\ n - back = m /\ m + 0 = m
    BY <1>2, <1>5
  <2>2. u[back] \in Nat /\ Shown(f[back], a - u[back], h, old, m, w)
    BY <1>9, <2>1
  <2>3. Shown(f[back], a - u[back], h, new, m, w)
    BY <1>5, <2>2 DEF Shown
  <2> QED
    BY <2>1, <2>2, <2>3
<1>11. ASSUME NEW i \in 1 .. p - m, i - 1 \in T PROVE i \in T
  <2> DEFINE k == back + i
             j == m + (i - 1)
             c == text[k]
  <2>1. i \in Nat /\ k \in 1 .. len /\ k \in 0 .. len /\ k - 1 = back + (i - 1)
        /\ j \in Nat /\ j + 1 = m + i
    BY <1>5
  <2>2. PutcDoes(f[k - 1], c, f[k]) /\ f[k] \in Screens(Glyphs) /\ c \in Glyphs /\ c = new[j + 1]
    BY <1>3, <1>5, <2>1
  <2>3. u[k - 1] \in Nat /\ Shown(f[k - 1], a - u[k - 1], h, new, j, w)
    BY <1>11, <2>1
  <2>4. u[k] = u[k - 1] + (IF Overflows(f[k - 1], c) THEN 1 ELSE 0)
    BY <1>4, <2>1
  <2> HIDE DEF T, j, k, c
  <2>5. /\ u[k] \in Nat
        /\ a - u[k] = IF Overflows(f[k - 1], c) THEN (a - u[k - 1]) - 1 ELSE a - u[k - 1]
    <3> DEFINE x == u[k - 1]
               y == u[k]
    <3>1. x \in Nat /\ y = x + (IF Overflows(f[k - 1], c) THEN 1 ELSE 0)
      BY <2>3, <2>4
    <3>2. a \in Int
      BY <1>2
    <3> HIDE DEF x, y
    <3>3. /\ y \in Nat
          /\ a - y = IF Overflows(f[k - 1], c) THEN (a - x) - 1 ELSE a - x
      BY <3>1, <3>2
    <3> QED
      BY <3>3 DEF x, y
  <2>6. Shown(f[k], a - u[k], h, new, j + 1, w)
    BY <2>1, <2>2, <2>3, <2>5, GlyphShown
  <2> QED
    BY <2>1, <2>5, <2>6 DEF T, k
<1>12. p - m \in T
  <2>1. p - m \in 0 .. p - m
    BY <1>5
  <2> HIDE DEF T
  <2> QED
    BY <1>5, <1>10, <1>11, <2>1, Climb
<1>13. back + (p - m) = len /\ m + (p - m) = p
  BY <1>2, <1>5
<1> QED
  BY <1>4, <1>12, <1>13

-----------------------------------------------------------------------------
(* The console.                                                            *)

(***************************************************************************)
(* The inductive invariant: nothing stands behind the cursor, and while a  *)
(* line is read it stands after the prompt until it reaches the right      *)
(* edge.  Between lines the cursor is in column 0, so that a command finds *)
(* a blank row.                                                            *)
(***************************************************************************)
ConsoleInv ==
    /\ Inv
    /\ vga \in Screens(Glyphs) /\ Swept(vga)
    /\ home \in 0 .. VGA_WIDTH - 1
    /\ above \in Int /\ above <= vga.row
    /\ IF reading
       THEN /\ Shown(vga, above, home, buf, Len(buf), wrapped)
            /\ wrapped \/ home + Len(buf) < VGA_WIDTH
       ELSE vga.col = 0 /\ buf = <<>>

\* A prompt on a screen with nothing behind the cursor.
LEMMA PromptInv ==
    ASSUME NEW s \in Screens(Glyphs), Swept(s), Prompt(s), Inv', buf' = <<>>
    PROVE  ConsoleInv'
<1> DEFINE r == Puts(s, PromptText)
<1>1. /\ vga' = r /\ home' = vga'.col /\ above' = vga'.row /\ wrapped' = FALSE
      /\ reading' = TRUE
  BY DEF Prompt
<1>2. r \in Screens(Glyphs) /\ Swept(r)
  <2>1. \A i \in 1 .. Len(PromptText) : PromptText[i] # CR
    BY PromptIs DEF Controls
  <2> QED
    BY <2>1, PromptIs, SweptRun
<1>3. r.col >= Len(PromptText) => Stands(r, r.row, r.col)
  BY PromptStands
<1> HIDE DEF r
<1>4. /\ r.row \in 0 .. VGA_HEIGHT - 1 /\ r.row \in Int
      /\ r.col \in 0 .. VGA_WIDTH - 1 /\ r.col \in Int
  BY <1>2, Sizes DEF Screens
<1>5. Len(buf') = 0
  OBVIOUS
<1>6. Shown(r, r.row, r.col, buf', 0, FALSE)
  <2>1. ~(FALSE \/ r.col + 0 >= VGA_WIDTH) /\ r.col = r.col + 0
    BY <1>4, Sizes
  <2> QED
    BY <1>2, <1>3, <1>4, <2>1 DEF Shown
<1>7. Shown(vga', above', home', buf', Len(buf'), wrapped')
  BY <1>1, <1>5, <1>6
<1>8. home' + Len(buf') < VGA_WIDTH
  BY <1>1, <1>4, <1>5, Sizes
<1> QED
  BY <1>1, <1>2, <1>4, <1>7, <1>8 DEF ConsoleInv

LEMMA ConsoleInitInv == ConsoleInit => ConsoleInv
<1> SUFFICES ASSUME ConsoleInit PROVE ConsoleInv
  OBVIOUS
<1> DEFINE s == [Cleared EXCEPT !.row = VGA_HEIGHT - 1]
           r == Puts(s, PromptText)
<1>1. /\ Init /\ vga = r /\ home = vga.col /\ above = vga.row /\ wrapped = FALSE
      /\ reading = TRUE /\ buf = <<>>
  BY DEF ConsoleInit, Init
<1>2. Inv
  BY <1>1, InitInv
<1>3. s \in Screens(Glyphs) /\ Swept(s)
  <2>1. Blank \in Glyphs /\ VGA_HEIGHT - 1 \in 0 .. VGA_HEIGHT - 1 /\ 0 \in 0 .. VGA_WIDTH - 1
    BY ScreenAssumption, Sizes
  <2>2. s = [cells |-> [k \in Cells |-> Blank], row |-> VGA_HEIGHT - 1, col |-> 0]
    BY DEF Cleared
  <2> HIDE DEF s
  <2> QED
    BY <2>1, <2>2 DEF Screens, Swept
<1> HIDE DEF s
<1>4. r \in Screens(Glyphs) /\ Swept(r)
  <2>1. \A i \in 1 .. Len(PromptText) : PromptText[i] # CR
    BY PromptIs DEF Controls
  <2> QED
    BY <1>3, <2>1, PromptIs, SweptRun
<1>5. r.col >= Len(PromptText) => Stands(r, r.row, r.col)
  BY <1>3, PromptStands
<1> HIDE DEF r
<1>6. /\ r.row \in 0 .. VGA_HEIGHT - 1 /\ r.row \in Int
      /\ r.col \in 0 .. VGA_WIDTH - 1 /\ r.col \in Int
  BY <1>4, Sizes DEF Screens
<1>7. Len(buf) = 0
  BY <1>1
<1>8. Shown(r, r.row, r.col, buf, 0, FALSE)
  <2>1. ~(FALSE \/ r.col + 0 >= VGA_WIDTH) /\ r.col = r.col + 0
    BY <1>6, Sizes
  <2> QED
    BY <1>4, <1>5, <1>6, <2>1 DEF Shown
<1>9. home + Len(buf) < VGA_WIDTH
  BY <1>1, <1>6, <1>7, Sizes
<1>10. Shown(vga, above, home, buf, Len(buf), wrapped)
  BY <1>1, <1>7, <1>8
<1> QED
  BY <1>1, <1>2, <1>4, <1>6, <1>9, <1>10 DEF ConsoleInv

\* The editor's step of a console's step.
LEMMA ConsoleStep ==
    ASSUME ConsoleNext \/ UNCHANGED consoleVars
    PROVE  [Next]_vars
  BY DEF ConsoleNext, consoleVars, Edit, EditLine, Return, Command, Clear, Next

\* What is echoed is what becomes of the line.
LEMMA EchoInv ==
    ASSUME ConsoleInv, Inv', reading, UNCHANGED reading,
           NEW text \in Seq(Glyphs \cup Controls), NEW back,
           Echoes(text, buf, Len(buf), buf', Len(buf'), back), Echo(text)
    PROVE  ConsoleInv'
<1> DEFINE r == Puts(vga, text)
           a == above - Scrolls(vga, text)
           p == Len(buf')
<1>1. /\ vga' = r /\ above' = a /\ home' = home
      /\ wrapped' = (wrapped \/ home + p >= VGA_WIDTH)
  BY DEF Echo
<1>2. home \in 0 .. VGA_WIDTH - 1 /\ home \in Int /\ p \in Nat
  BY Sizes DEF ConsoleInv, Echoes
<1>3. Shown(r, a, home, buf', p, wrapped)
  BY <1>2, EchoRun DEF ConsoleInv
<1> HIDE DEF r, a, p
<1>4. Shown(r, a, home, buf', p, wrapped')
  BY <1>1, <1>3 DEF Shown
<1>5. wrapped' \/ home + p < VGA_WIDTH
  <2>1. home + p >= VGA_WIDTH \/ home + p < VGA_WIDTH
    BY <1>2, Sizes
  <2>2. CASE home + p >= VGA_WIDTH
    <3>1. (wrapped \/ home + p >= VGA_WIDTH) = TRUE
      BY <2>2
    <3> QED
      BY <1>1, <3>1
  <2> QED
    BY <2>1, <2>2
<1>6. r \in Screens(Glyphs) /\ Swept(r) /\ a \in Int /\ a <= r.row
  BY <1>3 DEF Shown
<1> QED
  BY <1>1, <1>2, <1>4, <1>5, <1>6 DEF ConsoleInv, p

\* The old line is taken back whole, and the new one printed.
LEMMA RecallEchoes ==
    ASSUME buf \in Seq(Chars), buf' \in Seq(Chars)
    PROVE  /\ Back \o buf' \in Seq(Glyphs \cup Controls)
           /\ Echoes(Back \o buf', buf, Len(buf), buf', Len(buf'), Len(buf))
<1> DEFINE V == Glyphs \cup Controls
           n == Len(buf)
           p == Len(buf')
           t == Back \o buf'
<1>1. n \in Nat /\ p \in Nat /\ Chars \subseteq Glyphs /\ BS \in V
      /\ \A i \in 1 .. p : buf'[i] \in Glyphs
  BY LenProperties, ScreenAssumption DEF Controls
<1>2. Long(Back, V, n) /\ \A i \in 1 .. n : Back[i] = BS
  <2>1. Back = [i \in 1 .. n |-> BS]
    BY DEF Back
  <2> HIDE DEF n, V
  <2>2. Back \in Seq(V) /\ Len(Back) = n
    BY <1>1, <2>1
  <2> QED
    BY <1>1, <2>1, <2>2 DEF Long
<1>3. Long(buf', V, p)
  <2>1. buf' \in Seq(V)
    BY <1>1
  <2> QED
    BY <1>1, <2>1 DEF Long
<1> HIDE DEF V
<1>4. Joined(t, Back, buf', V, n, p)
  <2> HIDE DEF n, p, t
  <2> QED
    BY <1>2, <1>3, ConcatIs DEF t
<1> HIDE DEF t, n, p
<1>5. /\ t \in Seq(V) /\ Len(t) = n + p
      /\ \A i \in 1 .. n : t[i] = BS
      /\ \A i \in 1 .. p : t[n + i] = buf'[i] /\ t[n + i] \in Glyphs
  BY <1>1, <1>2, <1>4 DEF Joined, Long
<1>6. Echoes(t, buf, n, buf', p, n)
  <2>1. n - n = 0 /\ p - 0 = p /\ n \in 0 .. n /\ 0 <= p
    BY <1>1
  <2>2. \A i \in 1 .. p : t[n + i] = buf'[0 + i] /\ t[n + i] \in Glyphs
    BY <1>1, <1>5
  <2> QED
    BY <1>1, <1>5, <2>1, <2>2 DEF Echoes
<1> QED
  BY <1>5, <1>6 DEF V, t, n, p

LEMMA EditInv ==
    ASSUME ConsoleInv, Inv', Edit
    PROVE  ConsoleInv'
<1> DEFINE n == Len(buf)
<1>1. /\ buf \in Seq(Chars) /\ buf' \in Seq(Chars) /\ reading /\ UNCHANGED reading
      /\ n \in Nat /\ EditLine
  BY LenProperties DEF ConsoleInv, Inv, TypeOK, Edit
<1>2. Chars \subseteq Glyphs
  BY ScreenAssumption
<1>3. ASSUME NEW ch \in Chars, Type(ch), Echo(<<ch>>) PROVE ConsoleInv'
  <2>1. buf' = Append(buf, ch)
    BY <1>3 DEF Type
  <2>2. /\ Len(buf') = n + 1 /\ buf'[n + 1] = ch
        /\ \A i \in 1 .. n : buf'[i] = buf[i]
    BY <1>1, <2>1, AppendProperties
  <2> DEFINE text == <<ch>>
  <2>3. text \in Seq(Glyphs \cup Controls) /\ Len(text) = 1 /\ text[1] = ch /\ ch \in Glyphs
    BY <1>2
  <2> HIDE DEF text, n
  <2>4. Echoes(text, buf, n, buf', n + 1, 0)
    <3>1. n - 0 = n /\ (n + 1) - n = 1 /\ 0 \in 0 .. n /\ n <= n + 1 /\ 0 + (n + 1 - n) = 1
      BY <1>1
    <3>2. \A i \in 1 .. 1 : text[0 + i] = buf'[n + i] /\ text[0 + i] \in Glyphs
      BY <2>2, <2>3
    <3> QED
      BY <1>1, <2>2, <2>3, <3>1, <3>2 DEF Echoes
  <2>5. Echoes(text, buf, Len(buf), buf', Len(buf'), 0) /\ Echo(text)
    BY <1>3, <2>2, <2>4 DEF n, text
  <2> QED
    BY <1>1, <2>3, <2>5, EchoInv
<1>4. CASE Backspace /\ Echo(<<BS>>)
  <2>1. n > 0 /\ buf' = SubSeq(buf, 1, n - 1)
    BY <1>1, <1>4, EmptySeq DEF Backspace
  <2>2. Sliced(SubSeq(buf, 1, n - 1), buf, Chars, 1, (n - 1) + 1 - 1)
    <3>1. Long(buf, Chars, n) /\ n - 1 \in Nat /\ 1 <= (n - 1) + 1 /\ n - 1 <= n
      BY <1>1, <2>1 DEF Long
    <3> HIDE DEF n
    <3> QED
      BY <3>1, SliceIs
  <2> HIDE DEF n
  <2>3. Len(buf') = n - 1 /\ \A i \in 1 .. n - 1 : buf'[i] = buf[i]
    <3>1. (n - 1) + 1 - 1 = n - 1
      BY <1>1
    <3>2. Len(buf') = n - 1 /\ \A i \in 1 .. n - 1 : buf'[i] = buf[1 - 1 + i]
      BY <2>1, <2>2, <3>1 DEF Sliced, Long
    <3> QED
      BY <1>1, <3>2
  <2> DEFINE text == <<BS>>
  <2>4. text \in Seq(Glyphs \cup Controls) /\ Len(text) = 1 /\ text[1] = BS
    BY DEF Controls
  <2> HIDE DEF text
  <2>5. Echoes(text, buf, n, buf', n - 1, 1)
    <3>1. (n - 1) - (n - 1) = 0 /\ 1 + 0 = 1 /\ 1 \in 0 .. n /\ n - 1 <= n - 1 /\ n - 1 \in Nat
      BY <1>1, <2>1
    <3>2. \A i \in 1 .. 1 : text[i] = BS
      BY <2>4
    <3> QED
      BY <1>1, <2>3, <2>4, <3>1, <3>2 DEF Echoes
  <2>6. Echoes(text, buf, Len(buf), buf', Len(buf'), 1) /\ Echo(text)
    BY <1>4, <2>3, <2>5 DEF n, text
  <2> QED
    BY <1>1, <2>4, <2>6, EchoInv
<1>5. CASE Up /\ Echo(IF hist_pos' # hist_pos THEN Back \o buf' ELSE <<>>)
  <2>1. CASE hist_pos' # hist_pos
    <3>1. Echo(Back \o buf')
      BY <1>5, <2>1
    <3> QED
      BY <1>1, <3>1, RecallEchoes, EchoInv
  <2>2. CASE hist_pos' = hist_pos
    <3>1. Echo(<<>>) /\ buf' = buf
      <4>1. hist_pos \in Int
        BY DEF ConsoleInv, Inv, TypeOK
      <4> QED
        BY <1>5, <2>2, <4>1 DEF Up
    <3> DEFINE text == <<>>
    <3>2. text \in Seq(Glyphs \cup Controls) /\ Len(text) = 0
      OBVIOUS
    <3> HIDE DEF text, n
    <3>3. Echoes(text, buf, n, buf', n, 0)
      <4>1. n - 0 = n /\ n - n = 0 /\ 0 + 0 = 0 /\ 0 \in 0 .. n /\ n <= n
        BY <1>1
      <4> QED
        BY <1>1, <3>1, <3>2, <4>1 DEF Echoes
    <3>4. Echoes(text, buf, Len(buf), buf', Len(buf'), 0) /\ Echo(text)
      BY <3>1, <3>3 DEF n, text
    <3> QED
      BY <1>1, <3>2, <3>4, EchoInv
  <2> QED
    BY <2>1, <2>2
<1>6. CASE Down /\ Echo(Back \o buf')
  BY <1>1, <1>6, RecallEchoes, EchoInv
<1> QED
  BY <1>1, <1>3, <1>4, <1>5, <1>6 DEF EditLine

\* The new line after Enter.
LEMMA NewLine ==
    ASSUME NEW s \in Screens(Glyphs), Swept(s), NEW r, r = Puts(s, <<NL>>)
    PROVE  r \in Screens(Glyphs) /\ Swept(r) /\ r.col = 0 /\ s.row <= r.row
<1> DEFINE text == <<NL>>
           f == Prints(s, text)
<1>1. text \in Seq(Glyphs \cup Controls) /\ Len(text) = 1 /\ text[1] = NL
  BY DEF Controls
<1> HIDE DEF text
<1>2. f[0] = s /\ f[1] \in Screens(Glyphs) /\ PutcDoes(f[0], NL, f[1])
  <2>1. Stepwise(f, s, text)
    BY <1>1, StepsAre
  <2>2. 1 \in 0 .. 1 /\ 1 \in 1 .. 1 /\ 1 - 1 = 0
    OBVIOUS
  <2> HIDE DEF f
  <2> QED
    BY <1>1, <2>1, <2>2 DEF Stepwise
<1>3. r = f[1]
  BY <1>1 DEF Puts, text
<1> HIDE DEF f
<1>k. NL \in Controls /\ NL # CR /\ NL # HT /\ NL # BS
  BY ScreenAssumption DEF Controls
<1>4. Swept(r)
  BY <1>2, <1>3, <1>k, SweptStep
<1>5. Feeds(s, NL, r) \/ Rolls(s, NL, r)
  BY <1>2, <1>3, <1>k DEF PutcDoes, Stays
<1>6. s.row \in 0 .. VGA_HEIGHT - 1
  BY DEF Screens
<1>7. r.col = 0 /\ s.row <= r.row
  BY <1>5, <1>6, Sizes DEF Feeds, Rolls
<1> QED
  BY <1>2, <1>3, <1>4, <1>7

LEMMA ConsoleNextInv == ConsoleInv /\ [ConsoleNext]_consoleVars => ConsoleInv'
<1> SUFFICES ASSUME ConsoleInv, [ConsoleNext]_consoleVars PROVE ConsoleInv'
  OBVIOUS
<1>1. Inv'
  <2>1. [Next]_vars
    BY ConsoleStep
  <2> QED
    BY <2>1, NextInv DEF ConsoleInv
<1>2. CASE Edit
  BY <1>1, <1>2, EditInv
<1>3. CASE Return
  <2>1. /\ vga' = Puts(vga, <<NL>>) /\ reading' = FALSE /\ home' = home /\ above' = above
        /\ buf' = <<>>
    BY <1>3 DEF Return, Enter
  <2>2. vga' \in Screens(Glyphs) /\ Swept(vga)' /\ vga'.col = 0 /\ vga.row <= vga'.row
    <3> DEFINE r == Puts(vga, <<NL>>)
    <3>1. r \in Screens(Glyphs) /\ Swept(r) /\ r.col = 0 /\ vga.row <= r.row
      BY NewLine DEF ConsoleInv
    <3> HIDE DEF r
    <3>2. vga' = r
      BY <2>1 DEF r
    <3> QED
      BY <3>1, <3>2 DEF Swept, Pos
  <2>3. above' \in Int /\ above' <= vga'.row
    <3>1. vga.row \in 0 .. VGA_HEIGHT - 1 /\ vga'.row \in 0 .. VGA_HEIGHT - 1
          /\ above \in Int /\ above <= vga.row
      BY <2>2 DEF ConsoleInv, Screens
    <3> QED
      BY <2>1, <2>2, <3>1
  <2> QED
    BY <1>1, <2>1, <2>2, <2>3 DEF ConsoleInv
<1>4. CASE Command
  <2>1. PICK text \in Outputs : Prompt(Puts(vga, text))
    BY <1>4 DEF Command
  <2>2. vga \in Screens(Glyphs) /\ vga.col = 0 /\ Swept(vga) /\ buf' = <<>>
    BY <1>4 DEF Command, ConsoleInv, vars
  <2> DEFINE s == Puts(vga, text)
  <2>3. s \in Screens(Glyphs) /\ Swept(s) /\ Prompt(s)
    BY <2>1, <2>2, OutputSwept
  <2> HIDE DEF s
  <2> QED
    BY <1>1, <2>2, <2>3, PromptInv
<1>5. CASE Clear
  <2>1. Prompt(Cleared) /\ buf' = <<>>
    BY <1>5 DEF Clear, ConsoleInv, vars
  <2> QED
    BY <1>1, <2>1, ClearedIs, PromptInv
<1>6. CASE UNCHANGED consoleVars
  BY <1>1, <1>6 DEF consoleVars, view, vars, ConsoleInv, Shown, Swept, Stands, Pos
<1> QED
  BY <1>2, <1>3, <1>4, <1>5, <1>6 DEF ConsoleNext

LEMMA ConsoleTyped == ConsoleInv => ScreenTypeOK
  BY DEF ConsoleInv, Inv, ScreenTypeOK, Screens

\* The console runs the line editor: what is proved of the editor holds in it.
THEOREM ConsoleRunsEditor == ConsoleSpec => Spec
<1>1. ConsoleInit => Init
  BY DEF ConsoleInit
<1>2. [ConsoleNext]_consoleVars => [Next]_vars
  BY ConsoleStep
<1> QED
  BY <1>1, <1>2, PTL DEF ConsoleSpec, Spec

\* On a screen of any size, a line that has stayed in the prompt's row is what the
\* row shows, whatever was typed, erased and recalled, and whatever commands printed
\* before (keyboard.c:155-160, 178-209).
THEOREM LineStaysShown == ConsoleSpec => []ShowsLine
<1>1. ConsoleInv => ShowsLine
  <2> SUFFICES ASSUME ConsoleInv PROVE ShowsLine
    OBVIOUS
  <2>1. ASSUME reading, ~wrapped, NEW c \in home .. VGA_WIDTH - 1
        PROVE  vga.cells[vga.row * VGA_WIDTH + c]
                 = IF c - home < Len(buf) THEN buf[c - home + 1] ELSE Blank
    <3> DEFINE n == Len(buf)
               a == RowStart(vga.row)
    <3>1. /\ Shown(vga, above, home, buf, n, wrapped) /\ home + n < VGA_WIDTH
          /\ vga \in Screens(Glyphs) /\ Swept(vga)
          /\ home \in 0 .. VGA_WIDTH - 1 /\ buf \in Seq(Chars)
      BY <2>1 DEF ConsoleInv, Inv, TypeOK
    <3>2. n \in Nat /\ home \in Nat /\ c \in Int /\ vga.row \in 0 .. VGA_HEIGHT - 1
          /\ c \in 0 .. VGA_WIDTH - 1
      BY <2>1, <3>1, LenProperties, Sizes DEF Screens
    <3> HIDE DEF n
    <3>3. /\ vga.row = above /\ vga.col = home + n
          /\ \A i \in 1 .. n : vga.cells[RowStart(above) + (home + i - 1)] = buf[i]
      <4>1. ~(wrapped \/ home + n >= VGA_WIDTH)
        BY <2>1, <3>1, <3>2, Sizes
      <4> QED
        BY <3>1, <4>1 DEF Shown
    <3>4. a \in Nat /\ a + c \in Cells /\ Pos(vga) = a + (home + n)
      <4>1. Pos(vga) = a + vga.col
        BY <3>1, PosIs
      <4>2. /\ a \in Nat /\ a <= RowStart(VGA_HEIGHT - 1)
            /\ \A k \in Int : k \in Cells <=> k >= 0 /\ k < RowStart(VGA_HEIGHT - 1) + VGA_WIDTH
            /\ RowStart(VGA_HEIGHT - 1) \in Nat
        BY <3>2, RowsAre, Sizes
      <4> HIDE DEF a
      <4>3. a + c \in Cells
        BY <3>2, <4>2, Sizes
      <4> QED
        BY <3>3, <4>1, <4>2, <4>3
    <3>5. CASE c - home < n
      <4>1. c - home + 1 \in 1 .. n /\ home + (c - home + 1) - 1 = c
        BY <2>1, <3>2, <3>5
      <4>2. vga.cells[RowStart(above) + (home + (c - home + 1) - 1)] = buf[c - home + 1]
        BY <3>3, <4>1
      <4> QED
        BY <3>3, <3>5, <4>1, <4>2 DEF RowStart, n
    <3>6. CASE ~(c - home < n)
      <4>1. a + c >= Pos(vga)
        BY <3>2, <3>4, <3>6
      <4>2. vga.cells[a + c] = Blank
        BY <3>1, <3>4, <4>1 DEF Swept
      <4> QED
        BY <3>6, <4>2 DEF RowStart, n
    <3> QED
      BY <3>5, <3>6
  <2> QED
    BY <2>1, ConsoleTyped DEF ShowsLine
<1> QED
  BY <1>1, ConsoleInitInv, ConsoleNextInv, PTL DEF ConsoleSpec

\* No sequence of keys erases the prompt, on a screen of any size.
THEOREM PromptStaysKept == ConsoleSpec => []PromptKept
<1>1. ConsoleInv => PromptKept
  <2> SUFFICES ASSUME ConsoleInv, reading, above >= 0, home >= Len(PromptText),
                      NEW i \in 1 .. Len(PromptText)
               PROVE  vga.cells[above * VGA_WIDTH + home - Len(PromptText) + i - 1]
                        = PromptText[i]
    BY DEF PromptKept
  <2>1. Stands(vga, above, home)
    BY DEF ConsoleInv, Shown
  <2>2. vga.cells[RowStart(above) + (home - Len(PromptText) + i - 1)] = PromptText[i]
    BY <2>1 DEF Stands
  <2> DEFINE n == Len(PromptText)
             a == RowStart(above)
  <2>3. above \in Nat /\ home \in Int /\ n \in Int
    BY PromptIs, Sizes DEF ConsoleInv
  <2>4. a \in Int
    <3>1. above \in Nat /\ VGA_WIDTH \in Nat
      BY <2>3, Sizes
    <3> QED
      BY <3>1, Monotone DEF RowStart
  <2> HIDE DEF a, n
  <2>5. a + (home - n + i - 1) = a + home - n + i - 1
    BY <2>3, <2>4
  <2> QED
    BY <2>2, <2>5 DEF a, n, RowStart
<1> QED
  BY <1>1, ConsoleInitInv, ConsoleNextInv, PTL DEF ConsoleSpec
=============================================================================
