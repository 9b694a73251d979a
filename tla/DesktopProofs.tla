--------------------------- MODULE DesktopProofs ---------------------------
(***************************************************************************)
(* Proofs about Window, Desktop and the Mouse that drives it, for every    *)
(* number of slots and of terminals, every size of a terminal's buffers,   *)
(* every position of the mouse and every packet it sends.  The operators   *)
(* of Window take the value of the table and give the new one, so what     *)
(* they keep is stated of a table m; the steps of the desktop follow.      *)
(***************************************************************************)
EXTENDS Desktop, Mouse, Basics, SequenceTheorems, TLAPS

LEMMA Bounds ==
    /\ MAX_WINDOWS \in Nat \ {0} /\ MAX_TERMINALS \in Nat \ {0}
    /\ SCREEN_H \in Nat
    /\ \A p \in Pointer : p.x \in Int /\ p.y \in Int
    /\ Outputs \subseteq Nat
    /\ Slots \subseteq Nat /\ Terms \subseteq Nat
    /\ -1 \notin Slots /\ NoTerminal \notin Terms
  BY WindowAssumption, DesktopAssumption DEF Slots, Terms, NoTerminal

-----------------------------------------------------------------------------
(* The searches.                                                           *)

\* wm_create finds a free slot, and the first one.
LEMMA FirstFreeIs ==
    ASSUME NEW m, ~Full(m)
    PROVE  /\ FirstFree(m) \in Slots /\ FirstFree(m) \notin Live(m)
           /\ \A r \in Slots \ Live(m) : FirstFree(m) <= r
<1>1. Slots \ Live(m) \in SUBSET Nat /\ Slots \ Live(m) # {}
  BY Bounds DEF Full, Live
<1>2. \E s \in Slots \ Live(m) : \A r \in Slots \ Live(m) : s <= r
  <2> DEFINE S == Slots \ Live(m)
  <2> HIDE DEF S
  <2>1. \E s \in S : \A r \in S : s <= r
    BY <1>1, Least DEF S
  <2> QED
    BY <2>1 DEF S
<1> QED
  BY <1>2 DEF FirstFree

\* The mouse hits the last of the windows under it.
LEMMA HitIs ==
    ASSUME NEW m, NEW p, Under(m, p) # {}
    PROVE  Hit(m, p) \in Under(m, p) /\ \A r \in Under(m, p) : r <= Hit(m, p)
<1>1. Under(m, p) \in SUBSET (0 .. MAX_WINDOWS - 1) /\ MAX_WINDOWS - 1 \in Nat
  BY Bounds DEF Under, Live, Slots
<1>2. \E s \in Under(m, p) : \A r \in Under(m, p) : r <= s
  BY <1>1, Greatest
<1> QED
  BY <1>2 DEF Hit

\* A new terminal is an idle one.
LEMMA IdleIs ==
    ASSUME IdleTerms # {}
    PROVE  (CHOOSE u \in IdleTerms : \A v \in IdleTerms : u <= v) \in IdleTerms
<1>1. IdleTerms \in SUBSET Nat
  BY Bounds DEF IdleTerms
<1>2. \E u \in IdleTerms : \A v \in IdleTerms : u <= v
  BY <1>1, Least
<1> QED
  BY <1>2

\* The terminal of a window is one that has its id.
LEMMA TerminalForIs ==
    ASSUME NEW id, TerminalFor(id) # NoTerminal
    PROVE  TerminalFor(id) \in Owners(id)
<1>1. Owners(id) \in SUBSET Nat /\ Owners(id) # {}
  BY Bounds DEF Owners, TerminalFor
<1>2. \E t \in Owners(id) : \A u \in Owners(id) : t <= u
  BY <1>1, Least
<1> QED
  BY <1>1, <1>2 DEF TerminalFor

\* The window a click gives the keyboard to has an id that looks like a slot.
LEMMA FirstUnderIs ==
    ASSUME NEW m, NEW p, FirstUnder(m, p) # 0
    PROVE  FirstUnder(m, p) \in 1 .. MAX_WINDOWS
<1> DEFINE ids == {m.windows[s].id : s \in Under(m, p)} \cap 1 .. MAX_WINDOWS
<1>1. ids # {} /\ FirstUnder(m, p) = CHOOSE i \in ids : \A j \in ids : i <= j
  BY DEF FirstUnder
<1>2. ids \in SUBSET Nat /\ ids \subseteq 1 .. MAX_WINDOWS
  BY Bounds
<1> HIDE DEF ids
<1>3. \E i \in ids : \A j \in ids : i <= j
  BY <1>1, <1>2, Least
<1> QED
  BY <1>1, <1>2, <1>3

-----------------------------------------------------------------------------
(* What the operators of Window do to one window.                          *)

LEMMA FocusedIs ==
    ASSUME NEW win \in WindowType, NEW r, NEW s
    PROVE  LET v == Focused(win, r, s)
           IN  /\ v \in WindowType
               /\ v.id = win.id /\ v.app = win.app /\ v.dragging = win.dragging
               /\ r = s => v.focused
               /\ r # s /\ win.id # 0 => ~v.focused
  BY DEF Focused, WindowType

LEMMA MoveToIs ==
    ASSUME NEW win \in WindowType, NEW p \in Pointer
    PROVE  LET v == MoveTo(win, p)
           IN  /\ v \in WindowType
               /\ v.id = win.id /\ v.app = win.app /\ v.dragging = win.dragging
               /\ v.focused = win.focused
<1>1. \A n \in Int : NotNegative(n) \in Int
  BY DEF NotNegative
<1>2. win.off_x \in Int /\ win.off_y \in Int
  BY DEF WindowType
<1>3. p.x - win.off_x \in Int /\ p.y - win.off_y \in Int
  BY <1>2, Bounds
<1>4. NotNegative(p.x - win.off_x) \in Int /\ NotNegative(p.y - win.off_y) \in Int
  BY <1>1, <1>3
<1> QED
  BY <1>4 DEF MoveTo, WindowType

LEMMA GrabIs ==
    ASSUME NEW win \in WindowType, NEW p \in Pointer
    PROVE  LET v == Grab(win, p)
           IN  /\ v \in WindowType
               /\ v.id = win.id /\ v.app = win.app /\ v.focused = win.focused
<1>1. win.x \in Int /\ win.y \in Int
  BY DEF WindowType
<1>2. p.x - win.x \in Int /\ p.y - win.y \in Int
  BY <1>1, Bounds
<1> QED
  BY <1>2 DEF Grab, WindowType

LetGo(win) == [win EXCEPT !.dragging = FALSE]

LEMMA LetGoIs ==
    ASSUME NEW win \in WindowType
    PROVE  LET v == LetGo(win)
           IN  /\ v \in WindowType
               /\ v.id = win.id /\ v.app = win.app /\ v.focused = win.focused
               /\ v.dragging = FALSE
  BY DEF LetGo, WindowType

LEMMA ClosedIs ==
    ASSUME NEW win \in WindowType
    PROVE  LET v == [win EXCEPT !.id = 0]
           IN  /\ v \in WindowType
               /\ v.id = 0 /\ v.app = win.app /\ v.focused = win.focused
               /\ v.dragging = win.dragging
  BY DEF WindowType

LEMMA NewWindowIs ==
    ASSUME NEW app \in Apps, NEW id \in Nat
    PROVE  LET v == NewWindow(id, app, Place(app))
           IN  /\ v \in WindowType
               /\ v.id = id /\ v.app = app /\ v.dragging = FALSE
<1>1. /\ Place(app).x \in Int /\ Place(app).y \in Int
      /\ Place(app).w \in Nat /\ Place(app).h \in Nat
  BY DEF Place, Box
<1> QED
  BY <1>1 DEF NewWindow, WindowType

-----------------------------------------------------------------------------
(* What they do to the table.  Alike: the windows are the same, whatever   *)
(* became of their places and flags.                                       *)

Table ==
    [windows : [Slots -> WindowType], next_id : Nat \ {0}, top_window : Slots \cup {-1}]

Distinct(m) ==
    \A s \in Live(m) :
      /\ m.windows[s].id < m.next_id
      /\ \A r \in Live(m) : m.windows[r].id = m.windows[s].id => r = s

Focus(m) ==
    /\ m.top_window # -1 => m.top_window \in Live(m)
    /\ \A s \in Live(m) : m.windows[s].focused <=> s = m.top_window

Sound(m) == m \in Table /\ Distinct(m) /\ Focus(m)

Grabbed(m) == {s \in Slots : m.windows[s].dragging}

Alike(n, m) ==
    /\ n.next_id = m.next_id
    /\ \A s \in Slots :
         n.windows[s].id = m.windows[s].id /\ n.windows[s].app = m.windows[s].app

LEMMA AlikeKeeps ==
    ASSUME NEW m, NEW n, Alike(n, m)
    PROVE  Live(n) = Live(m) /\ (Distinct(m) => Distinct(n))
<1>1. Live(n) = Live(m)
  BY DEF Live, Alike
<1> QED
  BY <1>1 DEF Distinct, Alike, Live

\* wm_set_focus on a window that is there.
LEMMA SetFocusIs ==
    ASSUME NEW m \in Table, NEW s \in Live(m)
    PROVE  LET n == SetFocus(m, s)
           IN  /\ n \in Table /\ Alike(n, m) /\ Focus(n)
               /\ n.top_window = s /\ Grabbed(n) = Grabbed(m)
<1> DEFINE n == SetFocus(m, s)
<1>1. s \in Slots
  BY DEF Live
<1> DEFINE windows == [r \in Slots |-> Focused(m.windows[r], r, s)]
<1>2. /\ \A r \in Slots : n.windows[r] = Focused(m.windows[r], r, s)
      /\ n.next_id = m.next_id /\ n.top_window = s
      /\ n = [windows |-> windows, next_id |-> m.next_id, top_window |-> s]
  <2>1. m = [windows |-> m.windows, next_id |-> m.next_id, top_window |-> m.top_window]
    BY DEF Table
  <2>2. n = [m EXCEPT !.windows = windows, !.top_window = s]
    BY DEF SetFocus
  <2> HIDE DEF windows, n
  <2>3. n = [windows |-> windows, next_id |-> m.next_id, top_window |-> s]
    BY <2>1, <2>2
  <2> QED
    BY <2>3 DEF windows
<1>3. ASSUME NEW r \in Slots
      PROVE  /\ n.windows[r] \in WindowType
             /\ n.windows[r].id = m.windows[r].id /\ n.windows[r].app = m.windows[r].app
             /\ n.windows[r].dragging = m.windows[r].dragging
             /\ r = s => n.windows[r].focused
             /\ r # s /\ m.windows[r].id # 0 => ~n.windows[r].focused
  <2>1. m.windows[r] \in WindowType
    BY DEF Table
  <2>2. n.windows[r] = Focused(m.windows[r], r, s)
    BY <1>2
  <2> HIDE DEF n
  <2> QED
    BY <2>1, <2>2, FocusedIs
<1>4. n \in Table
  <2>1. [r \in Slots |-> Focused(m.windows[r], r, s)] \in [Slots -> WindowType]
    BY <1>2, <1>3
  <2> QED
    BY <1>1, <1>2, <2>1 DEF Table
<1> HIDE DEF n
<1>5. Alike(n, m)
  BY <1>2, <1>3 DEF Alike
<1>6. Live(n) = Live(m)
  BY <1>5, AlikeKeeps
<1>7. \A r \in Live(n) : n.windows[r].focused <=> r = s
  BY <1>3, <1>6 DEF Live
<1>8. Grabbed(n) = Grabbed(m)
  BY <1>3 DEF Grabbed
<1>9. Focus(n)
  BY <1>2, <1>6, <1>7 DEF Focus
<1> QED
  BY <1>2, <1>4, <1>5, <1>8, <1>9 DEF n

\* The windows that are dragged follow the mouse.
LEMMA DraggedIs ==
    ASSUME NEW m \in Table, NEW p \in Pointer
    PROVE  LET n == Dragged(m, p)
           IN  /\ n \in Table /\ Alike(n, m) /\ (Focus(m) => Focus(n))
               /\ n.top_window = m.top_window /\ Grabbed(n) = Grabbed(m)
<1> DEFINE n == Dragged(m, p)
<1>1. /\ \A r \in Slots : n.windows[r] = MoveTo(m.windows[r], p)
      /\ n.next_id = m.next_id /\ n.top_window = m.top_window
      /\ n = [windows |-> [r \in Slots |-> MoveTo(m.windows[r], p)],
              next_id |-> m.next_id, top_window |-> m.top_window]
  BY DEF Dragged, Table
<1>2. ASSUME NEW r \in Slots
      PROVE  /\ n.windows[r] \in WindowType
             /\ n.windows[r].id = m.windows[r].id /\ n.windows[r].app = m.windows[r].app
             /\ n.windows[r].dragging = m.windows[r].dragging
             /\ n.windows[r].focused = m.windows[r].focused
  <2>1. m.windows[r] \in WindowType
    BY DEF Table
  <2>2. n.windows[r] = MoveTo(m.windows[r], p)
    BY <1>1
  <2> HIDE DEF n
  <2> QED
    BY <2>1, <2>2, MoveToIs
<1>3. n \in Table
  <2>1. [r \in Slots |-> MoveTo(m.windows[r], p)] \in [Slots -> WindowType]
    BY <1>1, <1>2
  <2> QED
    BY <1>1, <2>1 DEF Table
<1> HIDE DEF n
<1>4. Alike(n, m)
  BY <1>1, <1>2 DEF Alike
<1>5. Live(n) = Live(m) /\ Live(m) \subseteq Slots
  BY <1>4, AlikeKeeps DEF Live
<1>6. Focus(m) => Focus(n)
  BY <1>1, <1>2, <1>5 DEF Focus
<1>7. Grabbed(n) = Grabbed(m)
  BY <1>2 DEF Grabbed
<1> QED
  BY <1>1, <1>3, <1>4, <1>6, <1>7 DEF n

\* And are let go.
LEMMA DroppedIs ==
    ASSUME NEW m \in Table
    PROVE  LET n == Dropped(m)
           IN  /\ n \in Table /\ Alike(n, m) /\ (Focus(m) => Focus(n))
               /\ n.top_window = m.top_window /\ Grabbed(n) = {}
<1> DEFINE n == Dropped(m)
<1> DEFINE windows == [r \in Slots |-> LetGo(m.windows[r])]
<1>1. /\ \A r \in Slots : n.windows[r] = LetGo(m.windows[r])
      /\ n.next_id = m.next_id /\ n.top_window = m.top_window
      /\ n = [windows |-> windows, next_id |-> m.next_id, top_window |-> m.top_window]
  <2>1. m = [windows |-> m.windows, next_id |-> m.next_id, top_window |-> m.top_window]
    BY DEF Table
  <2>2. n = [m EXCEPT !.windows = windows]
    BY DEF Dropped, LetGo
  <2> HIDE DEF windows, n
  <2>3. n = [windows |-> windows, next_id |-> m.next_id, top_window |-> m.top_window]
    BY <2>1, <2>2
  <2> QED
    BY <2>3 DEF windows
<1>2. ASSUME NEW r \in Slots
      PROVE  /\ n.windows[r] \in WindowType
             /\ n.windows[r].id = m.windows[r].id /\ n.windows[r].app = m.windows[r].app
             /\ n.windows[r].dragging = FALSE
             /\ n.windows[r].focused = m.windows[r].focused
  <2>1. m.windows[r] \in WindowType
    BY DEF Table
  <2>2. n.windows[r] = LetGo(m.windows[r])
    BY <1>1
  <2> HIDE DEF n
  <2> QED
    BY <2>1, <2>2, LetGoIs
<1>3. n \in Table
  <2>1. [r \in Slots |-> LetGo(m.windows[r])] \in [Slots -> WindowType]
    BY <1>1, <1>2
  <2> QED
    BY <1>1, <2>1 DEF Table
<1> HIDE DEF n
<1>4. Alike(n, m)
  BY <1>1, <1>2 DEF Alike
<1>5. Live(n) = Live(m) /\ Live(m) \subseteq Slots
  BY <1>4, AlikeKeeps DEF Live
<1>6. Focus(m) => Focus(n)
  BY <1>1, <1>2, <1>5 DEF Focus
<1>7. Grabbed(n) = {}
  BY <1>2 DEF Grabbed
<1> QED
  BY <1>1, <1>3, <1>4, <1>6, <1>7 DEF n

\* wm_destroy: the table is sound without the window as well.
LEMMA DestroyIs ==
    ASSUME NEW m, Sound(m), NEW s \in Live(m)
    PROVE  LET n == Destroy(m, s)
           IN  /\ Sound(n) /\ n.next_id = m.next_id
               /\ Live(n) = Live(m) \ {s} /\ Grabbed(n) = Grabbed(m)
               /\ \A r \in Slots : n.windows[r].app = m.windows[r].app
               /\ \A r \in Slots \ {s} : n.windows[r].id = m.windows[r].id
<1> DEFINE n == Destroy(m, s)
           closed_win == [m.windows[s] EXCEPT !.id = 0]
           windows == [m.windows EXCEPT ![s] = closed_win]
           top == IF m.top_window = s THEN -1 ELSE m.top_window
<1>1. s \in Slots /\ m \in Table /\ m.windows[s] \in WindowType
  BY DEF Live, Sound, Table
<1>2. /\ closed_win \in WindowType
      /\ closed_win.id = 0 /\ closed_win.app = m.windows[s].app
      /\ closed_win.focused = m.windows[s].focused
      /\ closed_win.dragging = m.windows[s].dragging
  BY <1>1, ClosedIs
<1>3. n = [windows |-> windows, next_id |-> m.next_id, top_window |-> top]
  <2>1. m = [windows |-> m.windows, next_id |-> m.next_id, top_window |-> m.top_window]
    BY <1>1 DEF Table
  <2>2. n = [m EXCEPT !.windows = windows, !.top_window = top]
    BY <2>1 DEF Destroy
  <2> HIDE DEF windows, n, top
  <2> QED
    BY <2>1, <2>2
<1> HIDE DEF closed_win
<1>4. /\ windows \in [Slots -> WindowType]
      /\ windows[s] = closed_win
      /\ \A r \in Slots \ {s} : windows[r] = m.windows[r]
  BY <1>1, <1>2 DEF Table
<1> HIDE DEF windows, n, top
<1>5. n \in Table
  BY <1>1, <1>3, <1>4 DEF Table, top
<1>6. /\ \A r \in Slots : n.windows[r].app = m.windows[r].app
                        /\ n.windows[r].dragging = m.windows[r].dragging
                        /\ n.windows[r].focused = m.windows[r].focused
      /\ \A r \in Slots \ {s} : n.windows[r].id = m.windows[r].id
      /\ n.windows[s].id = 0
  BY <1>1, <1>2, <1>3, <1>4
<1>7. Live(n) = Live(m) \ {s} /\ Live(m) \subseteq Slots
  BY <1>6 DEF Live
<1>8. Grabbed(n) = Grabbed(m)
  BY <1>6 DEF Grabbed
<1>9. n.next_id = m.next_id /\ n.top_window = top
  BY <1>3
<1>10. Distinct(n)
  BY <1>6, <1>7, <1>9 DEF Distinct, Sound
<1>11. Focus(n)
  <2>1. \A r \in Live(m) : m.windows[r].focused <=> r = m.top_window
    BY DEF Sound, Focus
  <2>2. \A r \in Live(n) : n.windows[r].focused <=> r = top
    BY <2>1, <1>6, <1>7, Bounds DEF top
  <2>3. top # -1 => top \in Live(n)
    BY <1>7 DEF top, Sound, Focus
  <2> QED
    BY <2>2, <2>3, <1>9 DEF Focus
<1> QED
  BY <1>5, <1>6, <1>7, <1>8, <1>9, <1>10, <1>11 DEF n, Sound

\* wm_create in a table that has room: a window more, in a slot that was free.
LEMMA CreateIs ==
    ASSUME NEW m, Sound(m), ~Full(m), NEW app \in Apps
    PROVE  LET n == Create(m, app, Place(app))
               s == FirstFree(m)
           IN  /\ Sound(n) /\ n.next_id = m.next_id + 1
               /\ Live(n) = Live(m) \cup {s} /\ Grabbed(n) = Grabbed(m) \ {s}
               /\ n.windows[s].id = m.next_id /\ n.windows[s].app = app
               /\ \A r \in Slots \ {s} : n.windows[r].id = m.windows[r].id
                                       /\ n.windows[r].app = m.windows[r].app
<1> DEFINE s == FirstFree(m)
           win == NewWindow(m.next_id, app, Place(app))
           windows == [m.windows EXCEPT ![s] = win]
           h == [m EXCEPT !.windows[s] = win, !.next_id = @ + 1]
           n == SetFocus(h, s)
<1>1. s \in Slots /\ s \notin Live(m)
  BY FirstFreeIs
<1>2. m \in Table /\ m.next_id \in Nat \ {0}
  BY DEF Sound, Table
<1>3. win \in WindowType /\ win.id = m.next_id /\ win.app = app /\ win.dragging = FALSE
  BY <1>2, NewWindowIs
<1>4. Create(m, app, Place(app)) = n
  BY DEF Create
<1> HIDE DEF win, s
<1>5. h = [windows |-> windows, next_id |-> m.next_id + 1, top_window |-> m.top_window]
  <2>1. m = [windows |-> m.windows, next_id |-> m.next_id, top_window |-> m.top_window]
    BY <1>2 DEF Table
  <2>2. h = [m EXCEPT !.windows = windows, !.next_id = m.next_id + 1]
    BY <2>1
  <2> HIDE DEF windows, h
  <2> QED
    BY <2>1, <2>2
<1>6. /\ windows \in [Slots -> WindowType]
      /\ windows[s] = win
      /\ \A r \in Slots \ {s} : windows[r] = m.windows[r]
  BY <1>1, <1>2, <1>3 DEF Table
<1> HIDE DEF windows, h, n
<1>7. h \in Table /\ h.next_id = m.next_id + 1
  BY <1>2, <1>5, <1>6 DEF Table
<1>8. /\ h.windows[s] = win
      /\ \A r \in Slots \ {s} : h.windows[r] = m.windows[r]
  BY <1>5, <1>6
<1>9. Live(h) = Live(m) \cup {s} /\ Live(m) \subseteq Slots
  BY <1>1, <1>2, <1>3, <1>8 DEF Live
<1>10. Grabbed(h) = Grabbed(m) \ {s}
  BY <1>1, <1>3, <1>8 DEF Grabbed
<1>11. Distinct(h)
  <2>1. \A r \in Live(m) : /\ h.windows[r] = m.windows[r]
                           /\ m.windows[r].id < m.next_id
                           /\ m.windows[r].id \in Nat
    BY <1>1, <1>2, <1>8, <1>9 DEF Sound, Distinct, Table, WindowType
  <2>2. \A r \in Live(m) : r # s
    BY <1>1
  <2>3. \A q, r \in Live(m) : m.windows[r].id = m.windows[q].id => r = q
    BY DEF Sound, Distinct
  <2> QED
    BY <2>1, <2>2, <2>3, <1>2, <1>3, <1>7, <1>8, <1>9 DEF Distinct
<1>12. /\ n \in Table /\ Alike(n, h) /\ Focus(n) /\ Grabbed(n) = Grabbed(h)
  BY <1>7, <1>9, SetFocusIs DEF n
<1>13. Live(n) = Live(h) /\ Distinct(n)
  BY <1>11, <1>12, AlikeKeeps
<1>14. n.next_id = m.next_id + 1
  BY <1>7, <1>12 DEF Alike
<1>15. \A r \in Slots : n.windows[r].id = h.windows[r].id
                       /\ n.windows[r].app = h.windows[r].app
  BY <1>12 DEF Alike
<1> QED
  BY <1>1, <1>3, <1>4, <1>8, <1>9, <1>10, <1>12, <1>13, <1>14, <1>15 DEF Sound, s

\* What a call leaves of the windows: none more, and each with its id and app.
Shrinks(n, m) ==
    /\ n.next_id = m.next_id
    /\ Live(n) \subseteq Live(m)
    /\ \A s \in Slots : n.windows[s].app = m.windows[s].app
    /\ \A s \in Live(n) : n.windows[s].id = m.windows[s].id

\* One window at most is dragged, and it is there.
OneGrabbed(m) ==
    /\ Grabbed(m) \subseteq Live(m)
    /\ \A r, s \in Grabbed(m) : r = s

LEMMA AlikeShrinks ==
    ASSUME NEW m, NEW n, Alike(n, m)
    PROVE  Shrinks(n, m)
  BY AlikeKeeps DEF Shrinks, Alike, Live

\* A click on the window in slot s closes it or brings it to the top, where it
\* may be grabbed.
LEMMA ClickedIs ==
    ASSUME NEW m, Sound(m), NEW s \in Live(m), NEW p \in Pointer
    PROVE  LET n == Clicked(m, s, p)
           IN  /\ Sound(n) /\ Shrinks(n, m)
               /\ Grabbed(m) = {} => OneGrabbed(n)
               /\ Live(n) = Live(m) => n.top_window = s
<1> DEFINE f == SetFocus(m, s)
           n == Clicked(m, s, p)
<1>1. m \in Table /\ s \in Slots
  BY DEF Sound, Live
<1>2. /\ f \in Table /\ Alike(f, m) /\ Focus(f)
      /\ f.top_window = s /\ Grabbed(f) = Grabbed(m)
  BY <1>1, SetFocusIs
<1>3. Sound(f) /\ Live(f) = Live(m) /\ Shrinks(f, m)
  BY <1>2, AlikeKeeps, AlikeShrinks DEF Sound
<1>4. CASE OnCloseBox(m.windows[s], p)
  <2>1. n = Destroy(f, s)
    BY <1>4 DEF Clicked
  <2> HIDE DEF n, f
  <2>2. /\ Sound(n) /\ n.next_id = f.next_id
        /\ Live(n) = Live(f) \ {s} /\ Grabbed(n) = Grabbed(f)
        /\ \A r \in Slots : n.windows[r].app = f.windows[r].app
        /\ \A r \in Slots \ {s} : n.windows[r].id = f.windows[r].id
    BY <1>3, <2>1, DestroyIs
  <2>3. Shrinks(n, m)
    BY <1>3, <2>2 DEF Shrinks, Live
  <2>4. Live(n) # Live(m)
    BY <1>3, <2>2
  <2>5. Grabbed(m) = {} => OneGrabbed(n)
    BY <1>2, <2>2 DEF OneGrabbed
  <2> QED
    BY <2>2, <2>3, <2>4, <2>5 DEF n
<1>5. CASE ~OnCloseBox(m.windows[s], p)
  <2> DEFINE win == Grab(f.windows[s], p)
             windows == [f.windows EXCEPT ![s] = win]
             g == [f EXCEPT !.windows[s] = Grab(@, p)]
  <2>1. n = Dragged(g, p)
    BY <1>5 DEF Clicked
  <2> HIDE DEF n, f
  <2>2. /\ win \in WindowType
        /\ win.id = f.windows[s].id /\ win.app = f.windows[s].app
        /\ win.focused = f.windows[s].focused
    BY <1>1, <1>2, GrabIs DEF Table
  <2> HIDE DEF win
  <2>3. g = [windows |-> windows, next_id |-> f.next_id, top_window |-> f.top_window]
    <3>1. f = [windows |-> f.windows, next_id |-> f.next_id, top_window |-> f.top_window]
      BY <1>2 DEF Table
    <3>2. g = [f EXCEPT !.windows = windows]
      BY <3>1 DEF win
    <3> HIDE DEF windows, g
    <3> QED
      BY <3>1, <3>2
  <2>4. /\ windows \in [Slots -> WindowType]
        /\ windows[s] = win
        /\ \A r \in Slots \ {s} : windows[r] = f.windows[r]
    BY <1>1, <1>2, <2>2 DEF Table
  <2> HIDE DEF windows, g
  <2>5. g \in Table /\ g.next_id = f.next_id /\ g.top_window = s
    BY <1>1, <1>2, <2>3, <2>4 DEF Table
  <2>6. g.windows[s] = win /\ \A r \in Slots \ {s} : g.windows[r] = f.windows[r]
    BY <2>3, <2>4
  <2>7. Alike(g, f)
    BY <1>1, <2>2, <2>5, <2>6 DEF Alike
  <2>8. Live(g) = Live(f) /\ Distinct(g)
    BY <1>3, <2>7, AlikeKeeps DEF Sound
  <2>9. Focus(g)
    BY <1>1, <1>2, <2>2, <2>5, <2>6, <2>8 DEF Focus, Live
  <2>10. Grabbed(g) \subseteq Grabbed(f) \cup {s}
    BY <1>1, <2>6 DEF Grabbed
  <2>11. /\ n \in Table /\ Alike(n, g) /\ Focus(n)
         /\ n.top_window = s /\ Grabbed(n) = Grabbed(g)
    BY <2>1, <2>5, <2>9, DraggedIs
  <2>12. Live(n) = Live(g) /\ Distinct(n)
    BY <2>8, <2>11, AlikeKeeps
  <2>13. Alike(n, m)
    BY <1>2, <2>7, <2>11 DEF Alike
  <2>14. Shrinks(n, m)
    BY <2>13, AlikeShrinks
  <2>15. Grabbed(m) = {} => OneGrabbed(n)
    BY <1>2, <1>3, <2>8, <2>10, <2>11, <2>12 DEF OneGrabbed
  <2> QED
    BY <2>11, <2>12, <2>14, <2>15 DEF Sound, n
<1> QED
  BY <1>4, <1>5

\* wm_handle_mouse.  The first line of the conclusion about the windows dragged is
\* that of a button that has just gone down.
LEMMA HandleMouseIs ==
    ASSUME NEW m, Sound(m), NEW p \in Pointer, NEW down \in BOOLEAN, NEW was \in BOOLEAN
    PROVE  LET n == HandleMouse(m, p, down, was)
           IN  /\ Sound(n) /\ Shrinks(n, m)
               /\ down /\ ~was /\ Grabbed(m) = {} => OneGrabbed(n)
               /\ down /\ was /\ OneGrabbed(m) => OneGrabbed(n)
               /\ ~down => Grabbed(n) = {}
               /\ (down /\ ~was /\ Under(m, p) # {} /\ Live(n) = Live(m))
                     => n.top_window = Hit(m, p)
               /\ ~(down /\ ~was) => Live(n) = Live(m)
<1> DEFINE n == HandleMouse(m, p, down, was)
<1>1. m \in Table
  BY DEF Sound
<1>2. CASE ~down
  <2>1. n = Dropped(m)
    BY <1>2 DEF HandleMouse
  <2> HIDE DEF n
  <2>2. n \in Table /\ Alike(n, m) /\ Focus(n) /\ Grabbed(n) = {}
    BY <1>1, <2>1, DroppedIs DEF Sound
  <2> QED
    BY <1>2, <2>2, AlikeKeeps, AlikeShrinks DEF Sound, n
<1>3. CASE down /\ ~was /\ Under(m, p) # {}
  <2>1. n = Clicked(m, Hit(m, p), p)
    BY <1>3 DEF HandleMouse
  <2>2. Hit(m, p) \in Live(m)
    BY <1>3, HitIs DEF Under
  <2> HIDE DEF n
  <2>3. /\ Sound(n) /\ Shrinks(n, m)
        /\ Grabbed(m) = {} => OneGrabbed(n)
        /\ Live(n) = Live(m) => n.top_window = Hit(m, p)
    BY <2>1, <2>2, ClickedIs
  <2> QED
    BY <1>3, <2>3 DEF n
<1>4. CASE down /\ ~(~was /\ Under(m, p) # {})
  <2>1. n = Dragged(m, p)
    BY <1>4 DEF HandleMouse
  <2> HIDE DEF n
  <2>2. n \in Table /\ Alike(n, m) /\ Focus(n) /\ Grabbed(n) = Grabbed(m)
    BY <1>1, <2>1, DraggedIs DEF Sound
  <2>3. Sound(n) /\ Live(n) = Live(m) /\ Shrinks(n, m)
    BY <2>2, AlikeKeeps, AlikeShrinks DEF Sound
  <2>4. OneGrabbed(m) => OneGrabbed(n)
    BY <2>2, <2>3 DEF OneGrabbed
  <2>5. Grabbed(m) = {} => OneGrabbed(m)
    BY DEF OneGrabbed
  <2> QED
    BY <1>4, <2>3, <2>4, <2>5 DEF n
<1> QED
  BY <1>2, <1>3, <1>4

-----------------------------------------------------------------------------
(* The inductive invariant is the conjunction of the four.                 *)

Inv == IdsUnique /\ OneFocus /\ DragHeld /\ TerminalsOwned

\* In terms of the table.
LEMMA OfTheTable ==
    /\ IdsUnique <=> TypeOK /\ Distinct(wm)
    /\ OneFocus <=> Focus(wm)
    /\ DragHeld <=> (on => (Grabbed(wm) # {} => prev) /\ OneGrabbed(wm))
    /\ TypeOK => wm \in Table
<1>1. DragHeld <=> (on => (Grabbed(wm) # {} => prev) /\ OneGrabbed(wm))
  BY DEF DragHeld, Grabbed, OneGrabbed, Live
<1> QED
  BY <1>1 DEF IdsUnique, OneFocus, Distinct, Focus, TypeOK, Table

LEMMA TextIsNat ==
    /\ \A len \in Nat, n \in Nat :
         Puts(len, n) \in Nat /\ Puts(len, n) >= len
    /\ Cleared \in Nat
<1> TERM_BUF_SIZE \in Nat \ {0} /\ PROMPT \in Nat
  BY TerminalAssumption
<1>1. \A len \in Nat, n \in Nat : Puts(len, n) \in Nat /\ Puts(len, n) >= len
  BY DEF Puts
<1> QED
  BY <1>1 DEF Cleared

\* Enter's newline: no shorter, but in a text that has reached its own length.
LEMMA NewlineIs ==
    ASSUME NEW len \in Nat, NEW nl \in Newline(len)
    PROVE  nl \in Nat /\ (len < TERM_BUF_SIZE => nl >= len)
<1>1. /\ TERM_BUF_SIZE \in Nat \ {0} /\ BYTE \in Nat \ {0} /\ NEWLINE \in Nat
      /\ TERM_BUF_SIZE % BYTE = 0
  BY TerminalAssumption
<1>2. /\ len \div BYTE \in Nat /\ (len + 1) \div BYTE \in Nat
      /\ TERM_BUF_SIZE \div BYTE \in Nat
      /\ TERM_BUF_SIZE = BYTE * (TERM_BUF_SIZE \div BYTE) + (TERM_BUF_SIZE % BYTE)
  BY <1>1
<1>3. FirstByte(TERM_BUF_SIZE, 0) = TERM_BUF_SIZE
  <2> DEFINE q == TERM_BUF_SIZE \div BYTE
  <2>1. q \in Nat /\ TERM_BUF_SIZE = BYTE * q
    BY <1>1, <1>2
  <2>2. FirstByte(TERM_BUF_SIZE, 0) = q * BYTE + 0
    BY DEF FirstByte
  <2> HIDE DEF q
  <2> QED
    BY <1>1, <2>1, <2>2
<1>4. FirstByte(len + 1, NEWLINE) \in Nat
  <2> DEFINE q == (len + 1) \div BYTE
  <2>1. q \in Nat
    BY <1>1, <1>2
  <2>2. FirstByte(len + 1, NEWLINE) = q * BYTE + NEWLINE
    BY DEF FirstByte
  <2> HIDE DEF q
  <2>3. q * BYTE \in Nat
    BY <1>1, <2>1
  <2> QED
    BY <1>1, <2>2, <2>3
<1>5. ASSUME NEW v \in Nat PROVE SecondByte(v, 0) \in Nat
  <2> DEFINE r == (v) % BYTE
             bb == BYTE * BYTE
             q == (v) \div bb
  <2>1. bb \in Nat \ {0}
    BY <1>1
  <2>2. r \in Nat
    BY <1>1
  <2>3. SecondByte(v, 0) = q * BYTE * BYTE + 0 * BYTE + r
    BY DEF SecondByte
  <2> HIDE DEF bb
  <2>4. q \in Nat
    BY <2>1
  <2> HIDE DEF q, r
  <2>5. q * BYTE \in Nat
    BY <1>1, <2>4
  <2>6. q * BYTE * BYTE \in Nat
    BY <1>1, <2>5
  <2> QED
    BY <1>1, <2>2, <2>3, <2>6
<1>6. CASE len < TERM_BUF_SIZE - 1
  BY <1>6 DEF Newline
<1>7. CASE len = TERM_BUF_SIZE - 1
  <2>1. nl = TERM_BUF_SIZE
    BY <1>3, <1>7 DEF Newline
  <2> QED
    BY <1>1, <1>7, <2>1
<1>8. CASE len > TERM_BUF_SIZE - 1
  <2>1. nl \in {FirstByte(len + 1, NEWLINE), SecondByte(len + 1, 0),
                SecondByte(FirstByte(len + 1, NEWLINE), 0)}
    BY <1>1, <1>8 DEF Newline
  <2>2. SecondByte(len + 1, 0) \in Nat /\ SecondByte(FirstByte(len + 1, NEWLINE), 0) \in Nat
    BY <1>4, <1>5
  <2> QED
    BY <1>1, <1>4, <1>8, <2>1, <2>2
<1> QED
  BY <1>1, <1>6, <1>7, <1>8

\* A character: the terminal stays the window's, and its text grows, is cleared,
\* or had reached its own length.
LEMMA TypedIs ==
    ASSUME NEW t \in TerminalType,
           NEW after \in Enter(t, Outputs) \cup {Erase(t), Type(t)}
    PROVE  /\ after \in TerminalType
           /\ after.active = t.active /\ after.window_id = t.window_id
           /\ after.buf_len >= t.buf_len \/ after.buf_len = Cleared
                \/ t.buf_len >= TERM_BUF_SIZE
<1>1. TERM_LINE_SIZE \in Nat \ {0} /\ TERM_BUF_SIZE \in Nat \ {0} /\ PROMPT \in Nat
  BY TerminalAssumption
<1>2. CASE after \in {Erase(t), Type(t)}
  <2>1. t.line_len \in 0 .. TERM_LINE_SIZE - 1 /\ t.buf_len \in Nat
    BY DEF TerminalType
  <2>2. CASE t.line_len > 0 /\ after = Erase(t)
    <3>1. t.line_len - 1 \in 0 .. TERM_LINE_SIZE - 1
      BY <1>1, <2>1, <2>2
    <3> QED
      BY <2>1, <2>2, <3>1 DEF Erase, TerminalType
  <2>3. CASE t.line_len < TERM_LINE_SIZE - 1 /\ after = Type(t)
    <3>1. t.line_len + 1 \in 0 .. TERM_LINE_SIZE - 1
      BY <1>1, <2>1, <2>3
    <3> QED
      BY <2>1, <2>3, <3>1 DEF Type, TerminalType
  <2>4. CASE after = t
    BY <2>1, <2>4
  <2> QED
    BY <1>2, <2>2, <2>3, <2>4 DEF Erase, Type
<1>3. CASE after \in Enter(t, Outputs)
  <2>1. t.buf_len \in Nat
    BY DEF TerminalType
  <2>2. PICK len \in UNION {TextAfter(nl, t.line_len = 0, Outputs) : nl \in Newline(t.buf_len)} :
          after = [t EXCEPT !.buf_len = len, !.line_len = 0]
    BY <1>3 DEF Enter
  <2>3. PICK nl \in Newline(t.buf_len) : len \in TextAfter(nl, t.line_len = 0, Outputs)
    BY <2>2
  <2>4. nl \in Nat /\ (t.buf_len < TERM_BUF_SIZE => nl >= t.buf_len)
    BY <2>1, <2>3, NewlineIs
  <2>5. len = Cleared \/ \E n \in Nat : len = Executed(nl, n)
    BY <2>3, Bounds DEF TextAfter
  <2>6. \A n \in Nat : Executed(nl, n) \in Nat /\ Executed(nl, n) >= nl
    <3>1. ASSUME NEW n \in Nat
          PROVE  Executed(nl, n) \in Nat /\ Executed(nl, n) >= nl
      <4>1. Puts(nl, n) \in Nat /\ Puts(nl, n) >= nl
        BY <2>4, TextIsNat
      <4>2. Puts(Puts(nl, n), PROMPT) \in Nat
            /\ Puts(Puts(nl, n), PROMPT) >= Puts(nl, n)
        BY <1>1, <4>1, TextIsNat
      <4> QED
        BY <2>4, <4>1, <4>2 DEF Executed
    <3> QED
      BY <3>1
  <2>7. len \in Nat /\ (len = Cleared \/ len >= nl)
    BY <2>5, <2>6, TextIsNat
  <2>8. 0 \in 0 .. TERM_LINE_SIZE - 1
    BY <1>1
  <2>9. /\ after \in TerminalType
        /\ after.active = t.active /\ after.window_id = t.window_id
        /\ after.buf_len = len
    BY <2>2, <2>7, <2>8 DEF TerminalType
  <2> QED
    BY <1>1, <2>1, <2>4, <2>7, <2>9
<1> QED
  BY <1>2, <1>3

\* A click opens a window of one of the applications, or none.
LEMMA OpensIs ==
    ASSUME NEW p \in Pointer
    PROVE  Opens(p) \in Apps \cup {"none"}
<1>1. \A i \in 1 .. 8 : AppOrder[i] \in Apps
  BY DEF Apps
<1>2. Inside(Menu, p) /\ MenuItem(p) < 8 => MenuItem(p) + 1 \in 1 .. 8
  <2>1. p.y \in Int /\ Menu.y \in Int
    BY Bounds DEF Menu, Box, TASKBAR_H
  <2> DEFINE d == p.y - Menu.y - 4
  <2>2. ~(p.y < Menu.y + 4) => d \in Nat
    BY <2>1
  <2>3. MenuItem(p) = IF p.y < Menu.y + 4 THEN 0 ELSE d \div 22
    BY DEF MenuItem
  <2> HIDE DEF d
  <2>4. MenuItem(p) \in Nat
    BY <2>2, <2>3
  <2> QED
    BY <2>4
<1>3. IconsAt(p) # {} => (CHOOSE i \in IconsAt(p) : TRUE) \in 1 .. 8
  BY DEF IconsAt
<1> QED
  BY <1>1, <1>2, <1>3 DEF Opens

LEMMA InitInv == Init => Inv
<1> SUFFICES ASSUME Init PROVE Inv
  OBVIOUS
<1> USE DEF Init, WmInit
<1>1. Unused \in WindowType /\ Unused.id = 0 /\ Unused.dragging = FALSE
  BY DEF Unused, WindowType
<1>2. \A s \in Slots : wm.windows[s] = Unused
  OBVIOUS
<1>3. wm \in Table
  BY <1>1 DEF Table
<1>4. terminals \in [Terms -> TerminalType]
  <2>1. Idle \in TerminalType
    BY TerminalAssumption DEF Idle, TerminalType
  <2> QED
    BY <2>1
<1>5. TypeOK
  BY <1>3, <1>4 DEF TypeOK, Table
<1>6. Live(wm) = {} /\ Grabbed(wm) = {}
  BY <1>1, <1>2 DEF Live, Grabbed
<1>7. TerminalsOwned
  <2>1. \A t \in Terms : ~terminals[t].active
    BY DEF Idle
  <2> QED
    BY <1>6, <2>1 DEF TerminalsOwned
<1> QED
  BY <1>5, <1>6, <1>7, OfTheTable DEF Inv, Distinct, Focus, OneGrabbed

\* What the mouse leaves of a state of the invariant.
LEMMA Handled ==
    ASSUME Inv, on, NEW p \in Pointer, NEW down \in BOOLEAN
    PROVE  LET m == HandleMouse(wm, p, down, prev)
           IN  /\ Sound(m) /\ Shrinks(m, wm)
               /\ OneGrabbed(m) /\ (Grabbed(m) # {} => down)
<1> DEFINE m == HandleMouse(wm, p, down, prev)
<1>1. Sound(wm) /\ (Grabbed(wm) # {} => prev) /\ OneGrabbed(wm) /\ prev \in BOOLEAN
  BY OfTheTable DEF Inv, Sound, IdsUnique, TypeOK
<1>2. /\ Sound(m) /\ Shrinks(m, wm)
      /\ down /\ ~prev /\ Grabbed(wm) = {} => OneGrabbed(m)
      /\ down /\ prev /\ OneGrabbed(wm) => OneGrabbed(m)
      /\ ~down => Grabbed(m) = {}
  <2> HIDE DEF m
  <2> QED
    BY <1>1, HandleMouseIs DEF m
<1> HIDE DEF m
<1>3. Grabbed(m) = {} => OneGrabbed(m)
  BY DEF OneGrabbed
<1> QED
  BY <1>1, <1>2, <1>3 DEF m

\* TerminalsOwned, of the values of the terminals and of the table.
Takers(term, id) == {t \in Terms : term[t].active /\ term[t].window_id = id}

Spare(term) == {t \in Terms : ~term[t].active}

Owned(term, act, m) ==
    /\ act # NoTerminal => term[act].active
    /\ \A t \in Terms : term[t].active =>
         /\ term[t].window_id < m.next_id
         /\ Takers(term, term[t].window_id) = {t}
         /\ \A s \in Live(m) : m.windows[s].id = term[t].window_id
                                 => m.windows[s].app = "Terminal"
    /\ \A s \in Live(m) : m.windows[s].app = "Terminal" =>
         Takers(term, m.windows[s].id) # {} \/ Spare(term) = {}

LEMMA OwnedIs ==
    /\ TerminalsOwned <=> Owned(terminals, active_terminal, wm)
    /\ TerminalsOwned' <=> Owned(terminals', active_terminal', wm')
  BY DEF TerminalsOwned, Owned, Owners, IdleTerms, Takers, Spare

\* Terminals keep their windows when no window is added and none of them changes
\* hands.
LEMMA OwnedWithout ==
    ASSUME NEW m, NEW n, NEW term, NEW new, NEW act \in Terms \cup {NoTerminal}, NEW last,
           Owned(term, last, m), Shrinks(n, m),
           \A t \in Terms : new[t].active = term[t].active
                         /\ new[t].window_id = term[t].window_id,
           act # NoTerminal => term[act].active
    PROVE  Owned(new, act, n)
<1>1. Spare(new) = Spare(term) /\ \A id : Takers(new, id) = Takers(term, id)
  BY DEF Spare, Takers
<1>2. act # NoTerminal => new[act].active
  OBVIOUS
<1>3. ASSUME NEW t \in Terms, new[t].active
      PROVE  /\ new[t].window_id < n.next_id
             /\ Takers(new, new[t].window_id) = {t}
             /\ \A s \in Live(n) : n.windows[s].id = new[t].window_id
                                     => n.windows[s].app = "Terminal"
  <2>1. term[t].active /\ new[t].window_id = term[t].window_id
    BY <1>3
  <2>2. /\ term[t].window_id < m.next_id
        /\ Takers(term, term[t].window_id) = {t}
        /\ \A s \in Live(m) : m.windows[s].id = term[t].window_id
                                 => m.windows[s].app = "Terminal"
    BY <2>1 DEF Owned
  <2> QED
    BY <1>1, <2>1, <2>2 DEF Shrinks, Live
<1>4. ASSUME NEW s \in Live(n), n.windows[s].app = "Terminal"
      PROVE  Takers(new, n.windows[s].id) # {} \/ Spare(new) = {}
  <2>1. /\ s \in Live(m) /\ m.windows[s].app = "Terminal"
        /\ n.windows[s].id = m.windows[s].id
    BY <1>4 DEF Shrinks, Live
  <2>2. Takers(term, m.windows[s].id) # {} \/ Spare(term) = {}
    BY <2>1 DEF Owned
  <2> QED
    BY <1>1, <2>1, <2>2
<1> QED
  BY <1>2, <1>3, <1>4 DEF Owned

\* n is m with one window more, in slot s0; new is term with a terminal for it, if
\* it wants one and one is left.
Added(m, n, s0, app, term, new) ==
    /\ n.next_id = m.next_id + 1
    /\ Live(n) = Live(m) \cup {s0}
    /\ n.windows[s0].id = m.next_id /\ n.windows[s0].app = app
    /\ \A r \in Live(m) : r # s0 /\ n.windows[r].id = m.windows[r].id
                                 /\ n.windows[r].app = m.windows[r].app
    /\ \/ new = term /\ (app # "Terminal" \/ Spare(term) = {})
       \/ \E t0 \in Spare(term) :
            /\ app = "Terminal"
            /\ new[t0].active /\ new[t0].window_id = m.next_id
            /\ \A t \in Terms \ {t0} : new[t] = term[t]

LEMMA OwnedWith ==
    ASSUME NEW m, NEW n, NEW term, NEW new, NEW act, NEW new_act, NEW s0 \in Slots, NEW app,
           Owned(term, act, m), Sound(m), Sound(n),
           term \in [Terms -> TerminalType], new \in [Terms -> TerminalType],
           Added(m, n, s0, app, term, new),
           new_act # NoTerminal => new[new_act].active
    PROVE  Owned(new, new_act, n)
<1> USE DEF Added
<1>1. /\ \A r \in Live(m) : m.windows[r].id \in Nat /\ m.windows[r].id < m.next_id
      /\ m.next_id \in Nat /\ Live(m) \subseteq Slots
  BY DEF Sound, Distinct, Table, Live, WindowType
<1>2. \A t \in Terms : /\ term[t].window_id \in Nat /\ new[t].window_id \in Nat
                       /\ term[t].active \in BOOLEAN /\ new[t].active \in BOOLEAN
  BY DEF TerminalType
<1>3. \A t \in Terms : term[t].active =>
         /\ term[t].window_id < m.next_id
         /\ Takers(term, term[t].window_id) = {t}
         /\ \A s \in Live(m) : m.windows[s].id = term[t].window_id
                                 => m.windows[s].app = "Terminal"
  BY DEF Owned
<1>4. \A s \in Live(m) : m.windows[s].app = "Terminal" =>
         Takers(term, m.windows[s].id) # {} \/ Spare(term) = {}
  BY DEF Owned
<1>5. CASE new = term /\ (app # "Terminal" \/ Spare(term) = {})
  <2>1. ASSUME NEW t \in Terms, new[t].active
        PROVE  /\ new[t].window_id < n.next_id
               /\ Takers(new, new[t].window_id) = {t}
               /\ \A s \in Live(n) : n.windows[s].id = new[t].window_id
                                       => n.windows[s].app = "Terminal"
    BY <1>1, <1>2, <1>3, <1>5, <2>1
  <2>2. ASSUME NEW s \in Live(n), n.windows[s].app = "Terminal"
        PROVE  Takers(new, n.windows[s].id) # {} \/ Spare(new) = {}
    BY <1>1, <1>4, <1>5, <2>2
  <2> QED
    BY <2>1, <2>2 DEF Owned
<1>6. ASSUME NEW t0 \in Spare(term), app = "Terminal",
             new[t0].active, new[t0].window_id = m.next_id,
             \A t \in Terms \ {t0} : new[t] = term[t]
      PROVE  Owned(new, new_act, n)
  <2>1. t0 \in Terms /\ ~term[t0].active
    BY DEF Spare
  <2>2. \A t \in Terms \ {t0} : term[t].active => term[t].window_id # m.next_id
    BY <1>1, <1>2, <1>3
  <2>3. Takers(new, m.next_id) = {t0}
    BY <1>6, <2>1, <2>2 DEF Takers
  <2>4. \A id : id # m.next_id => Takers(new, id) = Takers(term, id)
    BY <1>6, <2>1 DEF Takers
  <2>5. ASSUME NEW t \in Terms, new[t].active
        PROVE  /\ new[t].window_id < n.next_id
               /\ Takers(new, new[t].window_id) = {t}
               /\ \A s \in Live(n) : n.windows[s].id = new[t].window_id
                                       => n.windows[s].app = "Terminal"
    <3>1. CASE t = t0
      <4>1. new[t].window_id = m.next_id
        BY <1>6, <3>1
      <4>2. \A s \in Live(n) : n.windows[s].id = m.next_id => s = s0
        BY <1>1
      <4> QED
        BY <1>1, <1>6, <2>3, <3>1, <4>1, <4>2
    <3>2. CASE t # t0
      <4>1. new[t] = term[t] /\ term[t].active
        BY <1>6, <2>5, <3>2
      <4>2. term[t].window_id < m.next_id /\ term[t].window_id # m.next_id
        BY <1>1, <1>2, <1>3, <4>1
      <4>3. Takers(new, term[t].window_id) = {t}
        BY <1>3, <2>4, <4>1, <4>2
      <4>4. ASSUME NEW s \in Live(n), n.windows[s].id = term[t].window_id
            PROVE  n.windows[s].app = "Terminal"
        <5>1. s \in Live(m) /\ s # s0
          BY <4>2, <4>4
        <5> QED
          BY <1>3, <4>1, <4>4, <5>1
      <4> QED
        BY <1>1, <1>2, <4>1, <4>2, <4>3, <4>4
    <3> QED
      BY <3>1, <3>2
  <2>6. ASSUME NEW s \in Live(n), n.windows[s].app = "Terminal"
        PROVE  Takers(new, n.windows[s].id) # {}
    <3>1. CASE s = s0
      BY <2>3, <3>1
    <3>2. CASE s # s0
      <4>1. s \in Live(m) /\ m.windows[s].app = "Terminal"
            /\ n.windows[s].id = m.windows[s].id /\ m.windows[s].id # m.next_id
        BY <1>1, <2>6, <3>2
      <4>2. Takers(term, m.windows[s].id) # {}
        BY <1>4, <4>1
      <4> QED
        BY <2>4, <4>1, <4>2
    <3> QED
      BY <3>1, <3>2
  <2> QED
    BY <2>5, <2>6 DEF Owned
<1> QED
  BY <1>5, <1>6

\* The keyboard goes to a terminal that is in use, or to a new one.
LEMMA KeyboardIs ==
    ASSUME Inv, NEW p \in Pointer, NEW m \in Table, NEW app, Keyboard(m, p, app)
    PROVE  /\ terminals' \in [Terms -> TerminalType]
           /\ active_terminal' \in Terms \cup {NoTerminal}
           /\ active_terminal' # NoTerminal => terminals'[active_terminal'].active
           /\ \/ /\ terminals' = terminals
                 /\ app # "Terminal" \/ Full(m) \/ Spare(terminals) = {}
              \/ /\ app = "Terminal" /\ ~Full(m)
                 /\ \E t0 \in Spare(terminals) :
                      /\ terminals'[t0].active /\ terminals'[t0].window_id = m.next_id
                      /\ \A t \in Terms \ {t0} : terminals'[t] = terminals[t]
<1>1. /\ terminals \in [Terms -> TerminalType] /\ m.next_id \in Nat
      /\ active_terminal \in Terms \cup {NoTerminal}
      /\ active_terminal # NoTerminal => terminals[active_terminal].active
  BY DEF Inv, IdsUnique, TypeOK, TerminalsOwned, Table
<1>2. Spare(terminals) = IdleTerms
  BY DEF Spare, IdleTerms
<1>3. CASE app = "Terminal" /\ ~Full(m) /\ IdleTerms # {}
  <2> DEFINE t0 == CHOOSE u \in IdleTerms : \A v \in IdleTerms : u <= v
             new == [active |-> TRUE, window_id |-> m.next_id,
                     buf_len |-> Puts(0, PROMPT), line_len |-> 0]
  <2>1. terminals' = [terminals EXCEPT ![t0] = new] /\ active_terminal' = t0
    BY <1>3 DEF Keyboard, TerminalCreate
  <2>2. t0 \in IdleTerms
    BY <1>3, IdleIs
  <2>3. new \in TerminalType
    <3>1. Puts(0, PROMPT) \in Nat /\ 0 \in 0 .. TERM_LINE_SIZE - 1
      BY TextIsNat, TerminalAssumption DEF Cleared
    <3> QED
      BY <1>1, <3>1 DEF TerminalType
  <2>4. new.active /\ new.window_id = m.next_id
    OBVIOUS
  <2> HIDE DEF t0, new
  <2>5. t0 \in Terms
    BY <2>2 DEF IdleTerms
  <2> QED
    BY <1>1, <1>2, <1>3, <2>1, <2>2, <2>3, <2>4, <2>5, Bounds
<1>4. CASE ~(app = "Terminal" /\ ~Full(m) /\ IdleTerms # {})
  <2> DEFINE id == FirstUnder(m, p)
  <2>1. /\ active_terminal' = IF id = 0 THEN active_terminal ELSE TerminalFor(id)
        /\ terminals' = terminals
    BY <1>4 DEF Keyboard
  <2>2. TerminalFor(id) # NoTerminal =>
          TerminalFor(id) \in Terms /\ terminals[TerminalFor(id)].active
    BY TerminalForIs DEF Owners
  <2> HIDE DEF id
  <2> QED
    BY <1>1, <1>2, <1>4, <2>1, <2>2
<1> QED
  BY <1>3, <1>4

\* Opening a window in the table the mouse left.
LEMMA OpenedInv ==
    ASSUME Inv, on, NEW p \in Pointer, NEW app \in Apps,
           NEW m, Sound(m), Shrinks(m, wm), OneGrabbed(m),
           Keyboard(m, p, app), Open(m, app)
    PROVE  /\ Sound(wm') /\ OneGrabbed(wm') /\ TerminalsOwned'
           /\ app_win' \in [Apps \ {"Terminal"} -> Nat]
<1>1. m \in Table /\ m.next_id \in Nat
  BY DEF Sound, Table
<1>2. /\ terminals' \in [Terms -> TerminalType]
      /\ active_terminal' \in Terms \cup {NoTerminal}
      /\ active_terminal' # NoTerminal => terminals'[active_terminal'].active
      /\ \/ /\ terminals' = terminals
            /\ app # "Terminal" \/ Full(m) \/ Spare(terminals) = {}
         \/ /\ app = "Terminal" /\ ~Full(m)
            /\ \E t0 \in Spare(terminals) :
                 /\ terminals'[t0].active /\ terminals'[t0].window_id = m.next_id
                 /\ \A t \in Terms \ {t0} : terminals'[t] = terminals[t]
  BY <1>1, KeyboardIs
<1>3. app_win' \in [Apps \ {"Terminal"} -> Nat]
  <2>1. app_win \in [Apps \ {"Terminal"} -> Nat]
    BY DEF Inv, IdsUnique, TypeOK
  <2> QED
    BY <1>1, <2>1 DEF Open
<1>4. Owned(terminals, active_terminal, wm) /\ terminals \in [Terms -> TerminalType]
  BY OwnedIs DEF Inv, IdsUnique, TypeOK
<1>5. Owned(terminals, IF active_terminal' # NoTerminal /\ terminals' = terminals
                       THEN active_terminal' ELSE NoTerminal, m)
  <2> DEFINE act == IF active_terminal' # NoTerminal /\ terminals' = terminals
                    THEN active_terminal' ELSE NoTerminal
  <2>1. act \in Terms \cup {NoTerminal} /\ (act # NoTerminal => terminals[act].active)
    BY <1>2
  <2> HIDE DEF act
  <2>2. Owned(terminals, act, m)
    BY <1>4, <2>1, OwnedWithout
  <2> QED
    BY <2>2 DEF act
<1>6. CASE Full(m)
  <2>1. wm' = m /\ terminals' = terminals
    BY <1>2, <1>6 DEF Open, Create
  <2>2. Owned(terminals', active_terminal', wm')
    BY <1>5, <2>1
  <2> QED
    BY <1>3, <2>1, <2>2, OwnedIs
<1>7. CASE ~Full(m)
  <2> DEFINE s0 == FirstFree(m)
             n == Create(m, app, Place(app))
  <2>1. wm' = n
    BY DEF Open
  <2>2. s0 \in Slots /\ s0 \notin Live(m)
    BY <1>7, FirstFreeIs
  <2>3. /\ Sound(n) /\ n.next_id = m.next_id + 1
        /\ Live(n) = Live(m) \cup {s0} /\ Grabbed(n) = Grabbed(m) \ {s0}
        /\ n.windows[s0].id = m.next_id /\ n.windows[s0].app = app
        /\ \A r \in Slots \ {s0} : n.windows[r].id = m.windows[r].id
                                 /\ n.windows[r].app = m.windows[r].app
    BY <1>7, CreateIs
  <2> HIDE DEF n, s0
  <2>4. OneGrabbed(n)
    BY <2>3 DEF OneGrabbed
  <2>5. \A r \in Live(m) : r # s0 /\ n.windows[r].id = m.windows[r].id
                                  /\ n.windows[r].app = m.windows[r].app
    BY <2>2, <2>3 DEF Live
  <2>6. \/ terminals' = terminals /\ (app # "Terminal" \/ Spare(terminals) = {})
        \/ \E t0 \in Spare(terminals) :
             /\ app = "Terminal"
             /\ terminals'[t0].active /\ terminals'[t0].window_id = m.next_id
             /\ \A t \in Terms \ {t0} : terminals'[t] = terminals[t]
    BY <1>2, <1>7
  <2>7. Owned(terminals', active_terminal', n)
    <3> DEFINE act == IF active_terminal' # NoTerminal /\ terminals' = terminals
                      THEN active_terminal' ELSE NoTerminal
    <3> HIDE DEF act
    <3>1. Owned(terminals, act, m)
      BY <1>5 DEF act
    <3>2. Added(m, n, s0, app, terminals, terminals')
      BY <2>3, <2>5, <2>6 DEF Added
    <3> QED
      BY <1>2, <1>4, <2>2, <2>3, <3>1, <3>2, OwnedWith
  <2> QED
    BY <1>3, <2>1, <2>3, <2>4, <2>7, OwnedIs
<1> QED
  BY <1>6, <1>7

LEMMA NextInv == Inv /\ [Next]_vars => Inv'
<1> SUFFICES ASSUME Inv, [Next]_vars PROVE Inv'
  OBVIOUS
<1>1. /\ terminals \in [Terms -> TerminalType] /\ wm \in Table /\ Sound(wm)
      /\ active_terminal \in Terms \cup {NoTerminal}
      /\ app_win \in [Apps \ {"Terminal"} -> Nat]
      /\ {show_start_menu, prev, on, closed} \subseteq BOOLEAN
      /\ active_terminal # NoTerminal => terminals[active_terminal].active
  BY OfTheTable DEF Inv, IdsUnique, TypeOK, TerminalsOwned, Sound
\* What is left to show of a step, once the table and the terminals are known.
<1>2. ASSUME Sound(wm'), on' => ((Grabbed(wm') # {} => prev') /\ OneGrabbed(wm')),
             TerminalsOwned',
             terminals' \in [Terms -> TerminalType],
             active_terminal' \in Terms \cup {NoTerminal},
             app_win' \in [Apps \ {"Terminal"} -> Nat],
             {show_start_menu', prev', on', closed'} \subseteq BOOLEAN
      PROVE  Inv'
  <2>1. TypeOK'
    BY <1>2 DEF TypeOK, Sound, Table
  <2>2. IdsUnique' /\ OneFocus'
    BY <1>2, <2>1 DEF IdsUnique, OneFocus, Sound, Distinct, Focus
  <2>3. DragHeld'
    BY <1>2 DEF DragHeld, Grabbed, OneGrabbed, Live
  <2> QED
    BY <1>2, <2>2, <2>3 DEF Inv
<1>3. ASSUME NEW t \in Terms,
             NEW after \in Enter(terminals[t], Outputs)
                             \cup {Erase(terminals[t]), Type(terminals[t])},
             Keypress(t, after)
      PROVE  Inv'
  <2>1. /\ after \in TerminalType
        /\ after.active = terminals[t].active
        /\ after.window_id = terminals[t].window_id
    BY <1>1, TypedIs
  <2>2. /\ terminals' = [terminals EXCEPT ![t] = after]
        /\ UNCHANGED <<wm, active_terminal, app_win, show_start_menu, prev, on, closed>>
    BY <1>3 DEF Keypress
  <2>3. terminals' \in [Terms -> TerminalType]
    BY <1>1, <2>1, <2>2
  <2>4. \A u \in Terms : terminals'[u].active = terminals[u].active
                      /\ terminals'[u].window_id = terminals[u].window_id
    BY <1>1, <2>1, <2>2
  <2>5. Owned(terminals, active_terminal, wm)
    BY OwnedIs DEF Inv
  <2>6. Shrinks(wm, wm)
    BY DEF Shrinks
  <2>7. Owned(terminals', active_terminal, wm)
    BY <1>1, <2>4, <2>5, <2>6, OwnedWithout
  <2>8. TerminalsOwned'
    BY <2>2, <2>7, OwnedIs
  <2>9. Sound(wm') /\ (on' => (Grabbed(wm') # {} => prev') /\ OneGrabbed(wm'))
    BY <1>1, <2>2, OfTheTable DEF Inv
  <2> QED
    BY <1>1, <1>2, <2>2, <2>3, <2>8, <2>9
<1>4. ASSUME NEW p \in Pointer, NEW down \in BOOLEAN, HandleInput(p, down)
      PROVE  Inv'
  <2> DEFINE m == HandleMouse(wm, p, down, prev)
  <2>1. on /\ prev' = down
    BY <1>4 DEF HandleInput
  <2>2. Sound(m) /\ Shrinks(m, wm) /\ OneGrabbed(m) /\ (Grabbed(m) # {} => down)
    BY <2>1, Handled
  <2>3. CASE ~(down /\ ~prev)
    <3>1. /\ wm' = m
          /\ UNCHANGED <<terminals, active_terminal, app_win, show_start_menu, on, closed>>
      BY <1>4, <2>3 DEF HandleInput
    <3> HIDE DEF m
    <3>2. Owned(terminals, active_terminal, wm)
      BY OwnedIs DEF Inv
    <3>3. Owned(terminals, active_terminal, m)
      BY <1>1, <2>2, <3>2, OwnedWithout
    <3>4. TerminalsOwned'
      BY <3>1, <3>3, OwnedIs
    <3> QED
      BY <1>1, <1>2, <2>1, <2>2, <3>1, <3>4
  <2>4. CASE down /\ ~prev
    <3>1. down = TRUE /\ prev = FALSE /\ Click(p)
      BY <1>1, <1>4, <2>4 DEF HandleInput
    <3> DEFINE app == Opens(p)
    <3>2. /\ Keyboard(m, p, app)
          /\ IF app = "none" THEN wm' = m /\ UNCHANGED app_win ELSE Open(m, app)
          /\ on' = on /\ show_start_menu' \in BOOLEAN /\ closed' \in BOOLEAN
      BY <1>1, <3>1 DEF Click
    <3>3. app \in Apps \cup {"none"}
      BY OpensIs
    <3> HIDE DEF m, app
    <3>4. m \in Table
      BY <2>2 DEF Sound
    <3>5. /\ terminals' \in [Terms -> TerminalType]
          /\ active_terminal' \in Terms \cup {NoTerminal}
          /\ active_terminal' # NoTerminal => terminals'[active_terminal'].active
          /\ app # "Terminal" => terminals' = terminals
      BY <3>2, <3>4, KeyboardIs
    <3>6. CASE app = "none"
      <4>1. Owned(terminals, active_terminal, wm)
        BY OwnedIs DEF Inv
      <4>2. Owned(terminals', active_terminal', m)
        BY <2>2, <3>5, <3>6, <4>1, OwnedWithout
      <4>3. TerminalsOwned'
        BY <3>2, <3>6, <4>2, OwnedIs
      <4> QED
        BY <1>1, <1>2, <2>1, <2>2, <3>2, <3>5, <3>6, <4>3
    <3>7. CASE app # "none"
      <4>1. /\ Sound(wm') /\ OneGrabbed(wm') /\ TerminalsOwned'
            /\ app_win' \in [Apps \ {"Terminal"} -> Nat]
        BY <2>1, <2>2, <3>2, <3>3, <3>7, OpenedInv
      <4> QED
        BY <1>1, <1>2, <2>1, <2>4, <3>2, <3>5, <4>1
    <3> QED
      BY <3>6, <3>7
  <2> QED
    BY <2>3, <2>4
<1>5. ASSUME NEW p \in Pointer, Shutdown(p) PROVE Inv'
  <2> DEFINE m == HandleMouse(wm, p, TRUE, FALSE)
  <2>1. /\ on /\ ~prev /\ wm' = m /\ Keyboard(m, p, "none") /\ on' = FALSE
        /\ UNCHANGED <<app_win, show_start_menu, prev, closed>>
    BY <1>5 DEF Shutdown
  <2>2. prev = FALSE
    BY <1>1, <2>1
  <2>3. Sound(m) /\ Shrinks(m, wm)
    BY <2>1, <2>2, Handled
  <2> HIDE DEF m
  <2>4. m \in Table
    BY <2>3 DEF Sound
  <2>5. /\ terminals' = terminals
        /\ active_terminal' \in Terms \cup {NoTerminal}
        /\ active_terminal' # NoTerminal => terminals[active_terminal'].active
    BY <2>1, <2>4, KeyboardIs
  <2>6. Owned(terminals, active_terminal, wm)
    BY OwnedIs DEF Inv
  <2>7. Owned(terminals', active_terminal', m)
    BY <2>3, <2>5, <2>6, OwnedWithout
  <2>8. TerminalsOwned'
    BY <2>1, <2>7, OwnedIs
  <2> QED
    BY <1>1, <1>2, <2>1, <2>3, <2>5, <2>8
<1>6. CASE UNCHANGED vars
  <2>1. UNCHANGED <<wm, terminals, active_terminal, app_win, show_start_menu, prev, on, closed>>
    BY <1>6 DEF vars
  <2>2. TerminalsOwned'
    BY <2>1, OwnedIs DEF Inv
  <2>3. on' => (Grabbed(wm') # {} => prev') /\ OneGrabbed(wm')
    BY <2>1, OfTheTable DEF Inv
  <2> QED
    BY <1>1, <1>2, <2>1, <2>2, <2>3
<1> QED
  BY <1>3, <1>4, <1>5, <1>6 DEF Next, Key

-----------------------------------------------------------------------------
LEMMA AlwaysInv == Spec => []Inv
  BY InitInv, NextInv, PTL DEF Spec

\* Ids are unique and below the next one, with the types of the whole state,
\* for any number of slots and of terminals.
THEOREM IdsAreUnique == Spec => []IdsUnique
<1>1. Inv => IdsUnique
  BY DEF Inv
<1> QED
  BY <1>1, AlwaysInv, PTL

\* The one focused window is the one on top, through every click, drag, opening
\* and closing.
THEOREM FocusIsOne == Spec => []OneFocus
<1>1. Inv => OneFocus
  BY DEF Inv
<1> QED
  BY <1>1, AlwaysInv, PTL

\* One window at most is dragged, it is there, and the button is down.
THEOREM OneIsDragged == Spec => []DragHeld
<1>1. Inv => DragHeld
  BY DEF Inv
<1> QED
  BY <1>1, AlwaysInv, PTL

\* A terminal belongs to one window, a terminal window is without one only when
\* all have been given out, and characters go to one in use.
THEOREM TerminalsAreOwned == Spec => []TerminalsOwned
<1>1. Inv => TerminalsOwned
  BY DEF Inv
<1> QED
  BY <1>1, AlwaysInv, PTL

\* A click never brings the keyboard back to a window whose id is past the number
\* of slots.
THEOREM KeyboardIsLost == Spec => LostForGood
<1>1. Inv /\ [Next]_vars =>
        [(active_terminal' \notin {active_terminal, NoTerminal} /\ wm'.next_id = wm.next_id)
           => (terminals[active_terminal'].window_id <= MAX_WINDOWS)]_vars
  <2> SUFFICES ASSUME Inv, [Next]_vars,
                      active_terminal' \notin {active_terminal, NoTerminal},
                      wm'.next_id = wm.next_id
               PROVE  terminals[active_terminal'].window_id <= MAX_WINDOWS
    OBVIOUS
  <2>1. ASSUME NEW p \in Pointer, NEW m, NEW app, Keyboard(m, p, app),
               ~(app = "Terminal" /\ ~Full(m))
        PROVE  terminals[active_terminal'].window_id <= MAX_WINDOWS
    <3> DEFINE id == FirstUnder(m, p)
    <3>1. active_terminal' = IF id = 0 THEN active_terminal ELSE TerminalFor(id)
      BY <2>1 DEF Keyboard
    <3>2. id # 0 /\ active_terminal' = TerminalFor(id) /\ TerminalFor(id) # NoTerminal
      BY <3>1
    <3>3. id \in 1 .. MAX_WINDOWS
      BY <3>2, FirstUnderIs
    <3> HIDE DEF id
    <3>4. terminals[active_terminal'].window_id = id
      BY <3>2, TerminalForIs DEF Owners
    <3> QED
      BY <3>3, <3>4, Bounds
  <2>2. ASSUME NEW p \in Pointer, HandleInput(p, TRUE), ~prev, Click(p)
        PROVE  terminals[active_terminal'].window_id <= MAX_WINDOWS
    <3> DEFINE m == HandleMouse(wm, p, TRUE, FALSE)
               app == Opens(p)
    <3>1. /\ Keyboard(m, p, app)
          /\ IF app = "none" THEN wm' = m /\ UNCHANGED app_win ELSE Open(m, app)
      BY <2>2 DEF Click
    <3>2. Sound(m) /\ Shrinks(m, wm)
      <4>1. on /\ prev = FALSE
        BY <2>2 DEF HandleInput, Inv, IdsUnique, TypeOK
      <4> QED
        BY <4>1, Handled
    <3>3. app \in Apps \cup {"none"}
      BY OpensIs
    <3> HIDE DEF m, app
    <3>4. ~(app = "Terminal" /\ ~Full(m))
      <4> SUFFICES ASSUME app = "Terminal", ~Full(m) PROVE FALSE
        OBVIOUS
      <4>1. app \in Apps /\ wm' = Create(m, app, Place(app))
        BY <3>1, <3>3 DEF Open
      <4>2. wm'.next_id = m.next_id + 1
        BY <3>2, <4>1, CreateIs
      <4>3. m.next_id = wm.next_id /\ m.next_id \in Nat
        BY <3>2 DEF Shrinks, Sound, Table
      <4> QED
        BY <4>2, <4>3
    <3> QED
      BY <2>1, <3>1, <3>4
  <2>3. ASSUME NEW p \in Pointer, Shutdown(p)
        PROVE  terminals[active_terminal'].window_id <= MAX_WINDOWS
    BY <2>1, <2>3 DEF Shutdown
  <2>4. CASE Key
    BY <2>4 DEF Key, Keypress
  <2>5. CASE UNCHANGED vars
    BY <2>5 DEF vars
  <2>6. ASSUME NEW p \in Pointer, NEW down \in BOOLEAN, HandleInput(p, down)
        PROVE  terminals[active_terminal'].window_id <= MAX_WINDOWS
    <3>1. CASE down /\ ~prev
      BY <2>2, <2>6, <3>1 DEF HandleInput
    <3>2. CASE ~(down /\ ~prev)
      BY <2>6, <3>2 DEF HandleInput
    <3> QED
      BY <3>1, <3>2
  <2> QED
    BY <2>3, <2>4, <2>5, <2>6 DEF Next
<1> QED
  BY <1>1, AlwaysInv, PTL DEF Spec, LostForGood

\* A text gets shorter by "clear" only, or past its own length.
THEOREM TextIsKept == Spec => TextKept
<1>1. Inv /\ [Next]_vars =>
        [\A t \in Terms :
           (terminals[t].active /\ terminals'[t].buf_len < terminals[t].buf_len)
             => (terminals'[t].buf_len = Cleared \/ terminals[t].buf_len = TERM_BUF_SIZE)]_vars
  <2> SUFFICES ASSUME Inv, [Next]_vars, NEW t \in Terms, terminals[t].active,
                      terminals'[t].buf_len < terminals[t].buf_len
               PROVE  terminals'[t].buf_len = Cleared \/ terminals[t].buf_len = TERM_BUF_SIZE
    OBVIOUS
  <2>1. /\ terminals \in [Terms -> TerminalType] /\ terminals[t].buf_len \in Nat
        /\ TERM_BUF_SIZE \in Nat
    BY TerminalAssumption DEF Inv, IdsUnique, TypeOK, TerminalType
  <2>2. ASSUME terminals'[t] = terminals[t] PROVE FALSE
    BY <2>1, <2>2
  <2>3. ASSUME NEW m, NEW p, NEW app, Keyboard(m, p, app) PROVE FALSE
    <3>1. terminals' # terminals
      BY <2>2
    <3> DEFINE t0 == CHOOSE u \in IdleTerms : \A v \in IdleTerms : u <= v
               new == [active |-> TRUE, window_id |-> m.next_id,
                       buf_len |-> Puts(0, PROMPT), line_len |-> 0]
    <3>2. IdleTerms # {} /\ terminals' = [terminals EXCEPT ![t0] = new]
      BY <2>3, <3>1 DEF Keyboard, TerminalCreate
    <3>3. t0 \in IdleTerms
      BY <3>2, IdleIs
    <3> HIDE DEF t0, new
    <3>4. t # t0
      BY <3>3 DEF IdleTerms
    <3> QED
      BY <2>1, <2>2, <3>2, <3>4
  <2>4. ASSUME NEW u \in Terms,
               NEW after \in Enter(terminals[u], Outputs)
                               \cup {Erase(terminals[u]), Type(terminals[u])},
               Keypress(u, after)
        PROVE  terminals'[t].buf_len = Cleared \/ terminals[t].buf_len = TERM_BUF_SIZE
    <3>1. terminals' = [terminals EXCEPT ![u] = after] /\ terminals[u].buf_len <= TERM_BUF_SIZE
      BY <2>4 DEF Keypress
    <3>2. t = u
      BY <2>1, <2>2, <3>1
    <3>3. /\ after \in TerminalType
          /\ \/ after.buf_len >= terminals[t].buf_len
             \/ after.buf_len = Cleared
             \/ terminals[t].buf_len >= TERM_BUF_SIZE
      BY <2>1, <3>2, TypedIs
    <3>4. terminals'[t] = after /\ after.buf_len \in Nat
      BY <2>1, <3>1, <3>2, <3>3 DEF TerminalType
    <3> QED
      BY <2>1, <3>1, <3>2, <3>3, <3>4
  <2>5. ASSUME NEW p \in Pointer, NEW down \in BOOLEAN, HandleInput(p, down)
        PROVE  FALSE
    BY <2>2, <2>3, <2>5 DEF HandleInput, Click
  <2>6. ASSUME NEW p \in Pointer, Shutdown(p) PROVE FALSE
    BY <2>3, <2>6 DEF Shutdown
  <2>7. ~UNCHANGED vars
    BY <2>2 DEF vars
  <2> QED
    BY <2>4, <2>5, <2>6, <2>7 DEF Next, Key
<1> QED
  BY <1>1, AlwaysInv, PTL DEF Spec, TextKept

-----------------------------------------------------------------------------
(* Until a window is closed the windows have the first slots, in order.    *)

OrderedTable(m) ==
    \A s \in Slots : m.windows[s].id = IF s < m.next_id - 1 THEN s + 1 ELSE 0

InOrder == on /\ ~closed => OrderedTable(wm)

LEMMA OrderKept ==
    ASSUME NEW m \in Table, NEW n \in Table, Shrinks(n, m), Live(n) = Live(m), OrderedTable(m)
    PROVE  OrderedTable(n)
<1>1. \A s \in Slots : n.windows[s].id = m.windows[s].id
  BY DEF Shrinks, Live
<1> QED
  BY <1>1 DEF OrderedTable, Shrinks

LEMMA OrderCreated ==
    ASSUME NEW m, Sound(m), ~Full(m), NEW app \in Apps, OrderedTable(m)
    PROVE  OrderedTable(Create(m, app, Place(app)))
<1> DEFINE n == Create(m, app, Place(app))
           s0 == FirstFree(m)
<1>1. m.next_id \in Nat \ {0} /\ Slots = 0 .. MAX_WINDOWS - 1 /\ MAX_WINDOWS \in Nat
  BY Bounds DEF Sound, Table, Slots
<1>2. /\ s0 \in Slots /\ s0 \notin Live(m)
      /\ \A r \in Slots \ Live(m) : s0 <= r
  BY FirstFreeIs
<1>3. /\ n.next_id = m.next_id + 1 /\ n.windows[s0].id = m.next_id
      /\ \A r \in Slots \ {s0} : n.windows[r].id = m.windows[r].id
  BY CreateIs
<1> HIDE DEF n, s0
<1>4. \A r \in Slots : r \in Live(m) <=> r < m.next_id - 1
  BY <1>1 DEF Live, OrderedTable
<1>5. s0 >= m.next_id - 1 /\ m.next_id - 1 \in Slots
  BY <1>1, <1>2, <1>4
<1>6. s0 = m.next_id - 1
  BY <1>1, <1>2, <1>4, <1>5
<1>7. \A r \in Slots : n.windows[r].id = IF r < n.next_id - 1 THEN r + 1 ELSE 0
  <2>1. ASSUME NEW r \in Slots, r # s0
        PROVE  n.windows[r].id = IF r < n.next_id - 1 THEN r + 1 ELSE 0
    BY <1>1, <1>3, <1>6, <2>1 DEF OrderedTable
  <2>2. n.windows[s0].id = IF s0 < n.next_id - 1 THEN s0 + 1 ELSE 0
    BY <1>1, <1>3, <1>6
  <2> QED
    BY <2>1, <2>2
<1> QED
  BY <1>7 DEF OrderedTable, n

LEMMA InitOrder == Init => InOrder
<1> SUFFICES ASSUME Init PROVE OrderedTable(wm)
  BY DEF InOrder
<1>1. wm.next_id = 1 /\ \A s \in Slots : wm.windows[s].id = 0
  BY DEF Init, WmInit, Unused
<1>2. \A s \in Slots : s \in Nat
  BY Bounds
<1> QED
  BY <1>1, <1>2 DEF OrderedTable

LEMMA NextOrder == Inv /\ InOrder /\ [Next]_vars => InOrder'
<1> SUFFICES ASSUME Inv, InOrder, [Next]_vars, on', ~closed' PROVE OrderedTable(wm')
  BY DEF InOrder
<1>1. CASE Key
  BY <1>1 DEF Key, Keypress, InOrder
<1>2. ASSUME NEW p \in Pointer, Shutdown(p) PROVE FALSE
  BY <1>2 DEF Shutdown
<1>3. CASE UNCHANGED vars
  BY <1>3 DEF vars, InOrder
<1>4. ASSUME NEW p \in Pointer, NEW down \in BOOLEAN, HandleInput(p, down)
      PROVE  OrderedTable(wm')
  <2> DEFINE m == HandleMouse(wm, p, down, prev)
  <2>1. on /\ prev \in BOOLEAN /\ closed \in BOOLEAN /\ Sound(wm) /\ wm \in Table
    BY <1>4, OfTheTable DEF HandleInput, Inv, IdsUnique, TypeOK, Sound
  <2>2. /\ Sound(m) /\ Shrinks(m, wm)
        /\ ~(down /\ ~prev) => Live(m) = Live(wm)
    BY <2>1, HandleMouseIs
  <2>3. m \in Table
    BY <2>2 DEF Sound
  <2>4. CASE ~(down /\ ~prev)
    <3>1. wm' = m /\ closed' = closed
      BY <1>4, <2>4 DEF HandleInput
    <3> HIDE DEF m
    <3> QED
      BY <2>1, <2>2, <2>3, <2>4, <3>1, OrderKept DEF InOrder
  <2>5. CASE down /\ ~prev
    <3>1. down = TRUE /\ prev = FALSE /\ Click(p)
      BY <1>4, <2>1, <2>5 DEF HandleInput
    <3> DEFINE app == Opens(p)
    <3>2. /\ IF app = "none" THEN wm' = m /\ UNCHANGED app_win ELSE Open(m, app)
          /\ closed' = (closed \/ Live(m) # Live(wm))
      BY <3>1 DEF Click
    <3>3. app \in Apps \cup {"none"}
      BY OpensIs
    <3> HIDE DEF m, app
    <3>4. OrderedTable(m)
      BY <2>1, <2>2, <2>3, <3>2, OrderKept DEF InOrder
    <3>5. CASE wm' = m
      BY <3>4, <3>5
    <3>6. CASE app # "none" /\ wm' = Create(m, app, Place(app)) /\ ~Full(m)
      BY <2>2, <3>3, <3>4, <3>6, OrderCreated
    <3>7. Full(m) => Create(m, app, Place(app)) = m
      BY DEF Create
    <3> QED
      BY <3>2, <3>5, <3>6, <3>7 DEF Open
  <2> QED
    BY <2>4, <2>5
<1> QED
  BY <1>1, <1>2, <1>3, <1>4 DEF Next

\* Until a window is closed, a click focuses the window painted last under the
\* pointer.
THEOREM ClicksFocusTheSeen == Spec => ClickFocusesSeen
<1>1. Inv /\ InOrder /\ [Next]_vars =>
        [\A p \in Pointer :
           (HandleInput(p, TRUE) /\ ~prev /\ ~closed' /\ wm'.next_id = wm.next_id
              /\ Under(wm, p) # {})
             => (wm'.windows[wm'.top_window].id = TopDrawn(wm, p))]_vars
  <2> SUFFICES ASSUME Inv, InOrder, NEW p \in Pointer, HandleInput(p, TRUE), ~prev, ~closed',
                      wm'.next_id = wm.next_id, Under(wm, p) # {}
               PROVE  wm'.windows[wm'.top_window].id = TopDrawn(wm, p)
    OBVIOUS
  <2> DEFINE m == HandleMouse(wm, p, TRUE, FALSE)
             app == Opens(p)
             top == Hit(wm, p)
  <2>1. on /\ Click(p)
    BY DEF HandleInput
  <2>2. /\ IF app = "none" THEN wm' = m /\ UNCHANGED app_win ELSE Open(m, app)
        /\ ~closed /\ Live(m) = Live(wm)
    BY <2>1 DEF Click
  <2>3. Sound(wm) /\ wm \in Table /\ OrderedTable(wm)
    BY <2>1, <2>2, OfTheTable DEF Inv, Sound, IdsUnique, InOrder
  <2>4. Sound(m) /\ Shrinks(m, wm) /\ m.top_window = top
    <3>1. TRUE \in BOOLEAN /\ FALSE \in BOOLEAN
      OBVIOUS
    <3> QED
      BY <2>2, <2>3, <3>1, HandleMouseIs
  <2>5. app \in Apps \cup {"none"}
    BY OpensIs
  <2> HIDE DEF m, app
  <2>6. wm' = m
    <3>1. CASE app = "none"
      BY <2>2, <3>1
    <3>2. CASE app # "none" /\ Full(m)
      BY <2>2, <3>2 DEF Open, Create
    <3>3. CASE app # "none" /\ ~Full(m)
      <4>1. wm' = Create(m, app, Place(app)) /\ app \in Apps
        BY <2>2, <2>5, <3>3 DEF Open
      <4>2. wm'.next_id = m.next_id + 1
        BY <2>4, <3>3, <4>1, CreateIs
      <4>3. m.next_id = wm.next_id /\ m.next_id \in Nat
        BY <2>4 DEF Shrinks, Sound, Table
      <4> QED
        BY <4>2, <4>3
    <3> QED
      BY <3>1, <3>2, <3>3
  <2>7. top \in Under(wm, p) /\ \A r \in Under(wm, p) : r <= top
    BY HitIs
  <2> HIDE DEF top
  <2>8. /\ Under(wm, p) \subseteq Live(wm) /\ Live(wm) \subseteq Slots
        /\ Slots = 0 .. MAX_WINDOWS - 1 /\ MAX_WINDOWS \in Nat
    BY Bounds DEF Under, Live, Slots
  <2>9. \A s \in Live(wm) : wm.windows[s].id = s + 1
    BY <2>3, <2>8 DEF OrderedTable, Live
  <2>10. wm'.windows[wm'.top_window].id = top + 1
    BY <2>2, <2>4, <2>6, <2>7, <2>8, <2>9 DEF Shrinks
  <2> DEFINE ids == {wm.windows[s].id : s \in Under(wm, p)} \cap 1 .. MAX_WINDOWS
  <2>11. top + 1 \in ids /\ \A j \in ids : j <= top + 1
    BY <2>7, <2>8, <2>9
  <2>12. TopDrawn(wm, p) = IF ids = {} THEN 0 ELSE CHOOSE i \in ids : \A j \in ids : j <= i
    BY DEF TopDrawn
  <2>13. ids \subseteq Nat
    OBVIOUS
  <2> HIDE DEF ids
  <2>14. (CHOOSE i \in ids : \A j \in ids : j <= i) = top + 1
    <3> DEFINE c == CHOOSE i \in ids : \A j \in ids : j <= i
    <3>1. c \in ids /\ \A j \in ids : j <= c
      BY <2>11
    <3> HIDE DEF c
    <3>2. c \in Nat /\ top + 1 \in Nat /\ c <= top + 1 /\ top + 1 <= c
      BY <2>11, <2>13, <3>1
    <3>3. c = top + 1
      BY <3>2
    <3> QED
      BY <3>3 DEF c
  <2> QED
    BY <2>10, <2>11, <2>12, <2>14
<1> QED
  BY <1>1, InitInv, NextInv, InitOrder, NextOrder, PTL DEF Spec, ClickFocusesSeen
-----------------------------------------------------------------------------
(* The mouse.                                                              *)

Byte == 0 .. 255

MouseTypes ==
    /\ x \in Nat /\ y \in Nat
    /\ buttons \in 0 .. 7
    /\ \/ mouse_byte = <<>>
       \/ \E a \in Byte : mouse_byte = <<a>>
       \/ \E a, b \in Byte : mouse_byte = <<a, b>>
    /\ wire \in Seq(Byte) /\ Len(wire) <= 4
    /\ lost \in 0 .. MaxLost
    /\ in_step \in BOOLEAN

\* What is left of a whole packet, and what the handler has of it in step.  Before
\* the last byte of a calm one the handler is at the start of a packet or at the
\* end of one, out of step or not: that byte brings it to the start.
InPacket(b0, b1, b2) ==
    /\ packet = <<b0, b1, b2>>
    /\ \/ wire = <<b0, b1, b2>> /\ (in_step => mouse_byte = <<>>)
       \/ wire = <<b1, b2>> /\ (in_step => mouse_byte = <<b0>>)
       \/ wire = <<b2>> /\ (in_step => mouse_byte = <<b0, b1>>)
    /\ Bit(b1, 8) \/ Bit(b2, 8) \/ wire # <<b2>> \/ mouse_cycle # 1

MouseInv ==
    /\ MouseTypes
    /\ \/ packet = <<>> /\ (in_step => wire = <<>> /\ mouse_byte = <<>>)
       \/ \E b0 \in Flags, b1, b2 \in Data : InPacket(b0, b1, b2)

LEMMA MouseInitInv == MouseInit => MouseInv
<1> SUFFICES ASSUME MouseInit PROVE MouseInv
  OBVIOUS
<1>1. PICK k \in 2 .. 6 : wire = SubSeq(Answers, k, 5)
  BY DEF MouseInit
<1>2. wire \in Seq(Byte) /\ Len(wire) = IF k <= 5 THEN 5 - k + 1 ELSE 0
  <2>1. \A i \in k .. 5 : Answers[i] \in Byte
    BY DEF Answers, Byte
  <2> QED
    BY <1>1, <2>1, SubSeqProperties
<1>3. Len(wire) <= 4
  BY <1>2
<1>4. x \in Nat /\ y \in Nat /\ MaxLost \in Nat
  BY MouseAssumption DEF MouseInit
<1>5. buttons = 0 /\ mouse_byte = <<>> /\ packet = <<>> /\ lost = 0 /\ in_step = FALSE
  BY DEF MouseInit
<1>6. lost \in 0 .. MaxLost /\ buttons \in 0 .. 7 /\ in_step \in BOOLEAN
  <2>1. lost = 0 /\ buttons = 0
    BY <1>5
  <2>2. lost \in 0 .. MaxLost /\ buttons \in 0 .. 7
    BY <1>4, <2>1
  <2> QED
    BY <1>5, <2>2
<1>7. MouseTypes
  BY <1>2, <1>3, <1>4, <1>5, <1>6 DEF MouseTypes
<1> QED
  BY <1>5, <1>7 DEF MouseInv

LEMMA Shortens ==
    ASSUME NEW S, NEW s \in Seq(S), s # <<>>, Len(s) <= 4
    PROVE  Head(s) \in S /\ Tail(s) \in Seq(S) /\ Len(Tail(s)) <= 4
<1>1. Head(s) \in S /\ Tail(s) \in Seq(S) /\ Len(Tail(s)) = Len(s) - 1 /\ Len(s) \in Nat
  BY HeadTailProperties, LenProperties
<1> QED
  BY <1>1

LEMMA CycleIs ==
    ASSUME MouseTypes
    PROVE  \/ mouse_byte = <<>> /\ mouse_cycle = 0
           \/ mouse_cycle = 1 /\ \E a \in Byte : mouse_byte = <<a>>
           \/ mouse_cycle = 2 /\ \E a, b \in Byte : mouse_byte = <<a, b>>
<1>1. CASE mouse_byte = <<>>
  BY <1>1, LenOf DEF mouse_cycle
<1>2. ASSUME NEW a \in Byte, mouse_byte = <<a>> PROVE mouse_cycle = 1
  BY <1>2, LenOf DEF mouse_cycle
<1>3. ASSUME NEW a \in Byte, NEW b \in Byte, mouse_byte = <<a, b>> PROVE mouse_cycle = 2
  BY <1>3, LenOf DEF mouse_cycle
<1> QED
  BY <1>1, <1>2, <1>3 DEF MouseTypes

\* What is gathered, and when a packet ends.
LEMMA GatherIs ==
    ASSUME NEW byte \in Byte, MouseTypes
    PROVE  /\ mouse_byte = <<>> =>
                Gather(byte) = IF Bit(byte, 8) THEN <<byte>> ELSE <<>>
           /\ \A a \in Byte : mouse_byte = <<a>> => Gather(byte) = <<a, byte>>
           /\ \A a, b \in Byte : mouse_byte = <<a, b>> => Gather(byte) = <<>>
<1>1. ASSUME mouse_byte = <<>>
      PROVE  Gather(byte) = IF Bit(byte, 8) THEN <<byte>> ELSE <<>>
  BY <1>1, LenOf, AppendOf DEF Gather, mouse_cycle
<1>2. ASSUME NEW a \in Byte, mouse_byte = <<a>> PROVE Gather(byte) = <<a, byte>>
  BY <1>2, LenOf, AppendOf DEF Gather, mouse_cycle
<1>3. ASSUME NEW a \in Byte, NEW b \in Byte, mouse_byte = <<a, b>>
      PROVE  Gather(byte) = <<>>
  BY <1>3, LenOf DEF Gather, mouse_cycle
<1> QED
  BY <1>1, <1>2, <1>3

\* What a packet does to the pointer.
Displaces(a, b, d) ==
    /\ AtLeastZero(x + Dx(a, b)) \in Nat
    /\ Dx(a, b) = b - 256 * ((a \div 16) % 2)
    /\ AtLeastZero(y + Dy(a, d)) \in Nat
    /\ AtLeastZero(y + Dy(a, d)) <= y
    /\ a % 8 \in 0 .. 7

LEMMA MoveIs ==
    ASSUME NEW a \in Byte, NEW b \in Byte, NEW d \in Byte, x \in Nat, y \in Nat
    PROVE  Displaces(a, b, d)
<1>1. (a \div 16) % 2 \in {0, 1}
  BY DEF Byte
<1>2. Dx(a, b) \in Int /\ Dx(a, b) = b - 256 * ((a \div 16) % 2)
  BY <1>1 DEF Dx, Bit, Byte
<1>3. Dy(a, d) \in -256 .. 0
  BY DEF Dy, Byte
<1> HIDE DEF Dx, Dy
<1> QED
  BY <1>2, <1>3 DEF AtLeastZero, Byte, Displaces

LEMMA HandlerTypes == MouseTypes /\ Handler => MouseTypes'
<1> SUFFICES ASSUME MouseTypes, Handler PROVE MouseTypes'
  OBVIOUS
<1>1. Head(wire) \in Byte /\ wire' \in Seq(Byte) /\ Len(wire') <= 4
  BY Shortens DEF MouseTypes, Handler
<1>2. mouse_byte' = Gather(Head(wire))
  BY DEF Handler
<1>3. \/ mouse_byte' = <<>>
      \/ \E a \in Byte : mouse_byte' = <<a>>
      \/ \E a, b \in Byte : mouse_byte' = <<a, b>>
  BY <1>1, <1>2, GatherIs DEF MouseTypes
<1>4. x' \in Nat /\ y' \in Nat /\ buttons' \in 0 .. 7
  <2>1. CASE mouse_cycle = 2
    <3>1. PICK a \in Byte, b \in Byte : mouse_byte = <<a, b>>
      BY <2>1, CycleIs
    <3>2. /\ x' = AtLeastZero(x + Dx(a, b))
          /\ y' = AtLeastZero(y + Dy(a, Head(wire)))
          /\ buttons' = a % 8
      BY <2>1, <3>1 DEF Handler
    <3>3. a \in Byte /\ b \in Byte /\ x \in Nat /\ y \in Nat
      BY <3>1 DEF MouseTypes
    <3>4. Displaces(a, b, Head(wire))
      BY <1>1, <3>3, MoveIs
    <3> QED
      BY <3>2, <3>4 DEF Displaces
  <2>2. CASE mouse_cycle # 2
    BY <2>2 DEF Handler, MouseTypes
  <2> QED
    BY <2>1, <2>2
<1>5. in_step' \in BOOLEAN /\ lost' \in 0 .. MaxLost
  BY DEF Handler, MouseTypes
<1> QED
  BY <1>1, <1>3, <1>4, <1>5 DEF MouseTypes

LEMMA HandlerInv == MouseInv /\ Handler => MouseInv'
<1> SUFFICES ASSUME MouseInv, Handler PROVE MouseInv'
  OBVIOUS
<1>0. MouseTypes /\ MouseTypes'
  BY HandlerTypes DEF MouseInv
<1>1. /\ wire # <<>> /\ wire' = Tail(wire)
      /\ mouse_byte' = Gather(Head(wire))
      /\ in_step' = (in_step \/ (Len(wire) = 1 /\ Calm))
      /\ packet' = IF Len(wire) = 1 THEN <<>> ELSE packet
  BY DEF Handler
<1>2. CASE packet = <<>>
  <2>1. packet' = <<>> /\ ~in_step'
    BY <1>1, <1>2 DEF MouseInv, Calm, InPacket
  <2> QED
    BY <1>0, <2>1 DEF MouseInv
<1>3. CASE packet # <<>>
  <2>1. PICK b0 \in Flags, b1 \in Data, b2 \in Data : InPacket(b0, b1, b2)
    BY <1>3 DEF MouseInv
  <2>2. b0 \in Byte /\ b1 \in Byte /\ b2 \in Byte /\ Bit(b0, 8)
    BY MouseAssumption DEF Byte
  <2>3. Calm <=> ~Bit(b1, 8) /\ ~Bit(b2, 8)
    BY <2>1 DEF InPacket, Calm
  <2>c. /\ mouse_cycle # 1 => mouse_byte = <<>> \/ \E a, b \in Byte : mouse_byte = <<a, b>>
        /\ mouse_byte = <<>> => mouse_cycle = 0
    BY <1>0, LenOf DEF MouseTypes, mouse_cycle
  <2>4. CASE wire = <<b0, b1, b2>>
    <3>1. Head(wire) = b0 /\ wire' = <<b1, b2>> /\ Len(wire) = 3
      BY <1>1, <2>4, TailOf, LenOf
    <3>2. packet' = <<b0, b1, b2>> /\ in_step' = in_step
      BY <1>0, <1>1, <2>1, <3>1 DEF InPacket, MouseTypes
    <3>3. in_step => mouse_byte' = <<b0>>
      <4>1. in_step => mouse_byte = <<>>
        BY <2>1, <2>4, <3>1, LenOf DEF InPacket
      <4> QED
        BY <1>0, <1>1, <2>2, <3>1, <4>1, GatherIs
    <3>4. wire' # <<b2>>
      BY <3>1, LenOf
    <3>5. InPacket(b0, b1, b2)'
      BY <3>1, <3>2, <3>3, <3>4 DEF InPacket
    <3> QED
      BY <1>0, <3>5 DEF MouseInv
  <2>5. CASE wire = <<b1, b2>>
    <3>1. Head(wire) = b1 /\ wire' = <<b2>> /\ Len(wire) = 2
      BY <1>1, <2>5, TailOf, LenOf
    <3>2. packet' = <<b0, b1, b2>> /\ in_step' = in_step
      BY <1>0, <1>1, <2>1, <3>1 DEF InPacket, MouseTypes
    <3>3. in_step => mouse_byte' = <<b0, b1>>
      <4>1. in_step => mouse_byte = <<b0>>
        BY <2>1, <2>5, <3>1, LenOf DEF InPacket
      <4> QED
        BY <1>0, <1>1, <2>2, <3>1, <4>1, GatherIs
    <3>4. Bit(b1, 8) \/ mouse_cycle' # 1
      BY <1>0, <1>1, <2>2, <3>1, GatherIs, LenOf DEF MouseTypes, mouse_cycle
    <3>5. InPacket(b0, b1, b2)'
      BY <3>1, <3>2, <3>3, <3>4 DEF InPacket
    <3> QED
      BY <1>0, <3>5 DEF MouseInv
  <2>6. CASE wire = <<b2>>
    <3>1. Head(wire) = b2 /\ wire' = <<>> /\ Len(wire) = 1
      BY <1>1, <2>6, TailOf, LenOf
    <3>2. packet' = <<>> /\ in_step' = (in_step \/ Calm)
      BY <1>1, <3>1
    <3>3. in_step => mouse_byte' = <<>>
      <4>1. in_step => mouse_byte = <<b0, b1>>
        BY <2>1, <2>6, <3>1, LenOf DEF InPacket
      <4> QED
        BY <1>0, <1>1, <2>2, <3>1, <4>1, GatherIs
    <3>4. Calm => mouse_byte' = <<>>
      <4> SUFFICES ASSUME Calm PROVE mouse_byte' = <<>>
        OBVIOUS
      <4>1. ~Bit(b2, 8) /\ mouse_cycle # 1
        BY <2>1, <2>3, <2>6 DEF InPacket
      <4> QED
        BY <1>0, <1>1, <2>2, <2>c, <3>1, <4>1, GatherIs
    <3> QED
      BY <1>0, <3>1, <3>2, <3>3, <3>4 DEF MouseInv
  <2> QED
    BY <2>1, <2>4, <2>5, <2>6 DEF InPacket
<1> QED
  BY <1>2, <1>3

LEMMA MouseNextInv == MouseInv /\ [MouseNext]_mouseVars => MouseInv'
<1> SUFFICES ASSUME MouseInv, [MouseNext]_mouseVars PROVE MouseInv'
  OBVIOUS
<1>1. ASSUME NEW b0 \in Flags, NEW b1 \in Data, NEW b2 \in Data, Packet(b0, b1, b2)
      PROVE  MouseInv'
  <2>1. b0 \in Byte /\ b1 \in Byte /\ b2 \in Byte
    BY MouseAssumption DEF Byte
  <2>2. /\ wire' = <<b0, b1, b2>> /\ packet' = <<b0, b1, b2>> /\ wire = <<>>
        /\ UNCHANGED <<x, y, buttons, mouse_byte, lost, in_step>>
    BY <1>1 DEF Packet
  <2>3. wire' \in Seq(Byte) /\ Len(wire') <= 4
    BY <2>1, <2>2
  <2>4. MouseTypes'
    BY <2>2, <2>3 DEF MouseTypes, MouseInv
  <2>5. in_step => mouse_byte = <<>>
    BY <2>2, LenOf DEF MouseInv, InPacket
  <2>6. wire' # <<b2>>
    BY <2>2, LenOf
  <2>7. InPacket(b0, b1, b2)'
    BY <2>2, <2>5, <2>6 DEF InPacket
  <2> QED
    BY <2>4, <2>7 DEF MouseInv
<1>2. CASE Lose
  <2>1. wire' \in Seq(Byte) /\ Len(wire') <= 4
    BY <1>2, Shortens DEF Lose, MouseInv, MouseTypes
  <2>2. lost' \in 0 .. MaxLost
    BY <1>2, MouseAssumption DEF Lose, MouseInv, MouseTypes
  <2> QED
    BY <1>2, <2>1, <2>2 DEF Lose, MouseInv, MouseTypes
<1>3. CASE Handler
  BY <1>3, HandlerInv
<1>4. CASE UNCHANGED mouseVars
  BY <1>4 DEF mouseVars, MouseInv, MouseTypes, mouse_cycle, InPacket
<1> QED
  BY <1>1, <1>2, <1>3, <1>4 DEF MouseNext

LEMMA AlwaysMouseInv == MouseSpec => []MouseInv
<1> QED
  BY MouseInitInv, MouseNextInv, PTL DEF MouseSpec

\* Out of step at boot or after any loss, the handler is in step again after one
\* calm packet and stays so until the next loss, for every set of packets and
\* every number of losses (mouse.c:69-91).
THEOREM FindsItsPlace == MouseSpec => []Resync
<1>1. MouseInv => Resync
  <2> SUFFICES ASSUME MouseInv PROVE Resync
    OBVIOUS
  <2>1. /\ mouse_byte \in Seq(0 .. 255)
        /\ mouse_cycle \in 0 .. 2
    <3>1. CASE mouse_byte = <<>>
      BY <3>1, LenOf DEF mouse_cycle
    <3>2. ASSUME NEW a \in Byte, mouse_byte = <<a>>
          PROVE  mouse_byte \in Seq(Byte) /\ mouse_cycle \in 0 .. 2
      BY <3>2, LenOf DEF mouse_cycle
    <3>3. ASSUME NEW a \in Byte, NEW b \in Byte, mouse_byte = <<a, b>>
          PROVE  mouse_byte \in Seq(Byte) /\ mouse_cycle \in 0 .. 2
      BY <3>3, LenOf DEF mouse_cycle
    <3> QED
      BY <3>1, <3>2, <3>3 DEF MouseInv, MouseTypes, Byte
  <2>2. MouseTypeOK
    BY <2>1 DEF MouseTypeOK, MouseInv, MouseTypes
  <2>3. ASSUME in_step PROVE mouse_cycle = (3 - Len(wire)) % 3
    <3>1. \/ mouse_cycle = 0 /\ Len(wire) \in {0, 3}
          \/ mouse_cycle = 1 /\ Len(wire) = 2
          \/ mouse_cycle = 2 /\ Len(wire) = 1
      BY <2>3, LenOf DEF MouseInv, InPacket, mouse_cycle
    <3>2. (3 - 0) % 3 = 0 /\ (3 - 3) % 3 = 0 /\ (3 - 2) % 3 = 1 /\ (3 - 1) % 3 = 2
      OBVIOUS
    <3> QED
      BY <3>1, <3>2
  <2> QED
    BY <2>2, <2>3 DEF Resync
<1> QED
  BY <1>1, AlwaysMouseInv, PTL

\* In step, the pointer moves sideways by what the device sent and the buttons are
\* the device's, for every packet (mouse.c:80-86).
THEOREM FollowsTheDevice == MouseSpec => Follows
<1> DEFINE sent == packet[2] - 256 * ((packet[1] \div 16) % 2)
           Moves == (in_step /\ mouse_cycle = 2 /\ mouse_cycle' = 0) =>
                      /\ x' = IF x + sent < 0 THEN 0 ELSE x + sent
                      /\ buttons' = packet[1] % 8
<1>1. MouseInv /\ [MouseNext]_mouseVars => [Moves]_mouseVars
  <2> SUFFICES ASSUME MouseInv, [MouseNext]_mouseVars,
                      in_step, mouse_cycle = 2, mouse_cycle' = 0
               PROVE  /\ x' = IF x + sent < 0 THEN 0 ELSE x + sent
                      /\ buttons' = packet[1] % 8
    OBVIOUS
  <2>1. Handler
    <3>1. mouse_byte' # mouse_byte
      BY DEF mouse_cycle
    <3> QED
      BY <3>1 DEF MouseNext, Packet, Lose, mouseVars
  <2>2. mouse_byte # <<>> /\ \A a : mouse_byte # <<a>>
    BY LenOf DEF mouse_cycle
  <2>3. PICK b0 \in Flags, b1 \in Data, b2 \in Data :
               packet = <<b0, b1, b2>> /\ mouse_byte = <<b0, b1>>
    BY <2>2 DEF MouseInv, InPacket
  <2>4. b0 \in Byte /\ b1 \in Byte /\ b2 \in Byte /\ x \in Nat /\ y \in Nat
    BY MouseAssumption DEF Byte, MouseInv, MouseTypes
  <2>5. x' = AtLeastZero(x + Dx(b0, b1)) /\ buttons' = b0 % 8
    BY <2>1, <2>3 DEF Handler
  <2>6. sent = Dx(b0, b1) /\ packet[1] = b0
    <3>1. Displaces(b0, b1, b2)
      BY <2>4, MoveIs
    <3> QED
      BY <2>3, <3>1 DEF Displaces
  <2> HIDE DEF sent
  <2> QED
    BY <2>5, <2>6 DEF AtLeastZero
<1> QED
  BY <1>1, AlwaysMouseInv, PTL DEF MouseSpec, Follows

\* No packet, in step or out of it, moves the pointer down (mouse.c:81-84).
THEOREM PointerNeverDescends == MouseSpec => NeverDescends
<1>1. MouseInv /\ [MouseNext]_mouseVars => [y' <= y]_mouseVars
  <2> SUFFICES ASSUME MouseInv, [MouseNext]_mouseVars PROVE y' <= y
    OBVIOUS
  <2>1. x \in Nat /\ y \in Nat
    BY DEF MouseInv, MouseTypes
  <2>2. CASE Handler /\ mouse_cycle = 2
    <3>1. PICK a \in Byte, b \in Byte : mouse_byte = <<a, b>>
      BY <2>2, CycleIs DEF MouseInv
    <3>2. Head(wire) \in Byte
      BY <2>2, Shortens DEF MouseInv, MouseTypes, Handler
    <3>3. y' = AtLeastZero(y + Dy(a, Head(wire)))
      BY <2>2, <3>1 DEF Handler
    <3>4. Displaces(a, b, Head(wire))
      BY <2>1, <3>1, <3>2, MoveIs
    <3> QED
      BY <2>1, <3>3, <3>4 DEF Displaces
  <2>3. CASE ~(Handler /\ mouse_cycle = 2)
    BY <2>1, <2>3 DEF MouseNext, Packet, Lose, Handler, mouseVars
  <2> QED
    BY <2>2, <2>3
<1> QED
  BY <1>1, AlwaysMouseInv, PTL DEF MouseSpec, NeverDescends
=============================================================================
