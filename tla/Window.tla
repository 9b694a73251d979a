------------------------------- MODULE Window -------------------------------
(***************************************************************************)
(* The window table of window.c: fixed slots, ids that are never used      *)
(* twice, one focus, and what the mouse does to windows.  The operators    *)
(* take the value of the table and give the new one: desktop.c makes       *)
(* several calls in one pass.                                              *)
(*                                                                         *)
(* visible is left out: wm_create sets it with the id and wm_destroy       *)
(* clears it with the id.  So are the pixels (content) and the colours.    *)
(***************************************************************************)
EXTENDS Integers, FiniteSets

CONSTANT
    MAX_WINDOWS  \* slots (32)

ASSUME WindowAssumption == MAX_WINDOWS \in Nat \ {0}

VARIABLE
    wm  \* [windows, next_id, top_window]; window.c's three statics

Slots == 0 .. MAX_WINDOWS - 1

WIN_TITLE_H == 24

Unused ==
    [id |-> 0, app |-> "none", x |-> 0, y |-> 0, w |-> 0, h |-> 0,
     focused |-> FALSE, dragging |-> FALSE, off_x |-> 0, off_y |-> 0]

WmInit == wm = [windows |-> [s \in Slots |-> Unused], next_id |-> 1, top_window |-> -1]

Live(m) == {s \in Slots : m.windows[s].id # 0}

\* wm_get_window: its slot, if any.
WithId(m, id) == {s \in Live(m) : m.windows[s].id = id}

-----------------------------------------------------------------------------
\* wm_set_focus on the window in slot s.  Free slots keep what they hold.
Focused(win, r, s) ==
    IF r = s THEN [win EXCEPT !.focused = TRUE]
    ELSE IF win.id # 0 THEN [win EXCEPT !.focused = FALSE]
    ELSE win

SetFocus(m, s) ==
    [m EXCEPT !.windows = [r \in Slots |-> Focused(m.windows[r], r, s)],
              !.top_window = s]

NewWindow(id, app, box) ==
    [id |-> id, app |-> app, x |-> box.x, y |-> box.y, w |-> box.w, h |-> box.h,
     focused |-> FALSE, dragging |-> FALSE, off_x |-> 0, off_y |-> 0]

Full(m) == Live(m) = Slots

FirstFree(m) == CHOOSE s \in Slots \ Live(m) : \A r \in Slots \ Live(m) : s <= r

\* Mutant: a window is given the number of windows there are.
CreateCounted(m, app, box) ==
    LET s == FirstFree(m)
    IN  IF Full(m) THEN m
        ELSE SetFocus([m EXCEPT !.windows[s] =
                                  NewWindow(Cardinality(Live(m)) + 1, app, box),
                                !.next_id = @ + 1], s)

\* wm_create: its answer is the id m.next_id, or -1 when the table is full.
Create(m, app, box) ==
    LET s == FirstFree(m)
    IN  IF Full(m) THEN m
        ELSE SetFocus([m EXCEPT !.windows[s] = NewWindow(m.next_id, app, box),
                                !.next_id = @ + 1], s)

\* Mutant: top_window is left alone.
DestroyTop(m, s) == [m EXCEPT !.windows[s].id = 0]

\* wm_destroy of the window in slot s: nobody else gets the focus, and the slot
\* keeps its flags.
Destroy(m, s) ==
    [m EXCEPT !.windows[s].id = 0,
              !.top_window = IF @ = s THEN -1 ELSE @]

-----------------------------------------------------------------------------
(* wm_handle_mouse, with the pointer at p and the left button down or not. *)

Inside(win, p) ==
    /\ win.x <= p.x /\ p.x < win.x + win.w
    /\ win.y <= p.y /\ p.y < win.y + win.h

Under(m, p) == {s \in Live(m) : Inside(m.windows[s], p)}

\* Mutant: from the first to the last.
HitFirst(m, p) == CHOOSE s \in Under(m, p) : \A r \in Under(m, p) : s <= r

\* The slots are searched from the last to the first.
Hit(m, p) == CHOOSE s \in Under(m, p) : \A r \in Under(m, p) : r <= s

OnCloseBox(win, p) ==
    LET bx == win.x + win.w - 20
    IN  bx <= p.x /\ p.x < bx + 16 /\ win.y <= p.y /\ p.y < win.y + 16

OnTitle(win, p) == p.y < win.y + WIN_TITLE_H

\* Dragging starts on the title.
Grab(win, p) ==
    IF OnTitle(win, p)
    THEN [win EXCEPT !.dragging = TRUE, !.off_x = p.x - win.x, !.off_y = p.y - win.y]
    ELSE win

NotNegative(n) == IF n < 0 THEN 0 ELSE n

MoveTo(win, p) ==
    IF win.id # 0 /\ win.dragging
    THEN [win EXCEPT !.x = NotNegative(p.x - win.off_x),
                     !.y = NotNegative(p.y - win.off_y)]
    ELSE win

Dragged(m, p) == [m EXCEPT !.windows = [s \in Slots |-> MoveTo(m.windows[s], p)]]

\* Mutant: only the window on top is let go.
DroppedTop(m) ==
    [m EXCEPT !.windows = [s \in Slots |->
        IF s = m.top_window THEN [m.windows[s] EXCEPT !.dragging = FALSE] ELSE m.windows[s]]]

\* The button is up.
Dropped(m) ==
    [m EXCEPT !.windows = [s \in Slots |-> [m.windows[s] EXCEPT !.dragging = FALSE]]]

\* A click on a window; the close box ends the call.
Clicked(m, s, p) ==
    LET f == SetFocus(m, s)
    IN  IF OnCloseBox(m.windows[s], p)
        THEN Destroy(f, s)
        ELSE Dragged([f EXCEPT !.windows[s] = Grab(@, p)], p)

HandleMouse(m, p, down, prev) ==
    IF ~down THEN Dropped(m)
    ELSE IF ~prev /\ Under(m, p) # {} THEN Clicked(m, Hit(m, p), p)
    ELSE Dragged(m, p)
=============================================================================
