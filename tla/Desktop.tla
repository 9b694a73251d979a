------------------------------ MODULE Desktop ------------------------------
(***************************************************************************)
(* The desktop: windows, the terminals in some of them, the icons and the  *)
(* start menu, driven by desktop_update, which hands the queued characters *)
(* to the active terminal and then looks at the mouse.                     *)
(*                                                                         *)
(* The mouse handler can run between any two reads of the mouse state: a   *)
(* pass may see any position and any state of the left button, and misses  *)
(* a press and release that fall between two passes.                       *)
(***************************************************************************)
EXTENDS Window, Terminal, Sequences

CONSTANTS
    MAX_TERMINALS,  \* 4
    SCREEN_H,       \* gfx_height()
    Pointer,        \* positions [x, y] of the mouse
    Held,           \* bound: those it is moved to with the button down
    Outputs,        \* lengths of what commands print
    MaxId           \* bound: window ids given

ASSUME DesktopAssumption ==
    /\ MAX_TERMINALS \in Nat \ {0}
    /\ SCREEN_H \in Nat
    /\ Held \subseteq Pointer /\ Pointer \subseteq [x : Int, y : Int]
    /\ Outputs \subseteq Nat
    /\ MaxId \in Nat

VARIABLES
    terminals,
    active_terminal,  \* an index, or NoTerminal
    app_win,          \* app_file_mgr_win to app_store_win: the last window of each
    show_start_menu,
    prev,             \* prev_buttons & 1
    on,               \* FALSE after Shutdown
    closed            \* history: a window has been closed

vars == <<wm, terminals, active_terminal, app_win, show_start_menu, prev, on, closed>>

Terms == 0 .. MAX_TERMINALS - 1
NoTerminal == -1

Idle == [active |-> FALSE, window_id |-> 0, buf_len |-> 0, line_len |-> 0]

\* In the order of the icons and of the menu.
AppOrder == <<"Terminal", "Files", "Browser", "Editor", "Viewer", "Fastfetch",
              "Mobile", "AppStore">>

Apps == {AppOrder[i] : i \in 1 .. 8}

Box(a, b, c, d) == [x |-> a, y |-> b, w |-> c, h |-> d]

\* The windows action_terminal to action_store create.
Place(app) ==
    CASE app = "Terminal"  -> Box(120, 60, 520, 380)
      [] app = "Files"     -> Box(150, 80, 420, 340)
      [] app = "Browser"   -> Box(180, 70, 480, 360)
      [] app = "Editor"    -> Box(200, 60, 460, 380)
      [] app = "Viewer"    -> Box(220, 80, 400, 320)
      [] app = "Fastfetch" -> Box(250, 50, 360, 340)
      [] app = "Mobile"    -> Box(350, 60, 200, 360)
      [] OTHER             -> Box(200, 60, 420, 380)

ICON_SIZE == 48
TASKBAR_H == 32

\* Five icons in the first column, three in the second.
IconBox(i) ==
    IF i <= 5 THEN Box(20, 60 * i - 40, ICON_SIZE, ICON_SIZE)
    ELSE Box(90, 60 * (i - 5) - 40, ICON_SIZE, ICON_SIZE)

Menu == Box(4, SCREEN_H - TASKBAR_H - 200, 161, 201)

\* (my - menu_y - 4) / 22 rounds towards 0: items 0 to 8, 8 is Shutdown.
MenuItem(p) ==
    IF p.y < Menu.y + 4 THEN 0 ELSE (p.y - Menu.y - 4) \div 22

Init ==
    /\ WmInit
    /\ terminals = [t \in Terms |-> Idle]
    /\ active_terminal = NoTerminal
    /\ app_win = [app \in Apps \ {"Terminal"} |-> 0]
    /\ show_start_menu = FALSE
    /\ prev = FALSE
    /\ on = TRUE
    /\ closed = FALSE

-----------------------------------------------------------------------------
(* Terminals.                                                              *)

IdleTerms == {t \in Terms : ~terminals[t].active}

\* terminal_create, when one is idle: a terminal is never given back, so with all
\* of them in use the window stays without one.
TerminalCreate(id) ==
    LET t == CHOOSE u \in IdleTerms : \A v \in IdleTerms : u <= v
    IN  /\ terminals' = [terminals EXCEPT ![t] =
                           [active |-> TRUE, window_id |-> id,
                            buf_len |-> Puts(0, PROMPT), line_len |-> 0]]
        /\ active_terminal' = t

\* get_terminal_for_window, NoTerminal when is_terminal_window is false.
Owners(id) == {t \in Terms : terminals[t].active /\ terminals[t].window_id = id}

TerminalFor(id) ==
    IF Owners(id) = {} THEN NoTerminal
    ELSE CHOOSE t \in Owners(id) : \A u \in Owners(id) : t <= u

\* A character for the active terminal: Enter, backspace or any other.
Keypress(t, after) ==
    /\ on
    /\ t = active_terminal
    /\ terminals[t].buf_len <= TERM_BUF_SIZE
    /\ after \in Enter(terminals[t], Outputs) \cup {Erase(terminals[t]), Type(terminals[t])}
    /\ terminals' = [terminals EXCEPT ![t] = after]
    /\ UNCHANGED <<wm, active_terminal, app_win, show_start_menu, prev, on, closed>>

-----------------------------------------------------------------------------
(* The mouse.                                                              *)

\* The windows desktop.c looks for by number, as if ids were slot numbers.
Numbered(m) == {m.windows[s].id : s \in Live(m)} \cap 1 .. MAX_WINDOWS

\* Mutant: the window is the one the mouse hits.
FirstUnderBySlot(m, p) == IF Under(m, p) = {} THEN 0 ELSE m.windows[Hit(m, p)].id

\* The window a click gives the keyboard to: the lowest id under the pointer,
\* 0 if there is none.
FirstUnder(m, p) ==
    LET ids == {m.windows[s].id : s \in Under(m, p)} \cap 1 .. MAX_WINDOWS
    IN  IF ids = {} THEN 0 ELSE CHOOSE i \in ids : \A j \in ids : i <= j

\* action_*: m is the table as wm_handle_mouse left it.
Open(m, app) ==
    /\ Full(m) \/ m.next_id <= MaxId
    /\ wm' = Create(m, app, Place(app))
    /\ app_win' = IF Full(m) \/ app = "Terminal" THEN app_win
                  ELSE [app_win EXCEPT ![app] = m.next_id]

\* The click as far as the keyboard is concerned, with what is opened.
Keyboard(m, p, app) ==
    LET id == FirstUnder(m, p)
    IN  IF app = "Terminal" /\ ~Full(m) /\ IdleTerms # {}
        THEN TerminalCreate(m.next_id)
        ELSE /\ active_terminal' = IF id = 0 THEN active_terminal ELSE TerminalFor(id)
             /\ UNCHANGED terminals

OnTaskbar(p) == p.y >= SCREEN_H - TASKBAR_H

\* What a click opens: the icon or the menu item under the pointer, windows or
\* not; a point on no icon opens nothing.
IconsAt(p) == {i \in 1 .. 8 : Inside(IconBox(i), p)}

Opens(p) ==
    IF OnTaskbar(p) THEN "none"
    ELSE IF show_start_menu
    THEN IF Inside(Menu, p) /\ MenuItem(p) < 8 THEN AppOrder[MenuItem(p) + 1] ELSE "none"
    ELSE IF IconsAt(p) = {} THEN "none"
    ELSE AppOrder[CHOOSE i \in IconsAt(p) : TRUE]

OnShutdown(p) ==
    ~OnTaskbar(p) /\ show_start_menu /\ Inside(Menu, p) /\ MenuItem(p) = 8

\* The rest of the pass, and every pass after it, is not reached.
Shutdown(p) ==
    /\ on
    /\ ~prev
    /\ OnShutdown(p)
    /\ LET m == HandleMouse(wm, p, TRUE, FALSE)
       IN  wm' = m /\ Keyboard(m, p, "none")
    /\ on' = FALSE
    /\ UNCHANGED <<app_win, show_start_menu, prev, closed>>

Click(p) ==
    LET m == HandleMouse(wm, p, TRUE, FALSE)
        app == Opens(p)
    IN  /\ Keyboard(m, p, app)
        /\ IF app = "none"
           THEN wm' = m /\ UNCHANGED app_win
           ELSE Open(m, app)
        /\ show_start_menu' = (OnTaskbar(p) /\ p.x \in 4 .. 64 /\ ~show_start_menu)
        /\ closed' = (closed \/ Live(m) # Live(wm))
        /\ UNCHANGED on

\* desktop_handle_input.
HandleInput(p, down) ==
    /\ on
    /\ down /\ prev => p \in Held
    /\ ~(down /\ ~prev /\ OnShutdown(p))
    /\ prev' = down
    /\ IF down /\ ~prev
       THEN Click(p)
       ELSE /\ wm' = HandleMouse(wm, p, down, prev)
            /\ UNCHANGED <<terminals, active_terminal, app_win, show_start_menu, on, closed>>

Key ==
    \E t \in Terms :
      \E after \in Enter(terminals[t], Outputs) \cup {Erase(terminals[t]), Type(terminals[t])} :
        Keypress(t, after)

Next ==
    \/ Key
    \/ \E p \in Pointer, down \in BOOLEAN : HandleInput(p, down)
    \/ \E p \in Pointer : Shutdown(p)

Spec == Init /\ [][Next]_vars

-----------------------------------------------------------------------------
(* Properties.                                                             *)

WindowType ==
    [id : Nat, app : Apps \cup {"none"}, x : Int, y : Int, w : Nat, h : Nat,
     focused : BOOLEAN, dragging : BOOLEAN, off_x : Int, off_y : Int]

TerminalType ==
    [active : BOOLEAN, window_id : Nat, buf_len : Nat, line_len : 0 .. TERM_LINE_SIZE - 1]

\* Types: the line of a terminal keeps room for its '\0' (desktop.c:160).
TypeOK ==
    /\ wm \in [windows : [Slots -> WindowType], next_id : Nat \ {0},
               top_window : Slots \cup {-1}]
    /\ terminals \in [Terms -> TerminalType]
    /\ active_terminal \in Terms \cup {NoTerminal}
    /\ app_win \in [Apps \ {"Terminal"} -> Nat]
    /\ {show_start_menu, prev, on, closed} \subseteq BOOLEAN

\* Ids are those of windows once created, and no two windows share one: a
\* terminal, the taskbar and app_win find their window by it (window.c:17-45).
IdsUnique ==
    /\ TypeOK
    /\ \A s \in Live(wm) :
         /\ wm.windows[s].id < wm.next_id
         /\ \A r \in Live(wm) : wm.windows[r].id = wm.windows[s].id => r = s

\* The focus and top_window agree: the window on top is there and is the only
\* one focused; with no top window none is.  wm_destroy takes the focus along
\* and leaves the flag in the free slot (window.c:47-72).
OneFocus ==
    /\ wm.top_window # -1 => wm.top_window \in Live(wm)
    /\ \A s \in Live(wm) : wm.windows[s].focused <=> s = wm.top_window

\* Only a window that is there is dragged, one at a time, and only while the
\* button has been down since it was grabbed: a window closed by the click that
\* would have grabbed it is not (window.c:142-166).
DragHeld ==
    on => \A s \in Slots : wm.windows[s].dragging =>
      /\ prev
      /\ s \in Live(wm)
      /\ \A r \in Slots : wm.windows[r].dragging => r = s

\* A terminal belongs to one window for good; a terminal window goes without a
\* terminal only when all of them have been given out, to windows that may be
\* long closed; characters go to a terminal in use (desktop.c:123-140).
TerminalsOwned ==
    /\ active_terminal # NoTerminal => terminals[active_terminal].active
    /\ \A t \in Terms : terminals[t].active =>
         /\ terminals[t].window_id < wm.next_id
         /\ Owners(terminals[t].window_id) = {t}
         /\ \A s \in Live(wm) : wm.windows[s].id = terminals[t].window_id
                                  => wm.windows[s].app = "Terminal"
    /\ \A s \in Live(wm) : wm.windows[s].app = "Terminal" =>
         Owners(wm.windows[s].id) # {} \/ IdleTerms = {}

\* desktop_draw paints by rising id.
TopDrawn(m, p) ==
    LET ids == {m.windows[s].id : s \in Under(m, p)} \cap 1 .. MAX_WINDOWS
    IN  IF ids = {} THEN 0 ELSE CHOOSE i \in ids : \A j \in ids : j <= i

\* Until a window is closed, a click focuses the window that is seen under the
\* pointer, although windows are painted by id (desktop.c:546-561) and searched
\* by slot (window.c:143).
ClickFocusesSeen ==
    [][\A p \in Pointer :
         (HandleInput(p, TRUE) /\ ~prev /\ ~closed' /\ wm'.next_id = wm.next_id
            /\ Under(wm, p) # {})
           => (wm'.windows[wm'.top_window].id = TopDrawn(wm, p))]_vars

\* A terminal whose window has an id past the number of slots gets characters
\* only from its creation to the next click elsewhere: no click brings it back
\* (desktop.c:582-593 compares ids with slot numbers).
LostForGood ==
    [][(active_terminal' \notin {active_terminal, NoTerminal} /\ wm'.next_id = wm.next_id)
         => (terminals[active_terminal'].window_id <= MAX_WINDOWS)]_vars

\* The text of a terminal gets shorter by "clear" only, or when the newline of an
\* Enter was stored over its own length: not by the Enter that fills the buffer,
\* whose '\0' falls outside too (desktop.c:144-146).
TextKept ==
    [][\A t \in Terms :
         (terminals[t].active /\ terminals'[t].buf_len < terminals[t].buf_len)
           => (terminals'[t].buf_len = Cleared \/ terminals[t].buf_len = TERM_BUF_SIZE)]_vars
=============================================================================
