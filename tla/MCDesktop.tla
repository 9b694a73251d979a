----------------------------- MODULE MCDesktop -----------------------------
(* The mouse on a terminal's and a file manager's windows, their title bars *)
(* and close boxes, two icons, the start button and Shutdown, on a screen   *)
(* low enough for the mouse to reach them all (Mouse!NeverDescends).        *)
EXTENDS Desktop

At(a, b) == [x |-> a, y |-> b]

MCPointer ==
    { At(30, 30),    \* icon of the terminal
      At(30, 90),    \* icon of the file manager
      At(300, 70),   \* title of a terminal where it opens
      At(625, 65),   \* close box of a terminal where it opens
      At(555, 85),   \* close box of a file manager, inside a terminal
      At(10, 380),   \* start button
      At(20, 355) }  \* menu: Shutdown

\* Over the icons: a click there grabs the window moved there and opens another.
MCHeld == {At(30, 30)}
=============================================================================
