------------------------------ MODULE MCMouse ------------------------------
(* Packets left and right, up and down, with and without the left button,   *)
(* whose movement bytes look like first bytes or not; two bytes are lost.   *)
EXTENDS Mouse

MCFlags == {8, 9, 24, 40}

MCData == {0, 1, 8, 255}
=============================================================================
