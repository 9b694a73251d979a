----------------------------- MODULE MCProcess -----------------------------
(* Three slots; a kernel of two pages; a machine whose memory map was read  *)
(* (seven pages above the kernel) and one where it was not (every page     *)
(* clear from page 0 on).                                                  *)
EXTENDS Process

MCPools == { 3 .. 9, 0 .. 6 }

MCNames == {"bin"}
=============================================================================
