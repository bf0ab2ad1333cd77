------------------------------ MODULE MCAppImage -----------------------------
(* Small instance of AppImage for TLC: an image of two chunks and a byte,  *)
(* an empty one and one of a single chunk, through a ring that can         *)
(* overflow.                                                               *)
EXTENDS AppImage

MCBefore == <<0, 7, 9, 13>>

=============================================================================
