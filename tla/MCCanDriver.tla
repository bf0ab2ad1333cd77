---------------------------- MODULE MCCanDriver ----------------------------
(* Small instance of CanDriver for TLC: two handles, a few bus frames.     *)
EXTENDS CanDriver

============================================================================
