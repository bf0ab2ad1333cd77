----------------------------- MODULE MCCanTpLink -----------------------------
(* Small instance of CanTpLink for TLC.                                    *)
EXTENDS CanTpLink

=============================================================================
