----------------------------- MODULE MCCanTpRx -----------------------------
(* Small instance of CanTpRxNode for TLC: SF up to 2 bytes, FF 2, CF 3.    *)
EXTENDS CanTpRxNode

\* SF (2), FF and one short CF (4), three blocks (16), too long (18).
MCLengths == {0, 2, 4, 16, 18}

MCHeads == {100}

============================================================================
