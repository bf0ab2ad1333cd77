----------------------------- MODULE MCCanTpTx -----------------------------
(* Small instance of CanTpTxNode for TLC: SF up to 2 bytes, FF 2, CF 3.    *)
EXTENDS CanTpTxNode

\* Refused (0, 18), SF (1), FF and one short CF (3), FF and one full block
\* (8), three blocks of which the last is one short CF (16).
MCLengths == {0, 1, 3, 8, 16, 18}

============================================================================
