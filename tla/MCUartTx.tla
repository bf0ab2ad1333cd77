------------------------------ MODULE MCUartTx -----------------------------
(* Small instance of UartTx for TLC: a ring of four, two byte values.      *)
EXTENDS UartTx

============================================================================
