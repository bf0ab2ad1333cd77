------------------------------ MODULE MCUartRx -----------------------------
(* Small instance of UartRx for TLC: a ring of four, two byte values.      *)
EXTENDS UartRx

============================================================================
