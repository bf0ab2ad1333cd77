------------------------------ MODULE ComIPdu ------------------------------
(***************************************************************************)
(* One transmit I-PDU of COM (drivers/can/com/Com.c): its entry of         *)
(* Com_TxRuntime and its Com_Buffer.                                       *)
(*                                                                         *)
(* "value" stands for the Signals of the I-PDU's group, which its owner    *)
(* writes together, and "updated" for their Update Bits.  The slots of a   *)
(* buffer do not overlap (Com_ValidateConfig), so the packing of a value   *)
(* into bits is left out.                                                  *)
(***************************************************************************)
EXTENDS Naturals

\* Com_Init and Com_SetTxIPduEnabled: the buffer is zero, the timer at its
\* offset.
EnabledIPdu(zero, offset) ==
    [counter |-> offset, pending |-> FALSE, retryCount |-> 0,
     value |-> zero, updated |-> FALSE]

\* Com_SendSignal, for every Signal of the group.
SendSignals(p, value) == [p EXCEPT !.value = value, !.updated = TRUE]

\* The timer: a period that ends while the I-PDU is pending is coalesced.
Timed(p, period) ==
    IF p.counter > 1 THEN [p EXCEPT !.counter = @ - 1]
    ELSE [p EXCEPT !.counter = period, !.pending = TRUE,
                   !.retryCount = IF p.pending THEN @ ELSE 0]

\* PduR_ComTransmit took the frame.
Accepted(p) ==
    [p EXCEPT !.pending = FALSE, !.retryCount = 0, !.updated = FALSE]

\* mutant: a dropped occurrence takes its Update Bits with it
RefusedForgetting(p, maxRetries) ==
    IF p.retryCount < maxRetries THEN [p EXCEPT !.retryCount = @ + 1]
    ELSE [p EXCEPT !.pending = FALSE, !.retryCount = 0, !.updated = FALSE]

\* It did not: try again in the next tick, or drop the occurrence.
Refused(p, maxRetries) ==
    IF p.retryCount < maxRetries THEN [p EXCEPT !.retryCount = @ + 1]
    ELSE [p EXCEPT !.pending = FALSE, !.retryCount = 0]

============================================================================
