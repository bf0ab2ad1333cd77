------------------------------- MODULE UartTx ------------------------------
(***************************************************************************)
(* Serial output: App_QueueUartBytes, called by the main loop, fills the   *)
(* transmit ring and enables the transmit interrupt; the LPUART1 interrupt *)
(* empties the ring and disables itself when it finds nothing.             *)
(*                                                                         *)
(* The interrupt may come between any two stores of the main loop and runs *)
(* to its end, so each of its outcomes is one action.                      *)
(***************************************************************************)
EXTENDS RingBuffer

VARIABLES
    txRing,       \* App_UartTxRing
    txPc,         \* where the main loop stands in App_QueueUartBytes
    block,      \* the bytes of the block it has not pushed yet
    tie,        \* LPUART1->CTRL, transmit interrupt enable
    tdre,       \* LPUART1->STAT, the data register is empty
    queued      \* history: the bytes pushed and not yet sent

txVars == <<txRing, txPc, block, tie, tdre, queued>>

Blocks == UNION {[1..n -> Bytes] : n \in 1..(Capacity - 1)}

TxInit ==
    /\ \E byte \in Bytes : txRing = EmptyRing(byte)
    /\ txPc = "idle" /\ block = << >> /\ queued = << >>
    /\ tie = FALSE /\ tdre = TRUE

----------------------------------------------------------------------------
(* App_QueueUartBytes.  A block with too little room changes nothing.      *)

QueueBlock ==
    /\ txPc = "idle" /\ txPc' = "store"
    /\ \E b \in Blocks : GetFree(txRing) >= Len(b) /\ block' = b
    /\ UNCHANGED <<txRing, tie, tdre, queued>>

StoreNext ==
    /\ txPc = "store" /\ txPc' = "publish"
    /\ ~IsFull(txRing)
    /\ txRing' = StoreByte(txRing, Head(block))
    /\ UNCHANGED <<block, tie, tdre, queued>>

PublishNext ==
    /\ txPc = "publish"
    /\ txPc' = IF Len(block) > 1 THEN "store" ELSE "enable"
    /\ txRing' = AdvanceHead(txRing)
    /\ queued' = Append(queued, Head(block))
    /\ block' = Tail(block)
    /\ UNCHANGED <<tie, tdre>>

\* mutant: the interrupt is enabled only for the first byte in the ring
EnableForFirst ==
    /\ txPc = "enable" /\ txPc' = "idle"
    /\ tie' = (tie \/ GetCount(txRing) = 1)
    /\ UNCHANGED <<txRing, block, tdre, queued>>

\* LPUART1_EnableTxInterrupt.  It reads CTRL and writes it back with TIE:
\* whatever the interrupt did to TIE between the two, TIE ends up set.
EnableTxInterrupt ==
    /\ txPc = "enable" /\ txPc' = "idle"
    /\ tie' = TRUE
    /\ UNCHANGED <<txRing, block, tdre, queued>>

----------------------------------------------------------------------------
(* LPUART1_RxTx_IRQHandler, transmit side, with App_UartTxCallback         *)

\* mutant: the interrupt disables itself after every byte
IsrSendsOnce ==
    /\ tie /\ tdre
    /\ ~IsEmpty(txRing)
    /\ txRing' = AdvanceTail(txRing)
    /\ queued' = Tail(queued)
    /\ tdre' = FALSE /\ tie' = FALSE
    /\ UNCHANGED <<txPc, block>>

IsrSends ==
    /\ tie /\ tdre
    /\ ~IsEmpty(txRing)
    /\ txRing' = AdvanceTail(txRing)
    /\ queued' = Tail(queued)
    /\ tdre' = FALSE
    /\ UNCHANGED <<txPc, block, tie>>

IsrDisables ==
    /\ tie /\ tdre
    /\ IsEmpty(txRing)
    /\ tie' = FALSE
    /\ UNCHANGED <<txRing, txPc, block, tdre, queued>>

\* The hardware moves the byte to the shift register.
HwShifts ==
    /\ ~tdre /\ tdre' = TRUE
    /\ UNCHANGED <<txRing, txPc, block, tie, queued>>

TxMainLoop == StoreNext \/ PublishNext \/ EnableTxInterrupt

TxIsr == IsrSends \/ IsrDisables

TxNext == QueueBlock \/ TxMainLoop \/ TxIsr \/ HwShifts

TxSpec == TxInit /\ [][TxNext]_txVars

\* App_QueueUartBytes has no wait, a pending interrupt is taken, and the
\* UART shifts out at its baud rate; nothing says when a block is queued.
TxFairSpec == TxSpec /\ WF_txVars(TxMainLoop) /\ WF_txVars(TxIsr) /\ WF_txVars(HwShifts)

----------------------------------------------------------------------------
(* Properties.                                                             *)

TxTypeOK ==
    /\ txRing \in Rings
    /\ txPc \in {"idle", "store", "publish", "enable"}
    /\ block \in Blocks \cup {<< >>}
    /\ tie \in BOOLEAN /\ tdre \in BOOLEAN
    /\ queued \in Seq(Bytes) /\ Len(queued) < Capacity

(* What the interrupt will send is what the main loop pushed, in order and *)
(* once, wherever in a push the interrupt comes and the indices wrap.      *)
TxRingIsFifo == Contents(txRing) = queued

(* The room found at the start is still there for the whole block: no push *)
(* fails half-way, which would leave the first half of a line queued.      *)
BlockFits == txPc = "store" => GetFree(txRing) >= Len(block) /\ ~IsFull(txRing)

(* No lost wake-up: when the main loop is out of App_QueueUartBytes, bytes *)
(* in the ring have their interrupt enabled, although the interrupt may    *)
(* have disabled itself between the pushes and the enable.                 *)
NoLostWakeup == txPc = "idle" /\ ~IsEmpty(txRing) => tie

(* Bytes keep leaving as long as there are any.                            *)
OutputDrains == []<>(queued = << >>) \/ []<><<IsrSends>>_txVars

============================================================================
