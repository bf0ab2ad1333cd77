------------------------------- MODULE UartRx ------------------------------
(***************************************************************************)
(* Serial input of the Master: the LPUART1 interrupt pushes each byte into *)
(* the receive ring (App_UartRxCallback); the main loop pops headers and   *)
(* chunks (App_PrepareImageChunk) and clears the ring when it changes the  *)
(* loopback mode (App_SetCanTpLoopbackMode).                               *)
(*                                                                         *)
(* The interrupt may come between any two accesses of the main loop.  It   *)
(* samples the status register once and handles what it sampled, and bytes *)
(* may arrive between the two.                                             *)
(***************************************************************************)
EXTENDS RingBuffer

CONSTANT MaxChunk           \* the most bytes the main loop takes at a time

ASSUME ChunkConfig == MaxChunk \in 1..(Capacity - 1)

VARIABLES
    rxRing,       \* App_UartRxRing
    rxPc,         \* where the main loop stands
    left,       \* the bytes it still pops
    got,        \* the byte it read from the ring last
    port,       \* LPUART1 data and status: RDRF, OR and the received byte
    isr,        \* the status the interrupt sampled, or "none"
    pushed      \* history: the bytes pushed and not yet popped or cleared

rxVars == <<rxRing, rxPc, left, got, port, isr, pushed>>

RxInit ==
    /\ \E byte \in Bytes :
          /\ rxRing = EmptyRing(byte) /\ got = byte
          /\ port = [rdrf |-> FALSE, overrun |-> FALSE, byte |-> byte]
    /\ rxPc = "idle" /\ left = 0 /\ pushed = << >>
    /\ isr = "none"

----------------------------------------------------------------------------
(* The UART: a byte that finds the last one unread sets OR, and while OR   *)
(* is set no byte is stored.  A byte lost changes nothing else.            *)

HwByte ==
    /\ ~port.overrun
    /\ \E byte \in Bytes :
          port' = IF port.rdrf THEN [port EXCEPT !.overrun = TRUE]
                  ELSE [port EXCEPT !.rdrf = TRUE, !.byte = byte]
    /\ UNCHANGED <<rxRing, rxPc, left, got, isr, pushed>>

----------------------------------------------------------------------------
(* LPUART1_RxTx_IRQHandler, receive side.  RIE is set and ORIE is not: OR  *)
(* alone raises no interrupt.                                              *)

IsrEnters ==
    /\ isr = "none" /\ port.rdrf
    /\ isr' = "sampled"
    /\ port' = [port EXCEPT !.overrun = FALSE]
    /\ UNCHANGED <<rxRing, rxPc, left, got, pushed>>

\* App_UartRxCallback; a full ring only counts the overflow.
IsrPushes ==
    /\ isr = "sampled" /\ isr' = "none"
    /\ port' = [port EXCEPT !.rdrf = FALSE]
    /\ rxRing' = IF IsFull(rxRing) THEN rxRing ELSE Push(rxRing, port.byte)
    /\ pushed' = IF IsFull(rxRing) THEN pushed ELSE Append(pushed, port.byte)
    /\ UNCHANGED <<rxPc, left, got>>

RxIsr == IsrEnters \/ IsrPushes

----------------------------------------------------------------------------
(* The main loop, which runs only outside the interrupt                    *)

Main(p, q) == isr = "none" /\ rxPc = p /\ rxPc' = q

\* mutant: a chunk is started one byte early
StartPopsEarly ==
    /\ Main("idle", "read")
    /\ \E n \in 1..MaxChunk : GetCount(rxRing) + 1 >= n /\ left' = n
    /\ UNCHANGED <<rxRing, got, port, isr, pushed>>

\* A header byte (one) or a chunk: popped only when the count allows it.
StartPops ==
    /\ Main("idle", "read")
    /\ \E n \in 1..MaxChunk : GetCount(rxRing) >= n /\ left' = n
    /\ UNCHANGED <<rxRing, got, port, isr, pushed>>

\* mutant: RingBuffer_Pop moves its tail before it reads
PopReadsNext ==
    /\ Main("read", "advance")
    /\ ~IsEmpty(rxRing)
    /\ got' = rxRing.buffer[Advance(rxRing.tail)]
    /\ UNCHANGED <<rxRing, left, port, isr, pushed>>

PopReads ==
    /\ Main("read", "advance")
    /\ ~IsEmpty(rxRing)
    /\ got' = OldestByte(rxRing)
    /\ UNCHANGED <<rxRing, left, port, isr, pushed>>

PopAdvances ==
    /\ Main("advance", IF left > 1 THEN "read" ELSE "idle")
    /\ rxRing' = AdvanceTail(rxRing)
    /\ left' = left - 1
    /\ pushed' = Tail(pushed)
    /\ UNCHANGED <<got, port, isr>>

\* mutant: RingBuffer_Clear resets the tail before the head
ClearTailFirst ==
    /\ Main("idle", "clear")
    /\ rxRing' = [rxRing EXCEPT !.tail = 0]
    /\ pushed' = << >>
    /\ UNCHANGED <<left, got, port, isr>>

ClearHead ==
    /\ Main("idle", "clear")
    /\ rxRing' = [rxRing EXCEPT !.head = 0]
    /\ pushed' = << >>
    /\ UNCHANGED <<left, got, port, isr>>

ClearTail ==
    /\ Main("clear", "idle")
    /\ rxRing' = [rxRing EXCEPT !.tail = 0]
    /\ UNCHANGED <<left, got, port, isr, pushed>>

RxMainLoop == StartPops \/ PopReads \/ PopAdvances \/ ClearHead \/ ClearTail

RxNext == HwByte \/ RxIsr \/ RxMainLoop

RxSpec == RxInit /\ [][RxNext]_rxVars

----------------------------------------------------------------------------
(* Properties.                                                             *)

(* The ring holds what the interrupt pushed and nobody took, in order; an  *)
(* interrupt in the middle of RingBuffer_Clear brings back no old byte and *)
(* what it pushes stays.  It may find the ring full there, with the head   *)
(* at 0 and the tail still at 1, and drop its byte like any overflow: such *)
(* a byte was never pushed.                                                *)
RxRingIsFifo == rxPc # "clear" => Contents(rxRing) = pushed

(* The byte the main loop takes is the oldest one, though the interrupt    *)
(* may write to the ring between the read and the advance.                 *)
PopIsOldest == rxPc = "advance" => pushed # << >> /\ got = Head(pushed)

(* Every pop the count promised succeeds: App_PrepareImageChunk never      *)
(* gives up half a chunk, whose bytes would be lost without a trace.       *)
PopsSucceed == rxPc = "read" => GetCount(rxRing) >= left /\ left > 0

============================================================================
