---------------------------- MODULE CanTpRxNode ----------------------------
(***************************************************************************)
(* A receiving ECU: the receive half of CanTp (CanTpRx) driven by the 1 ms *)
(* scheduler of system/System.c, above a CAN driver with one transmit      *)
(* mailbox, below the application loop that empties NodeApp's queue        *)
(* (App_ProcessCanTpRx).  "phase" is the next call of System_RunTask; the  *)
(* bus may bring any frame at any tick, which covers every loss,           *)
(* duplication and sender failure.                                         *)
(***************************************************************************)
EXTENDS CanTpRx, FiniteSets

CONSTANTS
    Lengths,    \* the lengths SF and FF frames declare
    Heads       \* the abstract payloads of SF and FF frames

ASSUME FramesConfig == Lengths \subseteq Nat /\ Heads \cap SequenceNumbers = {}

VARIABLES
    phase,      \* the call System_RunTask makes next
    fcMailbox   \* the FC frame the CAN driver holds, or "NONE"

vars == <<rx, queue, nowMs, dataRxEnabled, phase, fcMailbox>>

Phases == {"write", "read", "cantp", "app"}

Init == RxInit /\ phase = "write" /\ fcMailbox = "NONE"

At(p, q) == phase = p /\ phase' = q

----------------------------------------------------------------------------
(* Can_MainFunction_Write                                                  *)

MailboxBusy ==
    /\ At("write", "read")
    /\ UNCHANGED <<rx, queue, nowMs, dataRxEnabled, fcMailbox>>

ConfirmFc ==
    /\ At("write", "read")
    /\ fcMailbox # "NONE"
    /\ FcConfirmedCts \/ FcConfirmedLate
    /\ fcMailbox' = "NONE"
    /\ UNCHANGED <<nowMs, dataRxEnabled>>

(* Can_MainFunction_Read: at most one frame per tick.  The payload of a CF *)
(* is abstracted to its sequence number.                                   *)

Receiving == At("read", "cantp") /\ UNCHANGED <<nowMs, dataRxEnabled, fcMailbox>>

NothingReceived == Receiving /\ UNCHANGED <<rx, queue>>

SfReceived ==
    /\ Receiving
    /\ \E len \in Lengths, head \in Heads :
          SfIgnored(len) \/ SfNoSlot(len) \/ SfDelivered(len, head)

FfReceived ==
    /\ Receiving
    /\ \E len \in Lengths, head \in Heads :
          FfIgnored(len) \/ FfTooLong(len) \/ FfNoSlot(len) \/ FfAccepted(len, head)

CfReceived ==
    /\ Receiving
    /\ \E sn \in SequenceNumbers :
          CfIgnored(sn) \/ CfWrongSn(sn)
          \/ CfLast(sn, sn) \/ CfBlockEnd(sn, sn) \/ CfInBlock(sn, sn)

(* CanTp_MainFunction                                                      *)

Main(Action(_)) ==
    /\ At("cantp", "app")
    /\ nowMs' = NextMs(nowMs)
    /\ Action(nowMs')
    /\ UNCHANGED dataRxEnabled

MainTimeoutAr   == Main(NArTimeout) /\ UNCHANGED fcMailbox
MainTimeoutCr   == Main(NCrTimeout) /\ UNCHANGED fcMailbox
MainFcRetried   == Main(FcRequestRetried) /\ UNCHANGED fcMailbox
MainFcExhausted == Main(FcRequestExhausted) /\ UNCHANGED fcMailbox
MainIdle        == Main(RxNothingDue) /\ UNCHANGED fcMailbox

\* The one transmit mailbox can only take the frame while it is free.
MainFcAccepted ==
    /\ Main(FcRequestAccepted)
    /\ fcMailbox = "NONE"
    /\ fcMailbox' = rx.fcFrame

(* App_MainFunction: App_ProcessCanTpRx takes N-SDUs while there are any   *)
(* and the UART has room for one; what GetReadyCount saw must be there.    *)

ReadySlots == {i \in Indices : queue.slots[i].state = "READY"}

AppReceive ==
    /\ phase = "app"
    /\ ReadySlots # {} /\ CanReceive(queue)
    /\ queue' = Receive(queue)
    /\ UNCHANGED <<rx, nowMs, dataRxEnabled, phase, fcMailbox>>

AppSetDataRx ==
    /\ At("app", "write")
    /\ \E enabled \in BOOLEAN : SetDataRxEnabled(enabled)
    /\ UNCHANGED fcMailbox

AppDone ==
    /\ At("app", "write")
    /\ UNCHANGED <<rx, queue, nowMs, dataRxEnabled, fcMailbox>>

Next ==
    \/ MailboxBusy \/ ConfirmFc
    \/ NothingReceived \/ SfReceived \/ FfReceived \/ CfReceived
    \/ MainTimeoutAr \/ MainTimeoutCr \/ MainFcRetried \/ MainFcExhausted
    \/ MainIdle \/ MainFcAccepted
    \/ AppReceive \/ AppSetDataRx \/ AppDone

Spec == Init /\ [][Next]_vars

\* The main loop of System_RunTask never stops calling.
FairSpec == Spec /\ WF_vars(Next)

----------------------------------------------------------------------------
(* Properties.                                                             *)

Slot == [state : SlotStates, length : 0..MaxNsdu,
         data : Seq(Heads \cup SequenceNumbers)]

Rx ==
    [state : RxStates, total : 0..MaxNsdu, received : 0..MaxNsdu,
     expectedSN : SequenceNumbers, blockCount : 0..BlockSize,
     buffer : Seq(Heads \cup SequenceNumbers), queueSlotReserved : BOOLEAN,
     fcTxPending : BOOLEAN, fcRequestActive : BOOLEAN,
     fcFrame : FlowStatus \cup {"NONE"}, fcRetryCount : 0..MaxRetries,
     fcAttemptDueMs : Clock, nArActive : BOOLEAN, nArStartMs : Clock,
     nCrActive : BOOLEAN, nCrStartMs : Clock, resultReported : BOOLEAN]

Queue ==
    [slots : [Indices -> Slot], readIndex : Indices, writeIndex : Indices,
     reservedIndex : Indices, reservationActive : BOOLEAN]

TypeOK ==
    /\ rx \in Rx
    /\ queue \in Queue
    /\ nowMs \in Clock
    /\ dataRxEnabled \in BOOLEAN
    /\ phase \in Phases
    /\ fcMailbox \in FlowStatus \cup {"NONE"}

(* CanTp and NodeApp agree on who owns a slot: NodeApp has a reservation   *)
(* exactly while CanTp has a session that must still report, the reserved  *)
(* slot is the one at the write index, and no other slot is RESERVED.  No  *)
(* abort, replacement or timeout leaks a slot or frees one twice.          *)
ReservationOwned ==
    /\ queue.reservationActive <=> rx.queueSlotReserved
    /\ rx.queueSlotReserved <=> rx.state # "IDLE"
    /\ {i \in Indices : queue.slots[i].state = "RESERVED"} =
          IF queue.reservationActive THEN {queue.reservedIndex} ELSE {}
    /\ queue.reservationActive => queue.reservedIndex = queue.writeIndex

(* One FC at a time, and it belongs to the state it is sent in.  While an  *)
(* FC is in progress no CF is taken; a session that waits for CFs has no   *)
(* FC left and its N_Cr running; an OVFLW never belongs to a session; the  *)
(* lock fcTxPending mirrors the driver, through aborts too.                *)
FcResource ==
    /\ rx.fcTxPending <=> fcMailbox # "NONE"
    /\ rx.fcTxPending => rx.fcRequestActive /\ fcMailbox = rx.fcFrame
    /\ rx.state = "FC_PENDING" => rx.fcRequestActive /\ rx.fcFrame = "CTS"
    /\ rx.state = "WAIT_CF" => ~FcBusy(rx) /\ rx.nCrActive
    /\ rx.fcRequestActive /\ rx.fcFrame = "OVFLW" => rx.state = "IDLE"

(* App_ProcessCanTpRx counts READY slots anywhere but reads the one at the *)
(* read index, and an empty slot there halts the ECU (System_Fail): the    *)
(* oldest READY slot is always at the read index.                          *)
ReadyAtReadIndex == ReadySlots # {} => CanReceive(queue)

(* Reception is switched off only between sessions, so a node that takes   *)
(* no data keeps no slot and owes no FC.                                   *)
DisabledIsQuiet == ~dataRxEnabled => rx.state = "IDLE" /\ ~FcBusy(rx)

(* A complete N-SDU: the head and then every CF, in sequence.              *)
WholeNsdu(m) ==
    /\ Len(m.data) = SegmentCount(m.length)
    /\ m.data[1] \in Heads
    /\ \A i \in 2..Len(m.data) : m.data[i] = (i - 1) % SnModulus

\* The N-SDUs from the read index on, as the abstract queue sees them.
ReadyFifo ==
    [i \in 1..Cardinality(ReadySlots) |->
        LET slot == queue.slots[(queue.readIndex + i - 1) % QueueSize]
        IN  [length |-> slot.length, data |-> slot.data]]

Abstract == INSTANCE NsduQueue WITH
    fifo <- ReadyFifo, Capacity <- QueueSize, Whole <- WholeNsdu

(* The slots, indices and the reassembly implement the abstract queue:     *)
(* only whole N-SDUs are delivered, in order, never over unread ones.      *)
ImplementsNsduQueue == Abstract!Spec

FfTaken == FfReceived /\ rx.state # "FC_PENDING" /\ rx'.state = "FC_PENDING"

(* No session holds its slot for ever: unless new first frames keep        *)
(* replacing it, every reservation is given back, whatever is lost.        *)
ReservationResolved ==
    []<>(~rx.queueSlotReserved) \/ []<><<FfTaken>>_vars

============================================================================
