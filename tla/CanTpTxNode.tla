---------------------------- MODULE CanTpTxNode ----------------------------
(***************************************************************************)
(* A sending ECU: the transmit half of CanTp (CanTpTx) driven by the       *)
(* 1 ms scheduler of system/System.c, above a CAN driver with one transmit *)
(* mailbox.                                                                *)
(*                                                                         *)
(* System_RunTask calls, in this order and for every tick,                 *)
(* Can_MainFunction_Write (confirmations), Can_MainFunction_Read (at most  *)
(* one received frame), CanTp_MainFunction and App_MainFunction; "phase"   *)
(* is the next call.  Nothing here runs in an interrupt.                   *)
(***************************************************************************)
EXTENDS CanTpTx, Sequences

CONSTANT Lengths    \* the N-SDU lengths the application submits

ASSUME LengthsNat == Lengths \subseteq Nat

VARIABLES
    phase,      \* the call System_RunTask makes next
    mailbox,    \* the Data frame the CAN driver holds, or NoFrame
    sent,       \* history: the frames of this N-SDU CanIf accepted, in order
    grants,     \* history: the CTS frames this N-SDU was granted
    sinceCf     \* history: ticks since the last CF was confirmed, capped

vars == <<tx, app, nowMs, phase, mailbox, sent, grants, sinceCf>>

Phases == {"write", "read", "cantp", "app"}

Init ==
    /\ TxInit
    /\ phase = "write"
    /\ mailbox = NoFrame
    /\ sent = << >>
    /\ grants = 0
    /\ sinceCf = StMin

At(p, q) == phase = p /\ phase' = q

----------------------------------------------------------------------------
(* Can_MainFunction_Write: the mailbox is still busy, or it is done and    *)
(* its frame is confirmed up through CanIf and PduR.                       *)

MailboxBusy ==
    /\ At("write", "read")
    /\ UNCHANGED <<tx, app, nowMs, mailbox, sent, grants, sinceCf>>

ConfirmData ==
    /\ At("write", "read")
    /\ mailbox # NoFrame
    /\ DataTxConfirmation
    /\ mailbox' = NoFrame
    /\ sinceCf' = IF mailbox.kind = "CF" THEN 0 ELSE sinceCf
    /\ UNCHANGED <<nowMs, sent, grants>>

(* Can_MainFunction_Read: no frame for CanTp, or one Flow Control.         *)

NothingReceived ==
    /\ At("read", "cantp")
    /\ UNCHANGED <<tx, app, nowMs, mailbox, sent, grants, sinceCf>>

FcReceived ==
    /\ At("read", "cantp")
    /\ \E cts \in BOOLEAN :
          /\ FlowControl(cts)
          /\ grants' = IF cts /\ tx.state = "WAIT_FC" THEN grants + 1 ELSE grants
    /\ UNCHANGED <<nowMs, mailbox, sent, sinceCf>>

(* CanTp_MainFunction: the clock advances, then timeouts, then the request.*)

Main(Action(_)) ==
    /\ At("cantp", "app")
    /\ nowMs' = NextMs(nowMs)
    /\ Action(nowMs')
    /\ UNCHANGED <<grants, sinceCf>>

MainTimeoutAs == Main(NAsTimeout) /\ UNCHANGED <<mailbox, sent>>
MainTimeoutBs == Main(NBsTimeout) /\ UNCHANGED <<mailbox, sent>>
MainRetried   == Main(RequestRetried) /\ UNCHANGED <<mailbox, sent>>
MainExhausted == Main(RequestExhausted) /\ UNCHANGED <<mailbox, sent>>
MainIdle      == Main(NothingDue) /\ UNCHANGED <<mailbox, sent>>

\* The one transmit mailbox can only take the frame while it is free.
MainAccepted ==
    /\ Main(RequestAccepted)
    /\ mailbox = NoFrame
    /\ mailbox' = tx'.frame
    /\ sent' = Append(sent, tx'.frame)

(* App_MainFunction may submit an N-SDU; then the next tick begins.        *)

NextTick == sinceCf' = IF sinceCf < StMin THEN sinceCf + 1 ELSE sinceCf

AppQuiet ==
    /\ At("app", "write")
    /\ NextTick
    /\ UNCHANGED <<tx, app, nowMs, mailbox, sent, grants>>

AppRefused ==
    /\ At("app", "write")
    /\ \E len \in Lengths : SubmitRefused(len) \/ SubmitRejected(len)
    /\ NextTick
    /\ UNCHANGED <<nowMs, mailbox, sent, grants>>

AppSubmit ==
    /\ At("app", "write")
    /\ \E len \in Lengths : SubmitAccepted(len)
    /\ sent' = << >> /\ grants' = 0
    /\ NextTick
    /\ UNCHANGED <<nowMs, mailbox>>

Next ==
    \/ MailboxBusy \/ ConfirmData
    \/ NothingReceived \/ FcReceived
    \/ MainTimeoutAs \/ MainTimeoutBs \/ MainRetried \/ MainExhausted
    \/ MainIdle \/ MainAccepted
    \/ AppQuiet \/ AppRefused \/ AppSubmit

Spec == Init /\ [][Next]_vars

\* The main loop of System_RunTask never stops calling.
FairSpec == Spec /\ WF_vars(Next)

----------------------------------------------------------------------------
(* Properties.                                                             *)

Tx ==
    [state : TxStates, total : 0..MaxNsdu, txOffset : 0..MaxNsdu,
     nextSN : SequenceNumbers, blockCount : 0..BlockSize,
     frame : DataFrames \cup {NoFrame}, retryCount : 0..MaxRetries,
     dataAttemptDueMs : Clock, txPduPending : BOOLEAN,
     nAsActive : BOOLEAN, nAsStartMs : Clock,
     nBsActive : BOOLEAN, nBsStartMs : Clock,
     fcPermissionGranted : BOOLEAN, priorCfExists : BOOLEAN,
     lastCfConfirmedMs : Clock, resultReported : BOOLEAN]

App == [active : BOOLEAN, length : 0..MaxNsdu, lastResult : {"E_OK", "E_NOT_OK"}]

TypeOK ==
    /\ tx \in Tx
    /\ app \in App
    /\ nowMs \in Clock
    /\ phase \in Phases
    /\ mailbox \in DataFrames \cup {NoFrame}
    /\ sent \in Seq(DataFrames)
    /\ grants \in Nat
    /\ sinceCf \in 0..StMin

(* NodeApp's source snapshot is locked exactly while CanTp runs a session  *)
(* on it: no path ends a session without the one final result that frees   *)
(* the source, and none frees the source of a running session.             *)
SourceLocked == app.active <=> tx.state # "IDLE"

(* A confirmation can only be credited to the frame that earned it.  The   *)
(* driver holds a frame exactly while txPduPending says so; if it holds    *)
(* one while a session runs, it is that session's current frame and the    *)
(* session is waiting for it.  A frame of an aborted session therefore     *)
(* never advances the next one.                                            *)
OwnConfirmation ==
    /\ tx.txPduPending <=> mailbox # NoFrame
    /\ tx.state # "IDLE" /\ mailbox # NoFrame => tx.state = "WAIT_CONFIRM"
    /\ tx.state = "WAIT_CONFIRM" =>
          sent # << >> /\ mailbox = tx.frame /\ mailbox = sent[Len(sent)]

(* Whatever is rejected, retried, confirmed or paused, the frames accepted *)
(* for one N-SDU are the first ones of its segmentation: none is skipped,  *)
(* repeated, reordered or cut differently.                                 *)
SegmentsInOrder ==
    tx.state # "IDLE" =>
        /\ Len(sent) <= SegmentCount(tx.total)
        /\ \A i \in 1..Len(sent) : sent[i] = Segment(tx.total, i)

(* A sender goes on after an FF or a full block only on a CTS: the CFs     *)
(* handed to CanIf never exceed the blocks the receiver granted.           *)
BlockQuota == tx.state # "IDLE" => Len(sent) <= 1 + grants * BlockSize

(* E_OK is reported only when every segment was accepted and the driver    *)
(* holds none of them any more.                                            *)
SuccessMeansAllSent ==
    [][app.active /\ ~app'.active /\ app'.lastResult = "E_OK" =>
          /\ Len(sent) = SegmentCount(app.length)
          /\ mailbox' = NoFrame]_vars

(* Architecture.md:520: every CF request comes at least STmin after the    *)
(* local confirmation of the CF before it, across blocks too.              *)
StMinGap ==
    [][Len(sent') > Len(sent) /\ Len(sent) >= 2 => sinceCf >= StMin]_vars

(* What the scheduler order leaves of STmin: the confirmation is polled    *)
(* before CanTp's clock advances in the same tick, so the gap is at least  *)
(* STmin - 1 ticks.                                                        *)
StMinGapLessOneTick ==
    [][Len(sent') > Len(sent) /\ Len(sent) >= 2 => sinceCf >= StMin - 1]_vars

(* Whatever the driver refuses or never confirms, whatever Flow Control    *)
(* does or does not arrive and wherever the clock wraps, every accepted    *)
(* N-SDU gets its final result.                                            *)
EveryNsduConcludes == app.active ~> ~app.active

============================================================================
