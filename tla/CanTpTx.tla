------------------------------ MODULE CanTpTx ------------------------------
(***************************************************************************)
(* The transmit half of one CanTp connection (drivers/can/cantp/Cantp.c)   *)
(* and the transmit source NodeApp keeps for it (app/node_app.c).          *)
(*                                                                         *)
(* "tx" is CanTp_TxRuntime, "app" is the NodeApp_Tx* group and "nowMs" is  *)
(* CanTp_NowMs.  Payload bytes are abstracted to the half-open range of    *)
(* N-SDU offsets a frame carries (from, bytes); the PCI byte is the kind   *)
(* and the sequence number.  The PduR routing between the two modules is a *)
(* pure table look-up with one row (PduR_Cfg.c) and is inlined.            *)
(*                                                                         *)
(* The module holds the handlers only.  Whoever composes it (CanTpTxNode)  *)
(* says when CanIf accepts a frame, when the driver confirms it and which  *)
(* Flow Control frames arrive.                                             *)
(***************************************************************************)
EXTENDS CanTpClock, CanTpSegments

CONSTANTS
    StMin,          \* CANTP_STMIN_MS               (5)
    MaxRetries,     \* CANTP_MAX_RETRIES            (3)
    NAs, NBs        \* CANTP_N_AS_MS, CANTP_N_BS_MS (100)

(* The clock is long enough for every duration to be told from its past.   *)
ASSUME TxConfig ==
    /\ StMin \in Nat /\ MaxRetries \in Nat
    /\ NAs \in Nat \ {0} /\ NBs \in Nat \ {0}
    /\ \A d \in {NAs, NBs, StMin} : 2 * d < ClockModulus

VARIABLES tx, app, nowMs

txVars == <<tx, app, nowMs>>

TxStates == {"IDLE", "REQUEST_TX", "WAIT_CONFIRM", "WAIT_FC", "WAIT_STMIN"}

NoFrame == [kind |-> "INVALID", sn |-> 0, from |-> 0, bytes |-> 0]

DataFrames ==
    [kind : {"SF", "FF", "CF"}, sn : SequenceNumbers,
     from : 0..MaxNsdu, bytes : 0..MaxNsdu]

----------------------------------------------------------------------------
(* The session record.                                                     *)

IdleTx ==
    [state |-> "IDLE", total |-> 0, txOffset |-> 0, nextSN |-> 1,
     blockCount |-> 0, frame |-> NoFrame, retryCount |-> 0,
     dataAttemptDueMs |-> 0, txPduPending |-> FALSE,
     nAsActive |-> FALSE, nAsStartMs |-> 0,
     nBsActive |-> FALSE, nBsStartMs |-> 0,
     fcPermissionGranted |-> FALSE, priorCfExists |-> FALSE,
     lastCfConfirmedMs |-> 0, resultReported |-> FALSE]

IdleApp == [active |-> FALSE, length |-> 0, lastResult |-> "E_NOT_OK"]

TxInit ==
    /\ tx = IdleTx
    /\ app = IdleApp
    /\ nowMs = 0

\* The logical session goes; a Data PDU the driver holds stays pending.
ResetTxSession(t) == [IdleTx EXCEPT !.txPduPending = t.txPduPending]

\* NodeApp_CanTpTxConfirmation: the one final result frees the source.
AppConfirmation(a, result) ==
    IF a.active
    THEN [active |-> FALSE,
          length |-> IF result = "E_OK" THEN 0 ELSE a.length,
          lastResult |-> result]
    ELSE a

\* mutant: the session is reset and the upper layer is not told
SilentFinish(t, result) ==
    /\ tx' = ResetTxSession(t)
    /\ app' = app

\* CanTp_CompleteTx ("E_OK") and CanTp_AbortTx ("E_NOT_OK").
Finish(t, result) ==
    /\ tx' = ResetTxSession(t)
    /\ app' = IF t.resultReported THEN app ELSE AppConfirmation(app, result)

SfFrame(total) == [kind |-> "SF", sn |-> 0, from |-> 0, bytes |-> total]

FfFrame == [kind |-> "FF", sn |-> 0, from |-> 0, bytes |-> FfPayload]

CfFrame(sn, from, left) ==
    [kind |-> "CF", sn |-> sn % SnModulus, from |-> from,
     bytes |-> CfBytes(left)]

NextFrame(t) ==
    IF t.total <= SfMax THEN SfFrame(t.total)
    ELSE IF t.txOffset = 0 THEN FfFrame
    ELSE CfFrame(t.nextSN, t.txOffset, t.total - t.txOffset)

\* CanTp_PrepareDataFrame: build the frame, commit nothing.
Prepared(t, now) ==
    [t EXCEPT !.frame = NextFrame(t), !.retryCount = 0,
              !.dataAttemptDueMs = now, !.state = "REQUEST_TX"]

----------------------------------------------------------------------------
(* NodeApp_Transmit -> PduR_Transmit -> CanTp_Transmit.                    *)

\* mutant: a new N-SDU is taken while the old frame is still in the driver
AcceptsWhilePending(len) ==
    /\ len \in 1..MaxNsdu
    /\ tx.state = "IDLE"

Accepts(len) ==
    /\ len \in 1..MaxNsdu
    /\ tx.state = "IDLE"
    /\ ~tx.txPduPending

\* NodeApp refuses the call itself: nothing changes.
SubmitRefused(len) ==
    /\ len \notin 1..MaxNsdu \/ app.active
    /\ UNCHANGED <<tx, app>>

\* NodeApp takes the call, CanTp refuses it: the source is given back.
SubmitRejected(len) ==
    /\ len \in 1..MaxNsdu /\ ~app.active
    /\ ~Accepts(len)
    /\ app' = [app EXCEPT !.length = 0]
    /\ UNCHANGED tx

\* Accepted: snapshot copied, first frame prepared.  The copy cannot fail:
\* NodeApp_CanTpCopyTxData refuses only a length other than the one it set.
SubmitAccepted(len) ==
    /\ len \in 1..MaxNsdu /\ ~app.active
    /\ Accepts(len)
    /\ app' = [app EXCEPT !.active = TRUE, !.length = len]
    /\ tx' = Prepared([IdleTx EXCEPT !.total = len], nowMs)

----------------------------------------------------------------------------
(* CanTp_TxConfirmation for the Data N-PDU.                                *)

\* mutant: every confirmed frame, the FF too, takes a sequence number
CommittedEveryFrame(t) ==
    [t EXCEPT !.txPduPending = FALSE, !.nAsActive = FALSE,
              !.txOffset = t.txOffset + t.frame.bytes,
              !.nextSN = (t.nextSN + 1) % SnModulus,
              !.blockCount = IF t.frame.kind = "CF" THEN t.blockCount + 1 ELSE 0,
              !.priorCfExists = t.frame.kind = "CF",
              !.lastCfConfirmedMs = nowMs]

\* The frame the confirmation commits: offset, SN, block count, STmin base.
Committed(t) ==
    LET done == [t EXCEPT !.txPduPending = FALSE, !.nAsActive = FALSE,
                          !.txOffset = t.txOffset + t.frame.bytes]
    IN  IF t.frame.kind = "CF"
        THEN [done EXCEPT !.nextSN = (t.nextSN + 1) % SnModulus,
                          !.blockCount = t.blockCount + 1,
                          !.priorCfExists = TRUE,
                          !.lastCfConfirmedMs = nowMs]
        ELSE done

\* mutant: one frame too many in a block
BlockOverrun(t) == t.frame.kind = "FF" \/ t.blockCount = BlockSize + 1

BlockDone(t) == t.frame.kind = "FF" \/ t.blockCount = BlockSize

\* A confirmation after the session was aborted only frees the PDU.
LateConfirmation ==
    /\ tx.txPduPending /\ tx.state # "WAIT_CONFIRM"
    /\ tx' = [tx EXCEPT !.txPduPending = FALSE, !.nAsActive = FALSE]
    /\ UNCHANGED app

\* mutant: the session completes when one more CF would finish it
LastFrameAssumed ==
    /\ tx.txPduPending /\ tx.state = "WAIT_CONFIRM"
    /\ Committed(tx).txOffset + CfPayload >= tx.total
    /\ Finish(Committed(tx), "E_OK")

LastFrameConfirmed ==
    /\ tx.txPduPending /\ tx.state = "WAIT_CONFIRM"
    /\ Committed(tx).txOffset = tx.total
    /\ Finish(Committed(tx), "E_OK")

BlockConfirmed ==
    LET t == Committed(tx) IN
    /\ tx.txPduPending /\ tx.state = "WAIT_CONFIRM"
    /\ t.txOffset # tx.total /\ BlockDone(t)
    /\ tx' = [t EXCEPT !.fcPermissionGranted = FALSE, !.nBsStartMs = nowMs,
                       !.nBsActive = TRUE, !.state = "WAIT_FC"]
    /\ UNCHANGED app

FrameConfirmed ==
    LET t == Committed(tx) IN
    /\ tx.txPduPending /\ tx.state = "WAIT_CONFIRM"
    /\ t.txOffset # tx.total /\ ~BlockDone(t)
    /\ tx' = [t EXCEPT !.state = "WAIT_STMIN"]
    /\ UNCHANGED app

DataTxConfirmation ==
    LateConfirmation \/ LastFrameConfirmed \/ BlockConfirmed \/ FrameConfirmed

----------------------------------------------------------------------------
(* CanTp_RxIndication of a Flow Control N-PDU; "cts" says whether it is    *)
(* CTS with exactly the configured block size and STmin.                   *)

FcIgnored ==
    /\ tx.state # "WAIT_FC"
    /\ UNCHANGED <<tx, app>>

FcInvalid ==
    /\ tx.state = "WAIT_FC"
    /\ Finish(tx, "E_NOT_OK")

\* mutant: the fifth CF no longer waits for STmin after the second CTS
EagerAfterFc(t) == Prepared(t, nowMs)

\* The first CF follows its CTS at once, a later one keeps its STmin gate.
AfterFc(t) ==
    IF t.priorCfExists THEN [t EXCEPT !.state = "WAIT_STMIN"]
    ELSE Prepared(t, nowMs)

FcGranted ==
    /\ tx.state = "WAIT_FC"
    /\ tx' = AfterFc([tx EXCEPT !.nBsActive = FALSE, !.blockCount = 0,
                                !.fcPermissionGranted = TRUE])
    /\ UNCHANGED app

FlowControl(cts) == FcIgnored \/ (cts /\ FcGranted) \/ (~cts /\ FcInvalid)

----------------------------------------------------------------------------
(* CanTp_MainFunction, transmit side.  "now" is CanTp_NowMs after the      *)
(* increment at the top of the function; the alternatives exclude each     *)
(* other because each needs a state the ones before it would have left.    *)

NAsExpired(now) ==
    tx.state = "WAIT_CONFIRM" /\ tx.nAsActive
    /\ HasElapsed(now, tx.nAsStartMs, NAs)

NBsExpired(now) ==
    tx.state = "WAIT_FC" /\ tx.nBsActive
    /\ HasElapsed(now, tx.nBsStartMs, NBs)

StMinGateOpen(now) ==
    /\ tx.state = "WAIT_STMIN" /\ tx.fcPermissionGranted
    /\ ~tx.priorCfExists \/ HasElapsed(now, tx.lastCfConfirmedMs, StMin)

\* The session as it stands when the request is made.
Requesting(now) == IF StMinGateOpen(now) THEN Prepared(tx, now) ELSE tx

RequestDue(now) ==
    LET t == Requesting(now)
    IN  t.state = "REQUEST_TX" /\ AttemptIsDue(now, t.dataAttemptDueMs)

NAsTimeout(now) == NAsExpired(now) /\ Finish(tx, "E_NOT_OK")

NBsTimeout(now) == NBsExpired(now) /\ Finish(tx, "E_NOT_OK")

RequestAccepted(now) ==
    /\ RequestDue(now)
    /\ tx' = [Requesting(now) EXCEPT !.txPduPending = TRUE,
                 !.nAsStartMs = now, !.nAsActive = TRUE,
                 !.state = "WAIT_CONFIRM"]
    /\ UNCHANGED app

RequestRetried(now) ==
    LET t == Requesting(now) IN
    /\ RequestDue(now) /\ t.retryCount < MaxRetries
    /\ tx' = [t EXCEPT !.retryCount = t.retryCount + 1,
                       !.dataAttemptDueMs = NextMs(now)]
    /\ UNCHANGED app

RequestExhausted(now) ==
    /\ RequestDue(now) /\ Requesting(now).retryCount >= MaxRetries
    /\ Finish(Requesting(now), "E_NOT_OK")

NothingDue(now) ==
    /\ ~NAsExpired(now) /\ ~NBsExpired(now) /\ ~RequestDue(now)
    /\ UNCHANGED <<tx, app>>

============================================================================
