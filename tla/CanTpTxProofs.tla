--------------------------- MODULE CanTpTxProofs ---------------------------
(***************************************************************************)
(* Machine-checked proofs about the sending node (CanTpTxNode), for every  *)
(* value of its constants: types, the source lock and the ownership of     *)
(* confirmations; then, with the session's position in its segmentation    *)
(* and the time since its last confirmation, what it hands to the driver,  *)
(* and when.                                                               *)
(***************************************************************************)
EXTENDS CanTpTxNode, CanTpSegmentProofs, TLAPS

----------------------------------------------------------------------------
(* The invariant.                                                          *)

Running == tx.state # "IDLE"

(* The session and the source agree, and the session is at a position of   *)
(* its N-SDU where a frame is still missing.                               *)
SessionInv ==
    /\ ~tx.resultReported
    /\ app.active <=> Running
    /\ Running => /\ tx.total \in 1..MaxNsdu
                  /\ tx.txOffset < tx.total
                  /\ tx.total <= SfMax => tx.txOffset = 0
    /\ tx.state \in {"REQUEST_TX", "WAIT_CONFIRM", "WAIT_STMIN"}
          => tx.blockCount < BlockSize

(* The prepared frame is the one the session's position calls for, and the *)
(* driver holds a frame of a running session only while it is waited for.  *)
FrameInv ==
    /\ tx.state \in {"REQUEST_TX", "WAIT_CONFIRM"} => tx.frame = NextFrame(tx)
    /\ tx.txPduPending <=> mailbox # NoFrame
    /\ Running => (tx.txPduPending <=> tx.state = "WAIT_CONFIRM")
    /\ tx.state = "WAIT_CONFIRM" =>
          sent # << >> /\ mailbox = tx.frame /\ mailbox = sent[Len(sent)]

IInv == TypeOK /\ SessionInv /\ FrameInv

----------------------------------------------------------------------------
(* The clock, and the frame a position calls for.                          *)

LEMMA NextMsClock ==
    ASSUME NEW t \in Clock
    PROVE  NextMs(t) \in Clock
  BY ModRange, ClockConfig DEF Clock, NextMs

(* The frame built at a position of the N-SDU is a frame, starts there and *)
(* does not run past the end; it ends it only if it carries all the rest.  *)
LEMMA NextFrameType ==
    ASSUME NEW t \in Tx,
           t.total \in 1..MaxNsdu, t.txOffset < t.total,
           t.total <= SfMax => t.txOffset = 0
    PROVE  /\ NextFrame(t) \in DataFrames
           /\ NextFrame(t).bytes \in 0..(t.total - t.txOffset)
           /\ t.total <= SfMax => NextFrame(t).bytes = t.total
  <1> DEFINE left == t.total - t.txOffset
  <1>1. t.total \in 1..MaxNsdu /\ t.txOffset \in 0..MaxNsdu /\ t.nextSN \in SequenceNumbers
    BY DEF Tx
  <1>2. left \in 1..MaxNsdu
    BY <1>1, WireConfig
  <1>3. 0 \in SequenceNumbers /\ t.nextSN % SnModulus \in SequenceNumbers
    BY <1>1, SnRange, WireConfig DEF SequenceNumbers
  <1>4. CASE t.total <= SfMax
    BY <1>1, <1>3, <1>4 DEF NextFrame, SfFrame, DataFrames
  <1>5. CASE t.total > SfMax /\ t.txOffset = 0
    BY <1>1, <1>3, <1>5, WireConfig DEF NextFrame, FfFrame, DataFrames
  <1>6. CASE t.total > SfMax /\ t.txOffset # 0
    <2>1. CfBytes(left) \in 0..left
      BY <1>2, WireConfig DEF CfBytes
    <2>2. NextFrame(t) = CfFrame(t.nextSN, t.txOffset, left)
      BY <1>1, <1>6, WireConfig DEF NextFrame
    <2> QED
      BY <1>1, <1>2, <1>3, <1>6, <2>1, <2>2, WireConfig DEF CfFrame, DataFrames
  <1> QED
    BY <1>1, <1>4, <1>5, <1>6, WireConfig

----------------------------------------------------------------------------
(* What the building blocks of the handlers do to the invariant.           *)

LEMMA NoFrameNotData == NoFrame \notin DataFrames
  BY DEF NoFrame, DataFrames

LEMMA IdleTxType == IdleTx \in Tx
  BY WireConfig, TxConfig, ClockConfig
     DEF IdleTx, Tx, TxStates, SequenceNumbers, Clock

\* A finished session is idle, has freed the source and keeps the PDU lock.
LEMMA FinishEffect ==
    ASSUME NEW t \in Tx, ~t.resultReported, app \in App, app.active,
           NEW result \in {"E_OK", "E_NOT_OK"}, Finish(t, result)
    PROVE  /\ tx' \in Tx
           /\ tx'.state = "IDLE" /\ ~tx'.resultReported
           /\ tx'.txPduPending = t.txPduPending
           /\ app' \in App /\ ~app'.active
  <1>1. tx' = ResetTxSession(t) /\ app' = AppConfirmation(app, result)
    BY DEF Finish
  <1>2. /\ ResetTxSession(t) \in Tx
        /\ ResetTxSession(t).state = "IDLE" /\ ~ResetTxSession(t).resultReported
        /\ ResetTxSession(t).txPduPending = t.txPduPending
    <2>1. t.txPduPending \in BOOLEAN
      BY DEF Tx
    <2> QED
      BY ZenonT(30), <2>1, IdleTxType DEF ResetTxSession, IdleTx, Tx
  <1>3. AppConfirmation(app, result) \in App /\ ~AppConfirmation(app, result).active
    BY WireConfig DEF AppConfirmation, App
  <1> QED
    BY <1>1, <1>2, <1>3

\* A position that calls for a frame, once prepared, satisfies the invariant.
LEMMA PreparedEffect ==
    ASSUME NEW t \in Tx, NEW now \in Clock,
           t.total \in 1..MaxNsdu, t.txOffset < t.total,
           t.total <= SfMax => t.txOffset = 0
    PROVE  /\ Prepared(t, now) \in Tx
           /\ Prepared(t, now).state = "REQUEST_TX"
           /\ Prepared(t, now).frame = NextFrame(Prepared(t, now))
           /\ Prepared(t, now).frame \in DataFrames
           /\ Prepared(t, now).total = t.total
           /\ Prepared(t, now).txOffset = t.txOffset
           /\ Prepared(t, now).nextSN = t.nextSN
           /\ Prepared(t, now).blockCount = t.blockCount
           /\ Prepared(t, now).retryCount = 0
           /\ Prepared(t, now).txPduPending = t.txPduPending
           /\ Prepared(t, now).resultReported = t.resultReported
  <1>1. NextFrame(t) \in DataFrames
    BY NextFrameType
  <1>2. Prepared(t, now) \in Tx
    <2>1. 0 \in 0..MaxRetries /\ "REQUEST_TX" \in TxStates
      BY TxConfig DEF TxStates
    <2> QED
      BY <1>1, <2>1 DEF Prepared, Tx
  <1>3. NextFrame(Prepared(t, now)) = NextFrame(t)
    BY DEF Prepared, NextFrame, Tx
  <1> QED
    BY <1>1, <1>2, <1>3 DEF Prepared, Tx

----------------------------------------------------------------------------
(* The inductive invariant.                                                *)

THEOREM InitIInv == Init => IInv
  <1> SUFFICES ASSUME Init PROVE IInv
    OBVIOUS
  <1>1. TypeOK
    BY IdleTxType, WireConfig, TxConfig, ClockConfig
       DEF Init, TxInit, TypeOK, IdleApp, App, Clock, Phases
  <1>2. SessionInv
    BY DEF Init, TxInit, SessionInv, Running, IdleTx, IdleApp
  <1>3. FrameInv
    BY DEF Init, TxInit, FrameInv, Running, IdleTx
  <1> QED
    BY <1>1, <1>2, <1>3 DEF IInv

\* A step that touches neither session, source nor driver.
LEMMA QuietEffect ==
    ASSUME IInv, UNCHANGED <<tx, app, mailbox, sent>>
    PROVE  SessionInv' /\ FrameInv'
  BY DEF IInv, SessionInv, FrameInv, Running, NextFrame

\* The session is finished while the driver holds no frame of it, or is
\* aborted while it does: either way the lock stays with the driver.
LEMMA FinishedInv ==
    ASSUME IInv, NEW t \in Tx, ~t.resultReported, Running,
           NEW result \in {"E_OK", "E_NOT_OK"}, Finish(t, result),
           t.txPduPending <=> mailbox' # NoFrame
    PROVE  tx' \in Tx /\ app' \in App /\ SessionInv' /\ FrameInv'
  <1>1. app \in App /\ app.active
    BY DEF IInv, TypeOK, SessionInv
  <1>2. /\ tx' \in Tx
        /\ tx'.state = "IDLE" /\ ~tx'.resultReported
        /\ tx'.txPduPending = t.txPduPending
        /\ app' \in App /\ ~app'.active
    BY <1>1, FinishEffect
  <1> QED
    BY <1>2 DEF SessionInv, FrameInv, Running

\* A confirmation of the frame the running session waits for.
LEMMA CommittedEffect ==
    ASSUME IInv, tx.state = "WAIT_CONFIRM"
    PROVE  /\ Committed(tx) \in Tx
           /\ ~Committed(tx).txPduPending /\ ~Committed(tx).resultReported
           /\ Committed(tx).total = tx.total
           /\ Committed(tx).txOffset = tx.txOffset + tx.frame.bytes
           /\ Committed(tx).txOffset <= tx.total
           /\ tx.total <= SfMax => Committed(tx).txOffset = tx.total
           /\ Committed(tx).frame = tx.frame
           /\ Committed(tx).blockCount = IF tx.frame.kind = "CF"
                                         THEN tx.blockCount + 1 ELSE tx.blockCount
  <1>1. /\ tx \in Tx /\ nowMs \in Clock /\ ~tx.resultReported
        /\ tx.total \in 1..MaxNsdu /\ tx.txOffset < tx.total
        /\ tx.total <= SfMax => tx.txOffset = 0
        /\ tx.frame = NextFrame(tx) /\ tx.blockCount < BlockSize
    BY DEF IInv, TypeOK, SessionInv, FrameInv, Running
  <1>2. /\ tx.frame \in DataFrames
        /\ tx.frame.bytes \in 0..(tx.total - tx.txOffset)
        /\ tx.total <= SfMax => tx.frame.bytes = tx.total
    BY <1>1, NextFrameType
  <1>3. tx.txOffset + tx.frame.bytes \in 0..tx.total /\ tx.txOffset \in Nat
    BY <1>1, <1>2 DEF Tx
  <1>4. (tx.nextSN + 1) % SnModulus \in SequenceNumbers
    BY <1>1, SnRange DEF Tx, SequenceNumbers
  <1>5. tx.blockCount + 1 \in 0..BlockSize
    BY <1>1, WireConfig DEF Tx
  <1>6. Committed(tx) \in Tx
    <2> DEFINE done == [tx EXCEPT !.txPduPending = FALSE, !.nAsActive = FALSE,
                                  !.txOffset = tx.txOffset + tx.frame.bytes]
    <2>1. tx.txOffset + tx.frame.bytes \in 0..MaxNsdu
      BY <1>1, <1>3, WireConfig
    <2>2. done \in Tx
      BY <1>1, <2>1 DEF Tx
    <2>3. [done EXCEPT !.nextSN = (tx.nextSN + 1) % SnModulus,
                       !.blockCount = tx.blockCount + 1,
                       !.priorCfExists = TRUE,
                       !.lastCfConfirmedMs = nowMs] \in Tx
      BY ZenonT(30), <1>1, <1>4, <1>5, <2>2 DEF Tx
    <2> QED
      BY <2>2, <2>3 DEF Committed
  <1> QED
    BY <1>1, <1>2, <1>3, <1>6 DEF Committed, Tx

\* Can_MainFunction_Write with a confirmed frame.
LEMMA ConfirmDataInv ==
    ASSUME IInv, ConfirmData
    PROVE  IInv'
  <1>1. /\ tx \in Tx /\ app \in App /\ nowMs \in Clock
        /\ mailbox \in DataFrames \cup {NoFrame} /\ sent \in Seq(DataFrames)
        /\ grants \in Nat /\ sinceCf \in 0..StMin
    BY DEF IInv, TypeOK
  <1>2. /\ mailbox' = NoFrame /\ DataTxConfirmation
        /\ nowMs' = nowMs /\ sent' = sent /\ grants' = grants /\ phase' = "read"
        /\ sinceCf' \in 0..StMin
    BY <1>1, TxConfig DEF ConfirmData, At
  <1>3. tx' \in Tx /\ app' \in App /\ SessionInv' /\ FrameInv'
    <2>1. CASE LateConfirmation
      <3>1. ~Running
        BY <2>1 DEF LateConfirmation, IInv, FrameInv
      <3>2. /\ tx' = [tx EXCEPT !.txPduPending = FALSE, !.nAsActive = FALSE]
            /\ app' = app
        BY <2>1 DEF LateConfirmation
      <3>3. tx' \in Tx /\ tx'.state = tx.state /\ ~tx'.txPduPending
            /\ tx'.resultReported = tx.resultReported
        BY <1>1, <3>2 DEF Tx
      <3> QED
        BY <1>1, <1>2, <3>1, <3>2, <3>3 DEF IInv, SessionInv, FrameInv, Running
    <2>2. CASE LastFrameConfirmed
      <3>1. tx.state = "WAIT_CONFIRM" /\ Finish(Committed(tx), "E_OK")
        BY <2>2 DEF LastFrameConfirmed
      <3>2. /\ Committed(tx) \in Tx /\ ~Committed(tx).resultReported
            /\ ~Committed(tx).txPduPending
        BY <3>1, CommittedEffect
      <3> QED
        BY <1>2, <3>1, <3>2, FinishedInv DEF Running
    <2>3. CASE BlockConfirmed \/ FrameConfirmed
      <3> DEFINE t == Committed(tx)
      <3>1. tx.state = "WAIT_CONFIRM" /\ t.txOffset # tx.total /\ app' = app
        BY <2>3 DEF BlockConfirmed, FrameConfirmed
      <3>2. /\ t \in Tx /\ ~t.txPduPending /\ ~t.resultReported
            /\ t.total = tx.total /\ t.txOffset <= tx.total
            /\ tx.total <= SfMax => t.txOffset = tx.total
            /\ t.frame = tx.frame
            /\ t.blockCount = IF tx.frame.kind = "CF"
                              THEN tx.blockCount + 1 ELSE tx.blockCount
        BY <3>1, CommittedEffect
      <3>3. /\ tx.total \in 1..MaxNsdu /\ app.active /\ tx.blockCount < BlockSize
            /\ tx.blockCount \in 0..BlockSize /\ t.txOffset \in 0..MaxNsdu
        BY <1>1, <3>1, <3>2 DEF IInv, SessionInv, Running, Tx
      <3>4. t.txOffset < t.total /\ ~(t.total <= SfMax)
        BY <3>1, <3>2, <3>3, WireConfig
      <3>5. CASE BlockConfirmed
        <4>1. tx' = [t EXCEPT !.fcPermissionGranted = FALSE, !.nBsStartMs = nowMs,
                              !.nBsActive = TRUE, !.state = "WAIT_FC"]
          BY <3>5 DEF BlockConfirmed
        <4>2. /\ tx' \in Tx /\ tx'.state = "WAIT_FC"
              /\ tx'.total = t.total /\ tx'.txOffset = t.txOffset
              /\ tx'.txPduPending = t.txPduPending
              /\ tx'.resultReported = t.resultReported
          BY <1>1, <3>2, <4>1 DEF Tx, TxStates
        <4> QED
          BY <1>1, <1>2, <3>1, <3>2, <3>3, <3>4, <4>2 DEF SessionInv, FrameInv, Running
      <3>6. CASE FrameConfirmed
        <4>1. /\ tx' = [t EXCEPT !.state = "WAIT_STMIN"]
              /\ ~BlockDone(t)
          BY <3>6 DEF FrameConfirmed
        <4>2. /\ tx' \in Tx /\ tx'.state = "WAIT_STMIN"
              /\ tx'.total = t.total /\ tx'.txOffset = t.txOffset
              /\ tx'.blockCount = t.blockCount
              /\ tx'.txPduPending = t.txPduPending
              /\ tx'.resultReported = t.resultReported
          BY <3>2, <4>1 DEF Tx, TxStates
        <4>3. t.blockCount < BlockSize
          BY <3>2, <3>3, <4>1, WireConfig DEF BlockDone
        <4> QED
          BY <1>1, <1>2, <3>1, <3>2, <3>3, <3>4, <4>2, <4>3 DEF SessionInv, FrameInv, Running
      <3> QED
        BY <2>3, <3>5, <3>6
    <2> QED
      BY <1>2, <2>1, <2>2, <2>3 DEF DataTxConfirmation
  <1> QED
    BY <1>1, <1>2, <1>3 DEF IInv, TypeOK, Phases

\* Can_MainFunction_Read with a Flow Control frame.
LEMMA FcReceivedInv ==
    ASSUME IInv, FcReceived
    PROVE  IInv'
  <1>1. /\ tx \in Tx /\ app \in App /\ nowMs \in Clock
        /\ mailbox \in DataFrames \cup {NoFrame} /\ sent \in Seq(DataFrames)
        /\ grants \in Nat /\ sinceCf \in 0..StMin
    BY DEF IInv, TypeOK
  <1>2. /\ mailbox' = mailbox /\ nowMs' = nowMs /\ sent' = sent
        /\ sinceCf' = sinceCf /\ phase' = "cantp" /\ grants' \in Nat
        /\ FcIgnored \/ FcGranted \/ FcInvalid
    BY <1>1 DEF FcReceived, FlowControl, At
  <1>3. tx' \in Tx /\ app' \in App /\ SessionInv' /\ FrameInv'
    <2>1. CASE FcIgnored
      <3>1. UNCHANGED <<tx, app, mailbox, sent>>
        BY <1>2, <2>1 DEF FcIgnored
      <3> QED
        BY <1>1, <3>1, QuietEffect
    <2>2. CASE FcInvalid
      <3>1. tx.state = "WAIT_FC" /\ Finish(tx, "E_NOT_OK")
        BY <2>2 DEF FcInvalid
      <3>2. ~tx.resultReported /\ (tx.txPduPending <=> mailbox' # NoFrame)
        BY <1>2 DEF IInv, SessionInv, FrameInv
      <3> QED
        BY <1>1, <3>1, <3>2, FinishedInv DEF Running
    <2>3. CASE FcGranted
      <3> DEFINE t == [tx EXCEPT !.nBsActive = FALSE, !.blockCount = 0,
                                 !.fcPermissionGranted = TRUE]
      <3>1. tx.state = "WAIT_FC" /\ tx' = AfterFc(t) /\ app' = app
        BY <2>3 DEF FcGranted
      <3>2. /\ tx.total \in 1..MaxNsdu /\ tx.txOffset < tx.total
            /\ tx.total <= SfMax => tx.txOffset = 0
            /\ app.active /\ ~tx.resultReported /\ ~tx.txPduPending
            /\ mailbox = NoFrame
        BY <1>1, <3>1 DEF IInv, SessionInv, FrameInv, Running
      <3>3. /\ t \in Tx /\ t.total = tx.total /\ t.txOffset = tx.txOffset
            /\ t.blockCount = 0 /\ ~t.txPduPending /\ ~t.resultReported
        <4>1. 0 \in 0..BlockSize
          BY WireConfig
        <4> QED
          BY <1>1, <3>2, <4>1 DEF Tx
      <3> HIDE DEF t
      <3>4. CASE t.priorCfExists
        <4>1. tx' = [t EXCEPT !.state = "WAIT_STMIN"]
          BY <3>1, <3>4 DEF AfterFc
        <4>2. /\ tx' \in Tx /\ tx'.state = "WAIT_STMIN"
              /\ tx'.total = t.total /\ tx'.txOffset = t.txOffset
              /\ tx'.blockCount = t.blockCount
              /\ tx'.txPduPending = t.txPduPending
              /\ tx'.resultReported = t.resultReported
          BY <3>3, <4>1 DEF Tx, TxStates
        <4> QED
          BY <1>1, <1>2, <3>1, <3>2, <3>3, <4>2, WireConfig
             DEF SessionInv, FrameInv, Running
      <3>5. CASE ~t.priorCfExists
        <4>1. tx' = Prepared(t, nowMs)
          BY <3>1, <3>5 DEF AfterFc
        <4>2. /\ tx' \in Tx /\ tx'.state = "REQUEST_TX"
              /\ tx'.frame = NextFrame(tx')
              /\ tx'.total = t.total /\ tx'.txOffset = t.txOffset
              /\ tx'.blockCount = t.blockCount
              /\ tx'.txPduPending = t.txPduPending
              /\ tx'.resultReported = t.resultReported
          BY <1>1, <3>2, <3>3, <4>1, PreparedEffect
        <4> QED
          BY <1>1, <1>2, <3>1, <3>2, <3>3, <4>2, WireConfig
             DEF SessionInv, FrameInv, Running
      <3> QED
        BY <3>4, <3>5
    <2> QED
      BY <1>2, <2>1, <2>2, <2>3
  <1> QED
    BY <1>1, <1>2, <1>3 DEF IInv, TypeOK, Phases

----------------------------------------------------------------------------
(* CanTp_MainFunction.                                                     *)

\* The session the request is made for: as it was, or with its next frame.
LEMMA RequestingEffect ==
    ASSUME IInv, NEW now \in Clock, RequestDue(now)
    PROVE  LET t == Requesting(now) IN
           /\ Running /\ ~tx.txPduPending /\ mailbox = NoFrame
           /\ t \in Tx /\ t.state = "REQUEST_TX"
           /\ t.frame = NextFrame(t) /\ t.frame \in DataFrames
           /\ t.total = tx.total /\ t.txOffset = tx.txOffset
           /\ t.nextSN = tx.nextSN
           /\ t.blockCount = tx.blockCount /\ tx.blockCount < BlockSize
           /\ tx.state # "WAIT_CONFIRM" /\ tx.state # "WAIT_FC"
           /\ ~t.txPduPending /\ ~t.resultReported
  <1> DEFINE t == Requesting(now)
  <1>1. tx \in Tx /\ t.state = "REQUEST_TX"
    BY DEF IInv, TypeOK, RequestDue
  <1>2. tx.state = "WAIT_STMIN" \/ tx.state = "REQUEST_TX"
    BY <1>1 DEF Requesting, StMinGateOpen
  <1>3. CASE StMinGateOpen(now)
    <2>1. tx.state = "WAIT_STMIN" /\ t = Prepared(tx, now)
      BY <1>3 DEF StMinGateOpen, Requesting
    <2>2. /\ Running /\ ~tx.txPduPending /\ mailbox = NoFrame
          /\ tx.total \in 1..MaxNsdu /\ tx.txOffset < tx.total
          /\ tx.total <= SfMax => tx.txOffset = 0
          /\ ~tx.resultReported /\ tx.blockCount < BlockSize
      BY <2>1 DEF IInv, SessionInv, FrameInv, Running
    <2>3. LET p == Prepared(tx, now) IN
          /\ p \in Tx /\ p.state = "REQUEST_TX"
          /\ p.frame = NextFrame(p) /\ p.frame \in DataFrames
          /\ p.total = tx.total /\ p.txOffset = tx.txOffset
          /\ p.nextSN = tx.nextSN /\ p.blockCount = tx.blockCount
          /\ p.txPduPending = tx.txPduPending
          /\ p.resultReported = tx.resultReported
      BY <1>1, <2>2, PreparedEffect
    <2> QED
      BY <1>2, <2>1, <2>2, <2>3
  <1>4. CASE ~StMinGateOpen(now)
    <2>1. t = tx
      BY <1>4 DEF Requesting
    <2>2. /\ Running /\ ~tx.txPduPending /\ mailbox = NoFrame
          /\ tx.total \in 1..MaxNsdu /\ tx.txOffset < tx.total
          /\ tx.total <= SfMax => tx.txOffset = 0
          /\ ~tx.resultReported /\ tx.blockCount < BlockSize
          /\ tx.frame = NextFrame(tx)
      BY <1>1, <2>1 DEF IInv, SessionInv, FrameInv, Running
    <2> QED
      BY <1>1, <1>2, <2>1, <2>2, NextFrameType
  <1> QED
    BY <1>3, <1>4

LEMMA MainInv ==
    ASSUME IInv,
           \/ MainTimeoutAs \/ MainTimeoutBs \/ MainRetried \/ MainExhausted
           \/ MainIdle \/ MainAccepted
    PROVE  IInv'
  <1>1. /\ tx \in Tx /\ app \in App /\ nowMs \in Clock
        /\ mailbox \in DataFrames \cup {NoFrame} /\ sent \in Seq(DataFrames)
        /\ grants \in Nat /\ sinceCf \in 0..StMin
        /\ ~tx.resultReported /\ (tx.txPduPending <=> mailbox # NoFrame)
        /\ Running => app.active /\ tx.total \in 1..MaxNsdu /\ tx.txOffset < tx.total
                      /\ (tx.total <= SfMax => tx.txOffset = 0)
    BY DEF IInv, TypeOK, SessionInv, FrameInv
  <1>2. /\ nowMs' \in Clock /\ phase' = "app"
        /\ grants' = grants /\ sinceCf' = sinceCf
    BY <1>1, NextMsClock
       DEF MainTimeoutAs, MainTimeoutBs, MainRetried, MainExhausted, MainIdle,
           MainAccepted, Main, At
  <1>3. /\ tx' \in Tx /\ app' \in App /\ SessionInv' /\ FrameInv'
        /\ mailbox' \in DataFrames \cup {NoFrame} /\ sent' \in Seq(DataFrames)
    <2>1. CASE MainTimeoutAs \/ MainTimeoutBs
      <3>1. /\ Finish(tx, "E_NOT_OK") /\ Running
            /\ mailbox' = mailbox /\ sent' = sent
        BY <2>1 DEF MainTimeoutAs, MainTimeoutBs, Main, NAsTimeout, NBsTimeout,
                    NAsExpired, NBsExpired, Running
      <3> QED
        BY <1>1, <3>1, FinishedInv
    <2>2. CASE MainIdle
      <3>1. UNCHANGED <<tx, app, mailbox, sent>>
        BY <2>2 DEF MainIdle, Main, NothingDue
      <3> QED
        BY <1>1, <3>1, QuietEffect
    <2>3. CASE MainExhausted
      <3> DEFINE t == Requesting(nowMs')
      <3>1. /\ RequestDue(nowMs') /\ Finish(t, "E_NOT_OK")
            /\ mailbox' = mailbox /\ sent' = sent
        BY <2>3 DEF MainExhausted, Main, RequestExhausted
      <3>2. /\ t \in Tx /\ ~t.resultReported /\ ~t.txPduPending
            /\ Running /\ mailbox = NoFrame
        BY <1>2, <3>1, RequestingEffect
      <3> QED
        BY <1>1, <3>1, <3>2, FinishedInv
    <2>4. CASE MainRetried
      <3> DEFINE t == Requesting(nowMs')
      <3>1. /\ RequestDue(nowMs') /\ t.retryCount < MaxRetries
            /\ tx' = [t EXCEPT !.retryCount = t.retryCount + 1,
                               !.dataAttemptDueMs = NextMs(nowMs')]
            /\ app' = app /\ mailbox' = mailbox /\ sent' = sent
        BY <2>4 DEF MainRetried, Main, RequestRetried
      <3>2. /\ t \in Tx /\ t.state = "REQUEST_TX" /\ t.frame = NextFrame(t)
            /\ t.total = tx.total /\ t.txOffset = tx.txOffset
            /\ t.blockCount < BlockSize /\ ~t.resultReported /\ ~t.txPduPending
            /\ Running /\ mailbox = NoFrame
        BY <1>2, <3>1, RequestingEffect
      <3>3. t.retryCount + 1 \in 0..MaxRetries /\ NextMs(nowMs') \in Clock
        BY <1>2, <3>1, <3>2, NextMsClock, TxConfig DEF Tx
      <3>4. /\ tx' \in Tx /\ tx'.state = "REQUEST_TX"
            /\ tx'.total = t.total /\ tx'.txOffset = t.txOffset
            /\ tx'.nextSN = t.nextSN /\ tx'.frame = t.frame
            /\ tx'.blockCount = t.blockCount
            /\ tx'.txPduPending = t.txPduPending
            /\ tx'.resultReported = t.resultReported
        BY <3>1, <3>2, <3>3 DEF Tx
      <3>5. NextFrame(tx') = NextFrame(t)
        BY <3>4 DEF NextFrame
      <3> QED
        BY <1>1, <3>1, <3>2, <3>4, <3>5 DEF SessionInv, FrameInv, Running
    <2>5. CASE MainAccepted
      <3> DEFINE t == Requesting(nowMs')
      <3>1. /\ RequestDue(nowMs')
            /\ tx' = [t EXCEPT !.txPduPending = TRUE, !.nAsStartMs = nowMs',
                               !.nAsActive = TRUE, !.state = "WAIT_CONFIRM"]
            /\ app' = app /\ mailbox' = tx'.frame
            /\ sent' = Append(sent, tx'.frame)
        BY <2>5 DEF MainAccepted, Main, RequestAccepted
      <3>2. /\ t \in Tx /\ t.frame = NextFrame(t) /\ t.frame \in DataFrames
            /\ t.total = tx.total /\ t.txOffset = tx.txOffset
            /\ t.blockCount < BlockSize /\ ~t.resultReported
            /\ Running
        BY <1>2, <3>1, RequestingEffect
      <3>3. /\ tx' \in Tx /\ tx'.state = "WAIT_CONFIRM"
            /\ tx'.total = t.total /\ tx'.txOffset = t.txOffset
            /\ tx'.nextSN = t.nextSN /\ tx'.frame = t.frame
            /\ tx'.blockCount = t.blockCount
            /\ tx'.txPduPending /\ tx'.resultReported = t.resultReported
        BY <1>2, <3>1, <3>2 DEF Tx, TxStates
      <3>4. NextFrame(tx') = NextFrame(t)
        BY <3>3 DEF NextFrame
      <3>5. /\ sent' \in Seq(DataFrames) /\ sent' # << >>
            /\ sent'[Len(sent')] = tx'.frame
        BY <1>1, <3>1, <3>2, <3>3
      <3>6. mailbox' \in DataFrames /\ mailbox' # NoFrame
        BY <3>1, <3>2, <3>3, NoFrameNotData
      <3> QED
        BY <1>1, <3>1, <3>2, <3>3, <3>4, <3>5, <3>6 DEF SessionInv, FrameInv, Running
    <2> QED
      BY <2>1, <2>2, <2>3, <2>4, <2>5
  <1> QED
    BY <1>1, <1>2, <1>3 DEF IInv, TypeOK, Phases

----------------------------------------------------------------------------
(* App_MainFunction, and the step as a whole.                              *)

LEMMA AppInv ==
    ASSUME IInv, AppQuiet \/ AppRefused \/ AppSubmit
    PROVE  IInv'
  <1>1. /\ tx \in Tx /\ app \in App /\ nowMs \in Clock
        /\ mailbox \in DataFrames \cup {NoFrame} /\ sent \in Seq(DataFrames)
        /\ grants \in Nat /\ sinceCf \in 0..StMin
    BY DEF IInv, TypeOK
  <1>2. /\ mailbox' = mailbox /\ nowMs' = nowMs /\ phase' = "write"
        /\ sinceCf' \in 0..StMin
    BY <1>1, TxConfig DEF AppQuiet, AppRefused, AppSubmit, At, NextTick
  <1>3. /\ tx' \in Tx /\ app' \in App /\ SessionInv' /\ FrameInv'
        /\ sent' \in Seq(DataFrames) /\ grants' \in Nat
    <2>1. CASE AppQuiet \/ AppRefused
      <3>1. /\ tx' = tx /\ sent' = sent /\ grants' = grants
            /\ app' = app \/ app' = [app EXCEPT !.length = 0]
        BY <2>1 DEF AppQuiet, AppRefused, SubmitRefused, SubmitRejected
      <3>2. app' \in App /\ app'.active = app.active
        BY <1>1, <3>1, WireConfig DEF App
      <3> QED
        BY <1>1, <1>2, <3>1, <3>2 DEF IInv, SessionInv, FrameInv, Running, NextFrame
    <2>2. CASE AppSubmit
      <3>1. PICK len \in Lengths : SubmitAccepted(len)
        BY <2>2 DEF AppSubmit
      <3> DEFINE t == [IdleTx EXCEPT !.total = len]
      <3>2. /\ len \in 1..MaxNsdu /\ tx' = Prepared(t, nowMs)
            /\ app' = [app EXCEPT !.active = TRUE, !.length = len]
            /\ tx.state = "IDLE" /\ ~tx.txPduPending
            /\ sent' = << >> /\ grants' = 0
        BY <2>2, <3>1 DEF AppSubmit, SubmitAccepted, Accepts
      <3>3. /\ t \in Tx /\ t.total = len /\ t.txOffset = 0 /\ t.blockCount = 0
            /\ ~t.txPduPending /\ ~t.resultReported
        <4>1. /\ IdleTx.txOffset = 0 /\ IdleTx.blockCount = 0
              /\ ~IdleTx.txPduPending /\ ~IdleTx.resultReported
          BY DEF IdleTx
        <4> QED
          BY <3>2, <4>1, IdleTxType DEF Tx
      <3> HIDE DEF t
      <3>4. /\ tx' \in Tx /\ tx'.state = "REQUEST_TX"
            /\ tx'.frame = NextFrame(tx')
            /\ tx'.total = len /\ tx'.txOffset = 0 /\ tx'.blockCount = 0
            /\ ~tx'.txPduPending /\ ~tx'.resultReported
        BY <1>1, <3>2, <3>3, PreparedEffect
      <3>5. app' \in App /\ app'.active
        <4>1. len \in 0..MaxNsdu /\ app' = [app EXCEPT !.active = TRUE, !.length = len]
          BY <3>2, WireConfig
        <4> QED
          BY <1>1, <4>1 DEF App
      <3>6. mailbox' = NoFrame
        BY <1>2, <3>2 DEF IInv, FrameInv
      <3> QED
        BY <3>2, <3>4, <3>5, <3>6, WireConfig DEF SessionInv, FrameInv, Running
    <2> QED
      BY <2>1, <2>2
  <1> QED
    BY <1>1, <1>2, <1>3 DEF IInv, TypeOK, Phases

(* The invariant is inductive: every call of the main loop keeps it.       *)
THEOREM NextIInv == IInv /\ [Next]_vars => IInv'
  <1> SUFFICES ASSUME IInv, [Next]_vars PROVE IInv'
    OBVIOUS
  <1>1. CASE MailboxBusy \/ NothingReceived \/ UNCHANGED vars
    <2>1. /\ UNCHANGED <<tx, app, nowMs, mailbox, sent, grants, sinceCf>>
          /\ phase' \in Phases
      BY <1>1 DEF MailboxBusy, NothingReceived, At, Phases, vars, IInv, TypeOK
    <2> QED
      BY <2>1, QuietEffect DEF IInv, TypeOK
  <1>2. CASE ConfirmData
    BY <1>2, ConfirmDataInv
  <1>3. CASE FcReceived
    BY <1>3, FcReceivedInv
  <1>4. CASE \/ MainTimeoutAs \/ MainTimeoutBs \/ MainRetried \/ MainExhausted
             \/ MainIdle \/ MainAccepted
    BY <1>4, MainInv
  <1>5. CASE AppQuiet \/ AppRefused \/ AppSubmit
    BY <1>5, AppInv
  <1> QED
    BY <1>1, <1>2, <1>3, <1>4, <1>5 DEF Next

THEOREM SpecIInv == Spec => []IInv
  BY InitIInv, NextIInv, PTL DEF Spec

----------------------------------------------------------------------------
(* The theorems.                                                           *)

(* Every variable keeps its type whatever the driver, the bus and the      *)
(* application do: offsets stay within the N-SDU buffer, sequence numbers  *)
(* and block counts within their ranges, every frame is well formed.       *)
THEOREM TypeCorrect == Spec => []TypeOK
  BY SpecIInv, PTL DEF IInv

(* The source snapshot is locked exactly while a session runs on it.       *)
THEOREM SourceLockedAlways == Spec => []SourceLocked
  <1>1. IInv => SourceLocked
    BY DEF IInv, SessionInv, SourceLocked, Running
  <1> QED
    BY <1>1, SpecIInv, PTL

(* A confirmation is only ever credited to the frame that earned it.       *)
THEOREM OwnConfirmationAlways == Spec => []OwnConfirmation
  <1>1. IInv => OwnConfirmation
    BY DEF IInv, FrameInv, OwnConfirmation, Running
  <1> QED
    BY <1>1, SpecIInv, PTL

----------------------------------------------------------------------------
(* The order and the time of the frames.                                   *)

\* The frames confirmed: all that were handed over but the one waited for.
Confirmed == Len(sent) - (IF tx.state = "WAIT_CONFIRM" THEN 1 ELSE 0)

(* Offset and sequence number count the confirmed frames, and the frames   *)
(* handed over are the segments up to there.                               *)
PositionInv ==
    Running =>
        /\ app.length = tx.total
        /\ Confirmed \in Nat
        /\ tx.txOffset = Offset(Confirmed)
        /\ tx.nextSN = IF Confirmed = 0 THEN 1 ELSE Confirmed % SnModulus
        /\ \A i \in 1..Len(sent) : sent[i] = Segment(tx.total, i)

(* A block is opened by a grant; blockCount counts what it has used up.    *)
QuotaInv ==
    /\ tx.state = "WAIT_FC" => Len(sent) <= 1 + grants * BlockSize
    /\ tx.state \in {"REQUEST_TX", "WAIT_CONFIRM", "WAIT_STMIN"} =>
          \/ tx.txOffset = 0
          \/ /\ grants > 0
             /\ Confirmed <= 1 + (grants - 1) * BlockSize + tx.blockCount

OrderInv == IInv /\ PositionInv /\ QuotaInv

----------------------------------------------------------------------------
(* The session follows the segmentation.                                   *)

\* The frame prepared after j confirmed ones is segment j + 1.
LEMMA NextIsSegment ==
    ASSUME NEW t \in Tx, NEW j \in Nat,
           t.total \in 1..MaxNsdu, t.txOffset < t.total,
           t.total <= SfMax => t.txOffset = 0,
           t.txOffset = Offset(j),
           t.nextSN = IF j = 0 THEN 1 ELSE j % SnModulus
    PROVE  NextFrame(t) = Segment(t.total, j + 1)
  <1>1. t.total \in Nat /\ t.txOffset \in Nat
    BY WireConfig DEF Tx
  <1>2. CASE t.total <= SfMax
    BY <1>2 DEF NextFrame, SfFrame, Segment
  <1>3. CASE t.total > SfMax /\ j = 0
    BY <1>1, <1>3, WireConfig DEF Offset, NextFrame, FfFrame, Segment
  <1>4. CASE t.total > SfMax /\ j # 0
    <2> DEFINE rest == t.total - t.txOffset
    <2>1. t.txOffset # 0 /\ t.txOffset = FfPayload + (j - 1) * CfPayload
      BY <1>4, OffsetType DEF Offset
    <2>2. NextFrame(t) = CfFrame(t.nextSN, t.txOffset, rest)
      BY <1>1, <1>4, <2>1, WireConfig DEF NextFrame
    <2>3. t.nextSN % SnModulus = (j + 1 - 1) % SnModulus
      <3>1. (j % SnModulus) % SnModulus = j % SnModulus
        <4>1. SnModulus \in Nat \ {0}
          BY WireConfig
        <4> QED
          BY <4>1, ModIdempotent
      <3>2. t.nextSN = j % SnModulus /\ j + 1 - 1 = j
        BY <1>4
      <3> QED
        BY <3>1, <3>2
    <2>4. FfPayload + ((j + 1) - 2) * CfPayload = t.txOffset
      BY <2>1, WireConfig
    <2>5. Segment(t.total, j + 1) =
            [kind |-> "CF", sn |-> (j + 1 - 1) % SnModulus, from |-> t.txOffset,
             bytes |-> IF rest < CfPayload THEN rest ELSE CfPayload]
      BY <1>1, <1>4, <2>4, WireConfig DEF Segment
    <2> QED
      BY <2>2, <2>3, <2>5 DEF CfFrame, CfBytes
  <1> QED
    BY <1>1, <1>2, <1>3, <1>4, WireConfig

\* What a running session knows of its position.
LEMMA Position ==
    ASSUME OrderInv, Running
    PROVE  /\ tx \in Tx /\ sent \in Seq(DataFrames) /\ grants \in Nat
           /\ tx.total \in 1..MaxNsdu /\ tx.txOffset \in Nat /\ tx.txOffset < tx.total
           /\ tx.total <= SfMax => Confirmed = 0
           /\ Confirmed \in Nat /\ Len(sent) \in Nat
           /\ tx.txOffset = Offset(Confirmed)
           /\ tx.txOffset = 0 <=> Confirmed = 0
           /\ tx.nextSN = IF Confirmed = 0 THEN 1 ELSE Confirmed % SnModulus
           /\ NextFrame(tx) = Segment(tx.total, Confirmed + 1)
  <1>1. /\ tx \in Tx /\ sent \in Seq(DataFrames) /\ grants \in Nat
        /\ tx.total \in 1..MaxNsdu /\ tx.txOffset < tx.total
        /\ tx.total <= SfMax => tx.txOffset = 0
        /\ Confirmed \in Nat /\ tx.txOffset = Offset(Confirmed)
        /\ tx.nextSN = IF Confirmed = 0 THEN 1 ELSE Confirmed % SnModulus
    BY DEF OrderInv, IInv, TypeOK, SessionInv, PositionInv
  <1>2. Offset(Confirmed) \in Nat /\ (Offset(Confirmed) = 0 <=> Confirmed = 0)
    BY <1>1, OffsetType
  <1>3. NextFrame(tx) = Segment(tx.total, Confirmed + 1)
    BY <1>1, NextIsSegment
  <1> QED
    BY <1>1, <1>2, <1>3

----------------------------------------------------------------------------
(* The invariant is inductive.                                             *)

LEMMA InitOrder == Init => OrderInv
  BY InitIInv DEF Init, TxInit, IdleTx, OrderInv, PositionInv, QuotaInv, Running

\* A session that ends takes its position with it.
LEMMA EndedOrder ==
    ASSUME tx'.state = "IDLE"
    PROVE  PositionInv' /\ QuotaInv'
  BY DEF PositionInv, QuotaInv, Running

LEMMA FinishEnds ==
    ASSUME NEW t, NEW result, Finish(t, result)
    PROVE  tx'.state = "IDLE"
  BY DEF Finish, ResetTxSession, IdleTx

LEMMA QuietOrder ==
    ASSUME OrderInv, UNCHANGED <<tx, sent, grants>>,
           Running => app' = app
    PROVE  PositionInv' /\ QuotaInv'
  BY DEF OrderInv, PositionInv, QuotaInv, Running, Confirmed

\* A confirmation moves the position on by one full segment, unless it ends
\* the session.
LEMMA CommittedPosition ==
    ASSUME OrderInv, tx.state = "WAIT_CONFIRM",
           Committed(tx).txOffset # tx.total
    PROVE  /\ Committed(tx).txOffset = Offset(Len(sent))
           /\ Committed(tx).nextSN = Len(sent) % SnModulus
           /\ Len(sent) = Confirmed + 1
           /\ tx.frame.kind = IF Confirmed = 0 THEN "FF" ELSE "CF"
  <1>1. /\ Running /\ tx.frame = NextFrame(tx) /\ tx.txPduPending
    BY DEF OrderInv, IInv, FrameInv, Running
  <1>2. /\ tx \in Tx /\ sent \in Seq(DataFrames)
        /\ tx.total \in 1..MaxNsdu /\ tx.txOffset \in Nat /\ tx.txOffset < tx.total
        /\ Confirmed \in Nat /\ Len(sent) \in Nat
        /\ tx.txOffset = Offset(Confirmed) /\ (tx.txOffset = 0 <=> Confirmed = 0)
        /\ tx.nextSN = IF Confirmed = 0 THEN 1 ELSE Confirmed % SnModulus
    BY <1>1, Position
  <1>3. Len(sent) = Confirmed + 1
    BY <1>2 DEF Confirmed
  <1>4. /\ Committed(tx).txOffset = tx.txOffset + tx.frame.bytes
        /\ tx.total <= SfMax => Committed(tx).txOffset = tx.total
    BY CommittedEffect DEF OrderInv
  <1>5. tx.total > SfMax
    BY <1>2, <1>4, WireConfig
  <1>6. CASE Confirmed = 0
    <2>1. tx.frame = FfFrame
      BY <1>1, <1>2, <1>5, <1>6, WireConfig DEF NextFrame
    <2>2. tx.frame.kind = "FF" /\ tx.frame.bytes = FfPayload
      BY <2>1 DEF FfFrame
    <2>3. Committed(tx).nextSN = tx.nextSN
      BY <1>2, <2>2 DEF Committed, Tx
    <2>4. 1 % SnModulus = 1
      BY WireConfig, ModUnique, 0 * SnModulus + 1 = 1
    <2>5. Offset(1) = FfPayload
      BY WireConfig DEF Offset
    <2> QED
      BY <1>2, <1>3, <1>4, <1>6, <2>2, <2>3, <2>4, <2>5, WireConfig
  <1>7. CASE Confirmed # 0
    <2>1. tx.frame = CfFrame(tx.nextSN, tx.txOffset, tx.total - tx.txOffset)
      BY <1>1, <1>2, <1>5, <1>7, WireConfig DEF NextFrame
    <2>2. /\ tx.frame.kind = "CF"
          /\ tx.frame.bytes = CfBytes(tx.total - tx.txOffset)
      BY <2>1 DEF CfFrame
    <2>3. tx.frame.bytes = CfPayload
      BY <1>2, <1>4, <2>2, WireConfig DEF CfBytes
    <2>4. Committed(tx).nextSN = (tx.nextSN + 1) % SnModulus
      BY <1>2, <2>2 DEF Committed, Tx
    <2>5. Committed(tx).nextSN = (Confirmed + 1) % SnModulus
      BY <1>2, <1>7, <2>4, ModSuccessor, WireConfig
    <2>6. Offset(Confirmed + 1) = Offset(Confirmed) + CfPayload
      BY <1>2, <1>7, OffsetNext
    <2> QED
      BY <1>2, <1>3, <1>4, <1>7, <2>2, <2>3, <2>5, <2>6
  <1> QED
    BY <1>6, <1>7

LEMMA ConfirmOrder ==
    ASSUME OrderInv, ConfirmData
    PROVE  PositionInv' /\ QuotaInv'
  <1>1. DataTxConfirmation /\ sent' = sent /\ grants' = grants
    BY DEF ConfirmData
  <1>2. CASE LateConfirmation
    <2>1. ~Running
      BY <1>2 DEF LateConfirmation, OrderInv, IInv, FrameInv
    <2>2. tx'.state = "IDLE"
      BY <1>2, <2>1 DEF LateConfirmation, Running, OrderInv, IInv, TypeOK, Tx
    <2> QED
      BY <2>2, EndedOrder
  <1>3. CASE LastFrameConfirmed
    BY <1>3, FinishEnds, EndedOrder DEF LastFrameConfirmed
  <1>4. CASE BlockConfirmed \/ FrameConfirmed
    <2> DEFINE t == Committed(tx)
    <2>1. /\ tx.state = "WAIT_CONFIRM" /\ t.txOffset # tx.total /\ app' = app
      BY <1>4 DEF BlockConfirmed, FrameConfirmed
    <2>2. /\ t.txOffset = Offset(Len(sent)) /\ t.nextSN = Len(sent) % SnModulus
          /\ Len(sent) = Confirmed + 1
          /\ tx.frame.kind = IF Confirmed = 0 THEN "FF" ELSE "CF"
      BY <2>1, CommittedPosition
    <2>3. /\ t \in Tx /\ t.total = tx.total /\ t.frame = tx.frame
          /\ t.blockCount = IF tx.frame.kind = "CF"
                            THEN tx.blockCount + 1 ELSE tx.blockCount
      BY <2>1, CommittedEffect DEF OrderInv
    <2>4. /\ tx \in Tx /\ Confirmed \in Nat /\ Len(sent) \in Nat /\ grants \in Nat
          /\ tx.txOffset = 0 <=> Confirmed = 0
          /\ tx.blockCount \in Nat
      BY <2>1, Position DEF Running, Tx
    <2>5. /\ tx'.total = t.total /\ tx'.txOffset = t.txOffset
          /\ tx'.nextSN = t.nextSN /\ tx'.blockCount = t.blockCount
          /\ tx'.state = IF BlockDone(t) THEN "WAIT_FC" ELSE "WAIT_STMIN"
      BY <1>4, <2>3 DEF BlockConfirmed, FrameConfirmed, Tx
    <2> HIDE DEF t
    <2>6. PositionInv'
      <3>1. Confirmed' = Len(sent)
        BY <1>1, <2>4, <2>5 DEF Confirmed
      <3>2. Len(sent) # 0
        BY <2>2, <2>4
      <3> QED
        BY <1>1, <2>1, <2>2, <2>3, <2>4, <2>5, <3>1, <3>2
           DEF OrderInv, PositionInv, Running
    <2>7. QuotaInv'
      <3>1. Confirmed' = Confirmed + 1
        BY <1>1, <2>2, <2>4, <2>5 DEF Confirmed
      <3>2. Confirmed = 0 \/ ( /\ grants > 0
                              /\ Confirmed <= 1 + (grants - 1) * BlockSize
                                                + tx.blockCount)
        BY <2>1, <2>4 DEF OrderInv, QuotaInv
      <3>3. (grants - 1) * BlockSize = grants * BlockSize - BlockSize
            /\ grants * BlockSize \in Nat
        BY <2>4, WireConfig
      <3>4. CASE Confirmed = 0
        <4>1. tx'.state = "WAIT_FC" /\ Len(sent) = 1
          BY <2>2, <2>3, <2>5, <3>4 DEF BlockDone
        <4> QED
          BY <1>1, <3>3, <4>1 DEF QuotaInv
      <3>5. CASE Confirmed # 0
        <4>1. /\ t.blockCount = tx.blockCount + 1
              /\ BlockDone(t) <=> t.blockCount = BlockSize
              /\ Confirmed + 1 <= 1 + (grants - 1) * BlockSize + t.blockCount
              /\ grants > 0
          BY <2>2, <2>3, <2>4, <3>2, <3>3, <3>5, WireConfig DEF BlockDone
        <4> QED
          BY <1>1, <2>2, <2>4, <2>5, <3>1, <3>3, <4>1, WireConfig DEF QuotaInv
      <3> QED
        BY <3>4, <3>5
    <2> QED
      BY <2>6, <2>7
  <1> QED
    BY <1>1, <1>2, <1>3, <1>4 DEF DataTxConfirmation

LEMMA FcOrder ==
    ASSUME OrderInv, FcReceived
    PROVE  PositionInv' /\ QuotaInv'
  <1>1. PICK cts \in BOOLEAN :
           /\ FlowControl(cts)
           /\ grants' = IF cts /\ tx.state = "WAIT_FC" THEN grants + 1 ELSE grants
    BY DEF FcReceived
  <1>2. sent' = sent
    BY DEF FcReceived
  <1>3. CASE FcIgnored
    <2>1. UNCHANGED <<tx, app, sent, grants>>
      BY <1>1, <1>2, <1>3 DEF FcIgnored
    <2> QED
      BY <2>1, QuietOrder
  <1>4. CASE ~cts /\ FcInvalid
    BY <1>4, FinishEnds, EndedOrder DEF FcInvalid
  <1>5. CASE cts /\ FcGranted
    <2> DEFINE t == [tx EXCEPT !.nBsActive = FALSE, !.blockCount = 0,
                               !.fcPermissionGranted = TRUE]
    <2>1. /\ tx.state = "WAIT_FC" /\ tx' = AfterFc(t) /\ app' = app
          /\ grants' = grants + 1
      BY <1>1, <1>5 DEF FcGranted
    <2>2. /\ tx \in Tx /\ Len(sent) \in Nat /\ grants \in Nat /\ Confirmed \in Nat
      BY <2>1, Position DEF Running
    <2>3. /\ tx'.state \in {"REQUEST_TX", "WAIT_STMIN"} /\ tx'.total = tx.total
          /\ tx'.txOffset = tx.txOffset /\ tx'.nextSN = tx.nextSN
          /\ tx'.blockCount = 0
      BY <2>1, <2>2 DEF AfterFc, Prepared, Tx
    <2>4. Confirmed = Len(sent) /\ Confirmed' = Confirmed
      BY <1>2, <2>1, <2>2, <2>3 DEF Confirmed
    <2>5. PositionInv'
      BY <1>2, <2>1, <2>3, <2>4 DEF OrderInv, PositionInv, Running
    <2>6. Len(sent) <= 1 + grants * BlockSize
      BY <2>1 DEF OrderInv, QuotaInv
    <2>7. grants' > 0 /\ grants' - 1 = grants
      BY <2>1, <2>2
    <2>8. Confirmed' <= 1 + (grants' - 1) * BlockSize + tx'.blockCount
      <3>1. grants * BlockSize \in Nat
        BY <2>2, WireConfig
      <3> HIDE DEF t
      <3>2. Confirmed' <= 1 + grants * BlockSize + tx'.blockCount
        BY <2>3, <2>4, <2>6, <3>1
      <3> QED
        BY <2>7, <3>2
    <2>9. QuotaInv'
      BY <2>3, <2>7, <2>8 DEF QuotaInv
    <2> QED
      BY <2>5, <2>9
  <1> QED
    BY <1>1, <1>3, <1>4, <1>5 DEF FlowControl

LEMMA MainOrder ==
    ASSUME OrderInv,
           \/ MainTimeoutAs \/ MainTimeoutBs \/ MainRetried \/ MainExhausted
           \/ MainIdle \/ MainAccepted
    PROVE  PositionInv' /\ QuotaInv'
  <1> DEFINE now == nowMs'
             t == Requesting(now)
  <1>1. now \in Clock /\ grants' = grants
    BY NextMsClock
       DEF OrderInv, IInv, TypeOK, MainTimeoutAs, MainTimeoutBs, MainRetried,
           MainExhausted, MainIdle, MainAccepted, Main
  <1>2. CASE MainTimeoutAs \/ MainTimeoutBs \/ MainExhausted
    BY <1>2, FinishEnds, EndedOrder
       DEF MainTimeoutAs, MainTimeoutBs, MainExhausted, Main, NAsTimeout,
           NBsTimeout, RequestExhausted
  <1>3. CASE MainIdle
    <2>1. UNCHANGED <<tx, app, sent>>
      BY <1>3 DEF MainIdle, Main, NothingDue
    <2> QED
      BY <1>1, <2>1, QuietOrder
  <1>4. CASE MainRetried \/ MainAccepted
    <2>1. RequestDue(now) /\ app' = app
      BY <1>4 DEF MainRetried, MainAccepted, Main, RequestRetried, RequestAccepted
    <2>2. /\ Running /\ t \in Tx /\ t.state = "REQUEST_TX"
          /\ t.frame = NextFrame(t) /\ t.frame \in DataFrames
          /\ t.total = tx.total /\ t.txOffset = tx.txOffset
          /\ t.nextSN = tx.nextSN /\ t.blockCount = tx.blockCount
          /\ tx.state # "WAIT_CONFIRM" /\ tx.state # "WAIT_FC"
      BY <1>1, <2>1, RequestingEffect DEF OrderInv
    <2>3. /\ sent \in Seq(DataFrames) /\ Len(sent) \in Nat
          /\ Confirmed \in Nat /\ tx \in Tx
          /\ NextFrame(tx) = Segment(tx.total, Confirmed + 1)
      BY <2>2, Position
    <2>4. Confirmed = Len(sent)
      BY <2>2, <2>3 DEF Confirmed
    <2>5. /\ tx'.total = tx.total /\ tx'.txOffset = tx.txOffset
          /\ tx'.nextSN = tx.nextSN /\ tx'.blockCount = tx.blockCount
          /\ tx'.frame = t.frame
          /\ tx'.state = IF MainAccepted THEN "WAIT_CONFIRM" ELSE "REQUEST_TX"
          /\ MainAccepted => sent' = Append(sent, tx'.frame)
          /\ ~MainAccepted => sent' = sent
      <3>1. CASE MainAccepted
        BY <2>2, <3>1 DEF MainAccepted, Main, RequestAccepted, Tx
      <3>2. CASE ~MainAccepted
        BY <1>4, <2>2, <3>2 DEF MainRetried, Main, RequestRetried, Tx
      <3> QED
        BY <3>1, <3>2
    <2> HIDE DEF now, t
    <2>6. t.frame = Segment(tx.total, Len(sent) + 1)
      BY <2>2, <2>3, <2>4 DEF NextFrame
    <2>7. Confirmed' = Confirmed
      BY <2>2, <2>3, <2>4, <2>5 DEF Confirmed
    <2>8. \A i \in 1..Len(sent') : sent'[i] = Segment(tx.total, i)
      BY <2>2, <2>3, <2>5, <2>6 DEF OrderInv, PositionInv
    <2>9. PositionInv'
      BY <2>1, <2>2, <2>5, <2>7, <2>8 DEF OrderInv, PositionInv, Running
    <2>10. QuotaInv'
      <3>1. tx.state \in {"REQUEST_TX", "WAIT_STMIN"}
        BY <2>2, <2>3 DEF Running, Tx, TxStates
      <3> QED
        BY <1>1, <2>5, <2>7, <3>1 DEF OrderInv, QuotaInv
    <2> QED
      BY <2>9, <2>10
  <1> QED
    BY <1>2, <1>3, <1>4

LEMMA AppOrder ==
    ASSUME OrderInv, AppQuiet \/ AppRefused \/ AppSubmit
    PROVE  PositionInv' /\ QuotaInv'
  <1>1. CASE AppQuiet
    BY <1>1, QuietOrder DEF AppQuiet
  <1>2. CASE AppRefused
    <2>1. UNCHANGED <<tx, sent, grants>> /\ (app' = app \/ ~app.active)
      BY <1>2 DEF AppRefused, SubmitRefused, SubmitRejected
    <2>2. Running => app.active
      BY DEF OrderInv, IInv, SessionInv
    <2> QED
      BY <2>1, <2>2, QuietOrder
  <1>3. CASE AppSubmit
    <2>1. PICK len \in Lengths : SubmitAccepted(len)
      BY <1>3 DEF AppSubmit
    <2>2. /\ sent' = << >> /\ grants' = 0
          /\ tx' = Prepared([IdleTx EXCEPT !.total = len], nowMs)
          /\ app' = [app EXCEPT !.active = TRUE, !.length = len]
      BY <1>3, <2>1 DEF AppSubmit, SubmitAccepted
    <2>3. /\ tx'.state = "REQUEST_TX" /\ tx'.total = len
          /\ tx'.txOffset = 0 /\ tx'.nextSN = 1
      BY <2>2 DEF Prepared, IdleTx
    <2>4. app'.length = len
      BY <2>2 DEF OrderInv, IInv, TypeOK, App
    <2>5. Confirmed' = 0
      BY <2>2, <2>3 DEF Confirmed
    <2>6. Offset(0) = 0
      BY DEF Offset
    <2>7. \A i \in 1..Len(sent') : sent'[i] = Segment(tx'.total, i)
      BY <2>2
    <2> QED
      BY <2>3, <2>4, <2>5, <2>6, <2>7 DEF PositionInv, QuotaInv
  <1> QED
    BY <1>1, <1>2, <1>3

THEOREM NextOrder == OrderInv /\ [Next]_vars => OrderInv'
  <1> SUFFICES ASSUME OrderInv, [Next]_vars PROVE OrderInv'
    OBVIOUS
  <1>1. IInv'
    BY NextIInv DEF OrderInv
  <1>2. PositionInv' /\ QuotaInv'
    <2>1. CASE MailboxBusy \/ NothingReceived \/ UNCHANGED vars
      BY <2>1, QuietOrder DEF MailboxBusy, NothingReceived, vars
    <2>2. CASE ConfirmData
      BY <2>2, ConfirmOrder
    <2>3. CASE FcReceived
      BY <2>3, FcOrder
    <2>4. CASE \/ MainTimeoutAs \/ MainTimeoutBs \/ MainRetried \/ MainExhausted
               \/ MainIdle \/ MainAccepted
      BY <2>4, MainOrder
    <2>5. CASE AppQuiet \/ AppRefused \/ AppSubmit
      BY <2>5, AppOrder
    <2> QED
      BY <2>1, <2>2, <2>3, <2>4, <2>5 DEF Next
  <1> QED
    BY <1>1, <1>2 DEF OrderInv

THEOREM SpecOrder == Spec => []OrderInv
  BY InitOrder, NextOrder, PTL DEF Spec

----------------------------------------------------------------------------
(* The theorems.                                                           *)

(* Retries, timeouts and late confirmations notwithstanding, the driver is *)
(* given the segments of the N-SDU, in order and each once.                *)
THEOREM SegmentsInOrderAlways == Spec => []SegmentsInOrder
  <1>1. OrderInv => SegmentsInOrder
    <2> SUFFICES ASSUME OrderInv, Running PROVE
            /\ Len(sent) <= SegmentCount(tx.total)
            /\ \A i \in 1..Len(sent) : sent[i] = Segment(tx.total, i)
      BY DEF SegmentsInOrder, Running
    <2>1. /\ tx.total \in 1..MaxNsdu /\ tx.txOffset < tx.total
          /\ tx.total <= SfMax => Confirmed = 0
          /\ Confirmed \in Nat /\ Len(sent) \in Nat
          /\ tx.txOffset = Offset(Confirmed)
      BY Position
    <2>2. Confirmed + 1 <= SegmentCount(tx.total)
      BY <2>1, CountLower
    <2>3. Len(sent) <= Confirmed + 1
      BY <2>1 DEF Confirmed
    <2>4. SegmentCount(tx.total) \in Int
      BY SMTT(20), <2>1, WireConfig DEF SegmentCount
    <2> QED
      BY <2>1, <2>2, <2>3, <2>4 DEF OrderInv, PositionInv
  <1> QED
    BY <1>1, SpecOrder, PTL

(* No CF leaves before the block it belongs to was granted.                *)
THEOREM BlockQuotaAlways == Spec => []BlockQuota
  <1>1. OrderInv => BlockQuota
    <2> SUFFICES ASSUME OrderInv, Running PROVE Len(sent) <= 1 + grants * BlockSize
      BY DEF BlockQuota, Running
    <2>1. /\ tx \in Tx /\ grants \in Nat /\ Confirmed \in Nat /\ Len(sent) \in Nat
          /\ tx.txOffset = 0 <=> Confirmed = 0
      BY Position
    <2>2. Len(sent) <= Confirmed + 1 /\ grants * BlockSize \in Nat
      BY <2>1, WireConfig DEF Confirmed
    <2>3. CASE tx.state = "WAIT_FC"
      BY <2>3 DEF OrderInv, QuotaInv
    <2>4. CASE tx.state # "WAIT_FC"
      <3>1. tx.state \in {"REQUEST_TX", "WAIT_CONFIRM", "WAIT_STMIN"}
        BY <2>1, <2>4 DEF Running, Tx, TxStates
      <3>2. CASE Confirmed = 0
        BY <2>1, <2>2, <3>2
      <3>3. CASE Confirmed # 0
        <4>1. /\ Confirmed <= 1 + (grants - 1) * BlockSize + tx.blockCount
              /\ tx.blockCount < BlockSize /\ tx.blockCount \in Nat
          BY <2>1, <3>1, <3>3 DEF OrderInv, QuotaInv, IInv, SessionInv, Tx
        <4>2. (grants - 1) * BlockSize = grants * BlockSize - BlockSize
          BY <2>1, WireConfig
        <4> QED
          BY <2>1, <2>2, <4>1, <4>2, WireConfig
      <3> QED
        BY <3>2, <3>3
    <2> QED
      BY <2>3, <2>4
  <1> QED
    BY <1>1, SpecOrder, PTL

(* E_OK is reported only after the last segment was confirmed.             *)
THEOREM SuccessMeansAllSentAlways == Spec => SuccessMeansAllSent
  <1>1. ASSUME OrderInv, [Next]_vars,
               app.active, ~app'.active, app'.lastResult = "E_OK"
        PROVE  Len(sent) = SegmentCount(app.length) /\ mailbox' = NoFrame
    <2>1. ConfirmData /\ LastFrameConfirmed
      <3>1. app' # app
        BY <1>1
      <3>2. ASSUME NEW t, Finish(t, "E_NOT_OK") PROVE FALSE
        <4>1. app' = app \/ app' = AppConfirmation(app, "E_NOT_OK")
          BY <3>2 DEF Finish
        <4> QED
          BY <1>1, <4>1 DEF AppConfirmation
      <3>3. ~MailboxBusy /\ ~NothingReceived /\ ~AppQuiet /\ ~UNCHANGED vars
        BY <3>1 DEF MailboxBusy, NothingReceived, AppQuiet, vars
      <3>4. ~FcReceived
        BY <3>1, <3>2 DEF FcReceived, FlowControl, FcIgnored, FcInvalid, FcGranted
      <3>5. /\ ~MainTimeoutAs /\ ~MainTimeoutBs /\ ~MainRetried /\ ~MainExhausted
            /\ ~MainIdle /\ ~MainAccepted
        BY <3>1, <3>2 DEF MainTimeoutAs, MainTimeoutBs, MainRetried, MainExhausted,
           MainIdle, MainAccepted, Main, NAsTimeout, NBsTimeout, RequestRetried,
           RequestExhausted, NothingDue, RequestAccepted
      <3>6. ~AppRefused /\ ~AppSubmit
        BY <1>1, <3>1 DEF AppRefused, AppSubmit, SubmitRefused, SubmitRejected,
           SubmitAccepted
      <3>7. ConfirmData
        BY <1>1, <3>3, <3>4, <3>5, <3>6 DEF Next
      <3> QED
        BY <3>1, <3>7 DEF ConfirmData, DataTxConfirmation, LateConfirmation,
           BlockConfirmed, FrameConfirmed
    <2>2. /\ tx.state = "WAIT_CONFIRM" /\ mailbox' = NoFrame
          /\ Committed(tx).txOffset = tx.total
      BY <2>1 DEF ConfirmData, LastFrameConfirmed
    <2>3. /\ tx \in Tx /\ tx.total \in 1..MaxNsdu /\ tx.txOffset \in Nat
          /\ tx.txOffset < tx.total
          /\ tx.total <= SfMax => Confirmed = 0
          /\ Confirmed \in Nat /\ Len(sent) \in Nat
          /\ tx.txOffset = Offset(Confirmed)
          /\ tx.txOffset = 0 <=> Confirmed = 0
      BY <1>1, <2>2, Position DEF Running
    <2>4. /\ Len(sent) = Confirmed + 1 /\ app.length = tx.total
          /\ tx.frame = NextFrame(tx)
      BY <1>1, <2>2, <2>3 DEF Confirmed, OrderInv, PositionInv, IInv, FrameInv, Running
    <2>5. tx.total = tx.txOffset + tx.frame.bytes
      BY <1>1, <2>2, CommittedEffect DEF OrderInv
    <2>6. Confirmed = 0 => tx.total <= SfMax
      <3> SUFFICES ASSUME Confirmed = 0, tx.total > SfMax PROVE FALSE
        BY <2>3, WireConfig
      <3>1. tx.frame.bytes = FfPayload
        BY <2>3, <2>4, WireConfig DEF NextFrame, FfFrame
      <3> QED
        BY <2>3, <2>5, <3>1, WireConfig
    <2>7. Confirmed # 0 => tx.total - Offset(Confirmed) <= CfPayload
      <3> SUFFICES ASSUME Confirmed # 0
                   PROVE  tx.total - Offset(Confirmed) <= CfPayload
        OBVIOUS
      <3>1. tx.total > SfMax
        BY <2>3, WireConfig
      <3>2. tx.frame = CfFrame(tx.nextSN, tx.txOffset, tx.total - tx.txOffset)
        BY <2>3, <2>4, <3>1, WireConfig DEF NextFrame
      <3>3. tx.frame.bytes = CfBytes(tx.total - tx.txOffset)
        BY <3>2 DEF CfFrame
      <3>4. /\ CfBytes(tx.total - tx.txOffset) \in Nat
            /\ CfBytes(tx.total - tx.txOffset) <= CfPayload
        BY <2>3, WireConfig DEF CfBytes
      <3> QED
        BY <2>3, <2>5, <3>3, <3>4
    <2> QED
      BY <2>2, <2>3, <2>4, <2>6, <2>7, CountExact
  <1> QED
    BY <1>1, SpecOrder, PTL DEF Spec, SuccessMeansAllSent

----------------------------------------------------------------------------
(* The separation time: how far apart the CFs are, on a clock that wraps.  *)

(* sinceCf is counted when a tick ends, CanTp's clock when CanTp is called *)
(* in it: between the two the clock is one tick ahead.                     *)
TimingInv ==
    /\ Running => (tx.priorCfExists <=> Confirmed >= 2)
    /\ Running /\ tx.priorCfExists /\ sinceCf < StMin =>
          Elapsed(nowMs, tx.lastCfConfirmedMs)
              <= sinceCf + (IF phase = "app" THEN 1 ELSE 0)
    /\ tx.state = "REQUEST_TX" /\ tx.priorCfExists => sinceCf >= StMin - 1

PacedInv == OrderInv /\ TimingInv

----------------------------------------------------------------------------

LEMMA ElapsedType ==
    ASSUME NEW now \in Clock, NEW start \in Clock
    PROVE  Elapsed(now, start) \in Nat
  BY ModRange, ClockConfig DEF Clock, Elapsed

LEMMA ElapsedValue ==
    ASSUME NEW now \in Clock, NEW start \in Clock
    PROVE  Elapsed(now, start) = IF now >= start THEN now - start
                                 ELSE now - start + ClockModulus
  <1>1. CASE now >= start
    BY <1>1, ClockConfig, ModUnique, 0 * ClockModulus + (now - start) = now - start
       DEF Clock, Elapsed
  <1>2. CASE now < start
    <2>1. now - start + ClockModulus \in 0..(ClockModulus - 1)
      BY <1>2, ClockConfig DEF Clock
    <2>2. ((-1) * ClockModulus + (now - start + ClockModulus)) % ClockModulus
            = now - start + ClockModulus
      BY <2>1, ClockConfig, ModUnique
    <2>3. (-1) * ClockModulus + (now - start + ClockModulus) = now - start
      BY ClockConfig DEF Clock
    <2>4. Elapsed(now, start) = now - start + ClockModulus
      BY <2>2, <2>3 DEF Elapsed
    <2>5. ~(now >= start)
      BY <1>2 DEF Clock
    <2> QED
      BY <2>4, <2>5
  <1> QED
    BY <1>1, <1>2 DEF Clock

LEMMA ElapsedNext ==
    ASSUME NEW now \in Clock, NEW start \in Clock
    PROVE  Elapsed(NextMs(now), start) <= Elapsed(now, start) + 1
  <1>1. NextMs(now) \in Clock
    BY NextMsClock
  <1>2. NextMs(now) = IF now + 1 < ClockModulus THEN now + 1 ELSE 0
    BY ClockConfig DEF Clock, NextMs
  <1>3. Elapsed(NextMs(now), start) = IF NextMs(now) >= start THEN NextMs(now) - start
                                      ELSE NextMs(now) - start + ClockModulus
    BY <1>1, ElapsedValue
  <1>4. Elapsed(now, start) = IF now >= start THEN now - start
                              ELSE now - start + ClockModulus
    BY ElapsedValue
  <1> QED
    BY <1>2, <1>3, <1>4, ClockConfig DEF Clock

----------------------------------------------------------------------------
(* The invariant is inductive.                                             *)

LEMMA InitTiming == Init => PacedInv
  BY InitOrder DEF Init, TxInit, IdleTx, PacedInv, TimingInv, Running

\* A session that ends owes nothing.
LEMMA EndedTiming ==
    ASSUME tx'.state = "IDLE"
    PROVE  TimingInv'
  BY DEF TimingInv, Running

\* Calls that leave the session and both clocks alone.
LEMMA QuietTiming ==
    ASSUME PacedInv, UNCHANGED <<tx, sent, nowMs, sinceCf>>,
           phase # "app", phase' # "app"
    PROVE  TimingInv'
  BY DEF PacedInv, TimingInv, Running, Confirmed

LEMMA ConfirmTiming ==
    ASSUME PacedInv, ConfirmData
    PROVE  TimingInv'
  <1>1. /\ DataTxConfirmation /\ sent' = sent /\ nowMs' = nowMs
        /\ phase' = "read" /\ phase = "write"
        /\ sinceCf' = IF mailbox.kind = "CF" THEN 0 ELSE sinceCf
    BY DEF ConfirmData, At
  <1>2. CASE LateConfirmation
    <2>1. tx'.state = "IDLE"
      BY <1>2 DEF LateConfirmation, Running, PacedInv, OrderInv, IInv, FrameInv,
                  TypeOK, Tx
    <2> QED
      BY <2>1, EndedTiming
  <1>3. CASE LastFrameConfirmed
    BY <1>3, FinishEnds, EndedTiming DEF LastFrameConfirmed
  <1>4. CASE BlockConfirmed \/ FrameConfirmed
    <2> DEFINE t == Committed(tx)
    <2>1. /\ tx.state = "WAIT_CONFIRM" /\ t.txOffset # tx.total
      BY <1>4 DEF BlockConfirmed, FrameConfirmed
    <2>2. /\ tx \in Tx /\ Confirmed \in Nat /\ Len(sent) \in Nat /\ nowMs \in Clock
          /\ mailbox = tx.frame /\ t \in Tx
      BY <2>1, Position, CommittedEffect
         DEF PacedInv, OrderInv, IInv, TypeOK, FrameInv, Running
    <2>3. /\ Len(sent) = Confirmed + 1
          /\ tx.frame.kind = IF Confirmed = 0 THEN "FF" ELSE "CF"
      BY <2>1, CommittedPosition DEF PacedInv
    <2>4. /\ t.priorCfExists <=> (tx.frame.kind = "CF" \/ tx.priorCfExists)
          /\ tx.frame.kind = "CF" => t.lastCfConfirmedMs = nowMs
      BY <2>2 DEF Committed, Tx
    <2>5. /\ tx'.priorCfExists = t.priorCfExists
          /\ tx'.lastCfConfirmedMs = t.lastCfConfirmedMs
          /\ tx'.state \in {"WAIT_FC", "WAIT_STMIN"}
      BY <1>4, <2>2 DEF BlockConfirmed, FrameConfirmed, Tx
    <2> HIDE DEF t
    <2>6. Confirmed' = Confirmed + 1
      BY <1>1, <2>2, <2>3, <2>5 DEF Confirmed
    <2>7. ~tx.priorCfExists \/ Confirmed >= 2
      BY <2>1 DEF PacedInv, TimingInv, Running
    <2>8. Elapsed(nowMs, nowMs) = 0
      BY <2>2, ElapsedValue DEF Clock
    <2> QED
      BY <1>1, <2>2, <2>3, <2>4, <2>5, <2>6, <2>7, <2>8 DEF TimingInv
  <1> QED
    BY <1>1, <1>2, <1>3, <1>4 DEF DataTxConfirmation

LEMMA FcTiming ==
    ASSUME PacedInv, FcReceived
    PROVE  TimingInv'
  <1>1. /\ FcIgnored \/ FcGranted \/ FcInvalid
        /\ UNCHANGED <<sent, nowMs, sinceCf>> /\ phase = "read" /\ phase' = "cantp"
    BY DEF FcReceived, FlowControl, At
  <1>2. CASE FcIgnored
    BY <1>1, <1>2, QuietTiming DEF FcIgnored
  <1>3. CASE FcInvalid
    BY <1>3, FinishEnds, EndedTiming DEF FcInvalid
  <1>4. CASE FcGranted
    <2>1. tx.state = "WAIT_FC" /\ tx \in Tx
      BY <1>4 DEF FcGranted, PacedInv, OrderInv, IInv, TypeOK
    <2>2. /\ tx'.priorCfExists = tx.priorCfExists
          /\ tx'.lastCfConfirmedMs = tx.lastCfConfirmedMs
          /\ tx'.state = IF tx.priorCfExists THEN "WAIT_STMIN" ELSE "REQUEST_TX"
      BY <1>4, <2>1 DEF FcGranted, AfterFc, Prepared, Tx
    <2>3. Confirmed' = Confirmed
      BY <1>1, <2>1, <2>2 DEF Confirmed
    <2> QED
      BY <1>1, <2>1, <2>2, <2>3 DEF PacedInv, TimingInv, Running
  <1> QED
    BY <1>1, <1>2, <1>3, <1>4

\* A frame that is requested after a CF has waited for its gate.
LEMMA RequestPaced ==
    ASSUME PacedInv, phase # "app", NextMs(nowMs) \in Clock, nowMs \in Clock,
           RequestDue(NextMs(nowMs)), tx.priorCfExists
    PROVE  sinceCf >= StMin - 1
  <1> DEFINE now == NextMs(nowMs)
  <1>1. CASE tx.state = "REQUEST_TX"
    BY <1>1 DEF PacedInv, TimingInv
  <1>2. CASE StMinGateOpen(now)
    <2>1. /\ tx.state = "WAIT_STMIN" /\ Elapsed(now, tx.lastCfConfirmedMs) >= StMin
      BY <1>2 DEF StMinGateOpen, HasElapsed
    <2>2. /\ tx.lastCfConfirmedMs \in Clock /\ sinceCf \in 0..StMin
      BY DEF PacedInv, OrderInv, IInv, TypeOK, Tx
    <2>3. Elapsed(now, tx.lastCfConfirmedMs) <= Elapsed(nowMs, tx.lastCfConfirmedMs) + 1
      BY <2>2, ElapsedNext
    <2>4. /\ Elapsed(now, tx.lastCfConfirmedMs) \in Nat
          /\ Elapsed(nowMs, tx.lastCfConfirmedMs) \in Nat
      BY <2>2, ElapsedType
    <2>5. sinceCf < StMin => Elapsed(nowMs, tx.lastCfConfirmedMs) <= sinceCf
      BY <2>1, <2>2 DEF PacedInv, TimingInv, Running
    <2> HIDE DEF now
    <2> QED
      BY <2>1, <2>2, <2>3, <2>4, <2>5, TxConfig
  <1>3. tx.state = "REQUEST_TX" \/ StMinGateOpen(now)
    BY DEF RequestDue, Requesting
  <1> QED
    BY <1>1, <1>2, <1>3

LEMMA MainTiming ==
    ASSUME PacedInv,
           \/ MainTimeoutAs \/ MainTimeoutBs \/ MainRetried \/ MainExhausted
           \/ MainIdle \/ MainAccepted
    PROVE  TimingInv'
  <1> DEFINE now == NextMs(nowMs)
             t == Requesting(now)
  <1>1. /\ nowMs \in Clock /\ now \in Clock /\ nowMs' = now
        /\ sinceCf' = sinceCf /\ sinceCf \in 0..StMin
        /\ phase = "cantp" /\ phase' = "app" /\ tx \in Tx
    BY NextMsClock
       DEF PacedInv, OrderInv, IInv, TypeOK, MainTimeoutAs, MainTimeoutBs,
           MainRetried, MainExhausted, MainIdle, MainAccepted, Main, At
  <1>2. CASE MainTimeoutAs \/ MainTimeoutBs \/ MainExhausted
    BY <1>2, FinishEnds, EndedTiming
       DEF MainTimeoutAs, MainTimeoutBs, MainExhausted, Main, NAsTimeout,
           NBsTimeout, RequestExhausted
  <1>3. Running /\ tx.priorCfExists /\ sinceCf < StMin =>
           Elapsed(now, tx.lastCfConfirmedMs) <= sinceCf + 1
    <2> SUFFICES ASSUME Running, tx.priorCfExists, sinceCf < StMin
                 PROVE  Elapsed(now, tx.lastCfConfirmedMs) <= sinceCf + 1
      OBVIOUS
    <2>1. tx.lastCfConfirmedMs \in Clock
      BY <1>1 DEF Tx
    <2>2. Elapsed(now, tx.lastCfConfirmedMs) <= Elapsed(nowMs, tx.lastCfConfirmedMs) + 1
      BY <1>1, <2>1, ElapsedNext
    <2>3. /\ Elapsed(now, tx.lastCfConfirmedMs) \in Nat
          /\ Elapsed(nowMs, tx.lastCfConfirmedMs) \in Nat
      BY <1>1, <2>1, ElapsedType
    <2>4. Elapsed(nowMs, tx.lastCfConfirmedMs) <= sinceCf
      BY <1>1 DEF PacedInv, TimingInv
    <2> QED
      BY <1>1, <2>2, <2>3, <2>4
  <1>4. CASE MainIdle
    <2>1. tx' = tx /\ sent' = sent
      BY <1>4 DEF MainIdle, Main, NothingDue
    <2> QED
      BY <1>1, <1>3, <2>1 DEF PacedInv, TimingInv, Running, Confirmed
  <1>5. CASE MainRetried \/ MainAccepted
    <2>1. RequestDue(now)
      BY <1>1, <1>5 DEF MainRetried, MainAccepted, Main, RequestRetried, RequestAccepted
    <2>2. /\ Running /\ t \in Tx
          /\ tx.state # "WAIT_CONFIRM" /\ t.frame \in DataFrames
      BY <1>1, <2>1, RequestingEffect DEF PacedInv, OrderInv
    <2>3. /\ t.priorCfExists = tx.priorCfExists
          /\ t.lastCfConfirmedMs = tx.lastCfConfirmedMs
      BY <1>1 DEF Requesting, Prepared, Tx
    <2>4. /\ tx'.priorCfExists = tx.priorCfExists
          /\ tx'.lastCfConfirmedMs = tx.lastCfConfirmedMs
          /\ tx'.state = IF MainAccepted THEN "WAIT_CONFIRM" ELSE t.state
          /\ MainAccepted => sent' = Append(sent, tx'.frame)
          /\ ~MainAccepted => sent' = sent
      <3>1. CASE MainAccepted
        BY <1>1, <2>2, <2>3, <3>1 DEF MainAccepted, Main, RequestAccepted, Tx
      <3>2. CASE ~MainAccepted
        BY <1>1, <1>5, <2>2, <2>3, <3>2 DEF MainRetried, Main, RequestRetried, Tx
      <3> QED
        BY <3>1, <3>2
    <2>5. t.state = "REQUEST_TX" /\ sent \in Seq(DataFrames)
      BY <2>1 DEF RequestDue, PacedInv, OrderInv, IInv, TypeOK
    <2>6. tx.priorCfExists => sinceCf >= StMin - 1
      BY <1>1, <2>1, RequestPaced
    <2> HIDE DEF now, t
    <2>7. Confirmed' = Confirmed
      BY <2>2, <2>4, <2>5 DEF Confirmed
    <2> QED
      BY <1>1, <1>3, <2>2, <2>4, <2>5, <2>6, <2>7 DEF PacedInv, TimingInv, Running
  <1> QED
    BY <1>2, <1>4, <1>5

LEMMA AppTiming ==
    ASSUME PacedInv, AppQuiet \/ AppRefused \/ AppSubmit
    PROVE  TimingInv'
  <1>1. /\ nowMs' = nowMs /\ phase = "app" /\ phase' = "write"
        /\ sinceCf' = IF sinceCf < StMin THEN sinceCf + 1 ELSE sinceCf
        /\ sinceCf \in 0..StMin
    BY DEF AppQuiet, AppRefused, AppSubmit, At, NextTick, PacedInv, OrderInv,
           IInv, TypeOK
  <1>2. CASE AppQuiet \/ AppRefused
    <2>1. tx' = tx /\ sent' = sent
      BY <1>2 DEF AppQuiet, AppRefused, SubmitRefused, SubmitRejected
    <2> QED
      BY <1>1, <2>1, TxConfig DEF PacedInv, TimingInv, Running, Confirmed
  <1>3. CASE AppSubmit
    <2>1. PICK len \in Lengths : SubmitAccepted(len)
      BY <1>3 DEF AppSubmit
    <2>2. /\ sent' = << >>
          /\ tx' = Prepared([IdleTx EXCEPT !.total = len], nowMs)
      BY <1>3, <2>1 DEF AppSubmit, SubmitAccepted
    <2>3. tx'.state = "REQUEST_TX" /\ ~tx'.priorCfExists
      BY <2>2 DEF Prepared, IdleTx
    <2> QED
      BY <2>2, <2>3 DEF TimingInv, Confirmed
  <1> QED
    BY <1>2, <1>3

THEOREM NextPaced == PacedInv /\ [Next]_vars => PacedInv'
  <1> SUFFICES ASSUME PacedInv, [Next]_vars PROVE PacedInv'
    OBVIOUS
  <1>1. OrderInv'
    BY NextOrder DEF PacedInv
  <1>2. TimingInv'
    <2>1. CASE MailboxBusy \/ NothingReceived
      BY <2>1, QuietTiming DEF MailboxBusy, NothingReceived, At
    <2>2. CASE UNCHANGED vars
      BY <2>2 DEF vars, PacedInv, TimingInv, Running, Confirmed
    <2>3. CASE ConfirmData
      BY <2>3, ConfirmTiming
    <2>4. CASE FcReceived
      BY <2>4, FcTiming
    <2>5. CASE \/ MainTimeoutAs \/ MainTimeoutBs \/ MainRetried \/ MainExhausted
               \/ MainIdle \/ MainAccepted
      BY <2>5, MainTiming
    <2>6. CASE AppQuiet \/ AppRefused \/ AppSubmit
      BY <2>6, AppTiming
    <2> QED
      BY <2>1, <2>2, <2>3, <2>4, <2>5, <2>6 DEF Next
  <1> QED
    BY <1>1, <1>2 DEF PacedInv

(* However the requests are retried and wherever the clock wraps, two CFs  *)
(* of an N-SDU are at most one tick closer than STmin.                     *)
THEOREM StMinGapLessOneTickAlways == Spec => StMinGapLessOneTick
  <1>1. Spec => []PacedInv
    BY InitTiming, NextPaced, PTL DEF Spec
  <1>2. ASSUME PacedInv, [Next]_vars, Len(sent') > Len(sent), Len(sent) >= 2
        PROVE  sinceCf >= StMin - 1
    <2>1. sent \in Seq(DataFrames) /\ nowMs \in Clock /\ Len(sent) \in Nat
      BY <1>2 DEF PacedInv, OrderInv, IInv, TypeOK
    <2>2. sent' # sent /\ sent' # << >>
      BY <1>2, <2>1
    <2>3. MainAccepted
      BY <1>2, <2>2 DEF Next, vars, MailboxBusy, ConfirmData, NothingReceived,
         FcReceived, MainTimeoutAs, MainTimeoutBs, MainRetried, MainExhausted,
         MainIdle, AppQuiet, AppRefused, AppSubmit
    <2>4. RequestDue(NextMs(nowMs)) /\ phase # "app" /\ NextMs(nowMs) \in Clock
      BY <2>1, <2>3, NextMsClock DEF MainAccepted, Main, At, RequestAccepted
    <2>5. Running /\ tx.state # "WAIT_CONFIRM"
      BY <1>2, <2>4, RequestingEffect DEF PacedInv, OrderInv
    <2>6. tx.priorCfExists
      BY <1>2, <2>1, <2>5 DEF PacedInv, TimingInv, Confirmed
    <2> QED
      BY <1>2, <2>1, <2>4, <2>6, RequestPaced
  <1> QED
    BY <1>1, <1>2, PTL DEF Spec, StMinGapLessOneTick

============================================================================
