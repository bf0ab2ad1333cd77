------------------------------ MODULE CanTpRx ------------------------------
(***************************************************************************)
(* The receive half of one CanTp connection (drivers/can/cantp/Cantp.c)    *)
(* above NodeApp's receive queue (NodeAppQueue).                           *)
(*                                                                         *)
(* "rx" is CanTp_RxRuntime, "queue" the NodeApp_Rx* group, "nowMs"         *)
(* CanTp_NowMs and "dataRxEnabled" CanTp_DataRxEnabled.  Payload bytes are *)
(* one abstract part per frame; the reassembly buffer is the sequence of   *)
(* the parts copied into it.                                               *)
(*                                                                         *)
(* The module holds the handlers only.  Whoever composes it (CanTpRxNode)  *)
(* says which frames arrive, when CanIf accepts a Flow Control frame and   *)
(* when the driver confirms it.                                            *)
(***************************************************************************)
EXTENDS CanTpClock, CanTpSegments, NodeAppQueue, Sequences

CONSTANTS
    MaxRetries,     \* CANTP_MAX_RETRIES            (3)
    NAr, NCr        \* CANTP_N_AR_MS, CANTP_N_CR_MS (100)

(* The clock is long enough for every duration to be told from its past.   *)
ASSUME RxConfig ==
    /\ MaxRetries \in Nat
    /\ NAr \in Nat \ {0} /\ NCr \in Nat \ {0}
    /\ \A d \in {NAr, NCr} : 2 * d < ClockModulus

VARIABLES rx, queue, nowMs, dataRxEnabled

rxVars == <<rx, queue, nowMs, dataRxEnabled>>

RxStates == {"IDLE", "FC_PENDING", "WAIT_CF"}

FlowStatus == {"CTS", "OVFLW"}

FfMin == SfMax + 1      \* CANTP_FF_MIN_LENGTH (7)

----------------------------------------------------------------------------
(* The session record.                                                     *)

ZeroRx ==
    [state |-> "IDLE", total |-> 0, received |-> 0, expectedSN |-> 0,
     blockCount |-> 0, buffer |-> << >>, queueSlotReserved |-> FALSE,
     fcTxPending |-> FALSE, fcRequestActive |-> FALSE, fcFrame |-> "NONE",
     fcRetryCount |-> 0, fcAttemptDueMs |-> 0,
     nArActive |-> FALSE, nArStartMs |-> 0,
     nCrActive |-> FALSE, nCrStartMs |-> 0, resultReported |-> FALSE]

RxInit ==
    /\ rx = [ZeroRx EXCEPT !.expectedSN = 1]
    /\ queue = EmptyQueue
    /\ nowMs = 0
    /\ dataRxEnabled = TRUE

FcBusy(r) == r.fcRequestActive \/ r.fcTxPending

\* mutant: the FC the driver still holds is forgotten with the session
ForgetsFc(r) == [ZeroRx EXCEPT !.expectedSN = 1]

\* CanTp_ResetRxSession: the session goes, an FC in progress stays.
ResetRxSession(r) ==
    [ZeroRx EXCEPT !.expectedSN = 1,
                   !.fcTxPending = r.fcTxPending,
                   !.fcRequestActive = r.fcRequestActive,
                   !.fcFrame = IF FcBusy(r) THEN r.fcFrame ELSE "NONE"]

\* mutant: the session goes and its reservation is never given back
AbortSilently(r, q) ==
    /\ rx' = ResetRxSession(r)
    /\ queue' = q

\* CanTp_AbortRx of a session that is running.
Abort(r, q) ==
    /\ rx' = ResetRxSession(r)
    /\ queue' = IF r.queueSlotReserved /\ ~r.resultReported
                THEN Indicate(q, "E_NOT_OK") ELSE q

\* CanTp_CompleteRx: copy, then report; a failed copy aborts.
Complete(r, q) ==
    IF CanCopy(q, r.total)
    THEN /\ rx' = ResetRxSession(r)
         /\ queue' = Indicate(CopyIn(q, r.buffer), "E_OK")
    ELSE Abort(r, q)

\* CanTp_PrepareFlowControl, when no FC is in progress.
WithFc(r, status) ==
    [r EXCEPT !.fcFrame = status, !.fcRequestActive = TRUE,
              !.fcRetryCount = 0, !.fcAttemptDueMs = nowMs,
              !.nCrActive = IF status = "CTS" THEN FALSE ELSE @,
              !.state = IF status = "CTS" THEN "FC_PENDING" ELSE @]

----------------------------------------------------------------------------
(* A new SF or FF replaces a session that is waiting for its CFs.          *)

\* Neither SF nor FF gets through while an FC is in progress.
StartBlocked ==
    FcBusy(rx) \/ (rx.state # "IDLE" /\ ~rx.queueSlotReserved)

QueueForStart ==
    IF rx.state = "IDLE" THEN queue ELSE Indicate(queue, "E_NOT_OK")

RxForStart == IF rx.state = "IDLE" THEN rx ELSE ResetRxSession(rx)

(* CanTp_HandleSingleFrame                                                 *)

SfIgnored(len) ==
    /\ len \notin 1..SfMax \/ StartBlocked \/ ~dataRxEnabled
    /\ UNCHANGED <<rx, queue>>

SfNoSlot(len) ==
    /\ len \in 1..SfMax /\ ~StartBlocked /\ dataRxEnabled
    /\ ~CanReserve(QueueForStart)
    /\ rx' = RxForStart /\ queue' = QueueForStart

SfDelivered(len, part) ==
    /\ len \in 1..SfMax /\ ~StartBlocked /\ dataRxEnabled
    /\ CanReserve(QueueForStart)
    /\ Complete([ZeroRx EXCEPT !.total = len, !.received = len,
                     !.queueSlotReserved = TRUE, !.buffer = <<part>>],
                Reserve(QueueForStart, len))

(* CanTp_HandleFirstFrame                                                  *)

FfIgnored(len) ==
    /\ \/ len < FfMin \/ FcBusy(rx) \/ ~dataRxEnabled
       \/ len > MaxNsdu /\ rx.state # "IDLE"
       \/ len <= MaxNsdu /\ StartBlocked
    /\ UNCHANGED <<rx, queue>>

FfTooLong(len) ==
    /\ len > MaxNsdu /\ rx.state = "IDLE" /\ ~FcBusy(rx) /\ dataRxEnabled
    /\ rx' = WithFc(rx, "OVFLW")
    /\ UNCHANGED queue

FfNoSlot(len) ==
    /\ len \in FfMin..MaxNsdu /\ ~StartBlocked /\ dataRxEnabled
    /\ ~CanReserve(QueueForStart)
    /\ rx' = WithFc(RxForStart, "OVFLW") /\ queue' = QueueForStart

FfAccepted(len, part) ==
    /\ len \in FfMin..MaxNsdu /\ ~StartBlocked /\ dataRxEnabled
    /\ CanReserve(QueueForStart)
    /\ queue' = Reserve(QueueForStart, len)
    /\ rx' = WithFc([ZeroRx EXCEPT !.total = len, !.received = FfPayload,
                         !.expectedSN = 1, !.queueSlotReserved = TRUE,
                         !.buffer = <<part>>], "CTS")

(* CanTp_HandleConsecutiveFrame                                            *)

CfIgnored(sn) ==
    /\ rx.state # "WAIT_CF" \/ ~dataRxEnabled
    /\ UNCHANGED <<rx, queue>>

CfWrongSn(sn) ==
    /\ rx.state = "WAIT_CF" /\ dataRxEnabled
    /\ sn # rx.expectedSN
    /\ Abort(rx, queue)

\* mutant: a CF with any sequence number is taken for the next one
CfExpectedAny(sn) == rx.state = "WAIT_CF" /\ dataRxEnabled

CfExpected(sn) == rx.state = "WAIT_CF" /\ dataRxEnabled /\ sn = rx.expectedSN

Appended(part) ==
    [rx EXCEPT !.nCrActive = FALSE,
               !.received = @ + CfBytes(rx.total - rx.received),
               !.expectedSN = (@ + 1) % SnModulus,
               !.blockCount = @ + 1,
               !.buffer = Append(@, part)]

CfLast(sn, part) ==
    /\ CfExpected(sn)
    /\ Appended(part).received = rx.total
    /\ Complete(Appended(part), queue)

CfBlockEnd(sn, part) ==
    LET r == Appended(part) IN
    /\ CfExpected(sn)
    /\ r.received # rx.total /\ r.blockCount = BlockSize
    /\ IF FcBusy(r) THEN Abort(r, queue)
       ELSE rx' = WithFc(r, "CTS") /\ UNCHANGED queue

CfInBlock(sn, part) ==
    LET r == Appended(part) IN
    /\ CfExpected(sn)
    /\ r.received # rx.total /\ r.blockCount # BlockSize
    /\ rx' = [r EXCEPT !.nCrStartMs = nowMs, !.nCrActive = TRUE]
    /\ UNCHANGED queue

----------------------------------------------------------------------------
(* CanTp_TxConfirmation for the FC N-PDU.                                  *)

FcDone(r) ==
    [r EXCEPT !.fcTxPending = FALSE, !.fcRequestActive = FALSE,
              !.nArActive = FALSE]

OpensBlock == rx.state = "FC_PENDING" /\ rx.queueSlotReserved

FcConfirmedCts ==
    /\ rx.fcTxPending /\ OpensBlock
    /\ rx' = [FcDone(rx) EXCEPT !.blockCount = 0, !.nCrStartMs = nowMs,
                                !.nCrActive = TRUE, !.state = "WAIT_CF"]
    /\ UNCHANGED queue

\* An OVFLW, or a CTS whose session N_Ar has aborted.
FcConfirmedLate ==
    /\ rx.fcTxPending /\ ~OpensBlock
    /\ rx' = FcDone(rx)
    /\ UNCHANGED queue

----------------------------------------------------------------------------
(* CanTp_MainFunction, receive side, "now" as in CanTpTx.  An FC is not    *)
(* requested in the call that times out: N_Ar leaves it pending and N_Cr   *)
(* runs only while none is in progress.                                    *)

NArExpired(now) ==
    rx.fcTxPending /\ rx.nArActive /\ HasElapsed(now, rx.nArStartMs, NAr)

NCrExpired(now) ==
    /\ ~NArExpired(now)
    /\ rx.state = "WAIT_CF" /\ rx.nCrActive
    /\ HasElapsed(now, rx.nCrStartMs, NCr)

FcRequestDue(now) ==
    /\ rx.fcRequestActive /\ ~rx.fcTxPending
    /\ AttemptIsDue(now, rx.fcAttemptDueMs)

NArTimeout(now) == NArExpired(now) /\ Abort(rx, queue)

NCrTimeout(now) == NCrExpired(now) /\ Abort(rx, queue)

\* What is left of the session when its FC has been refused too often.
Exhausted(r) == [r EXCEPT !.fcRequestActive = FALSE]

FcRequestAccepted(now) ==
    /\ FcRequestDue(now)
    /\ rx' = [rx EXCEPT !.fcTxPending = TRUE, !.nArStartMs = now,
                        !.nArActive = TRUE]
    /\ UNCHANGED queue

FcRequestRetried(now) ==
    /\ FcRequestDue(now) /\ rx.fcRetryCount < MaxRetries
    /\ rx' = [rx EXCEPT !.fcRetryCount = @ + 1,
                        !.fcAttemptDueMs = NextMs(now)]
    /\ UNCHANGED queue

FcRequestExhausted(now) ==
    /\ FcRequestDue(now) /\ rx.fcRetryCount >= MaxRetries
    /\ Abort(Exhausted(rx), queue)

RxNothingDue(now) ==
    /\ ~NArExpired(now) /\ ~NCrExpired(now) /\ ~FcRequestDue(now)
    /\ UNCHANGED <<rx, queue>>

----------------------------------------------------------------------------
(* CanTp_SetDataRxEnabled: refused while anything is in progress.          *)

\* mutant: reception can be switched off under a running session
CanDisableAlways == TRUE

CanDisable == rx.state = "IDLE" /\ ~FcBusy(rx)

SetDataRxEnabled(enabled) ==
    /\ enabled \/ CanDisable
    /\ dataRxEnabled' = enabled
    /\ UNCHANGED <<rx, queue, nowMs>>

============================================================================
