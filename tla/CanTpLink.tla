------------------------------ MODULE CanTpLink ------------------------------
(***************************************************************************)
(* One CanTp connection end to end: a sending ECU (CanTpTx) and a          *)
(* receiving one (CanTpRx), each under its own scheduler and clock, over a *)
(* bus that carries frames from a mailbox of one to the mailbox of the     *)
(* other.  The two schedulers run at one rate and not in step: either may  *)
(* be MaxLead ticks ahead of the other.                                    *)
(*                                                                         *)
(* A receive mailbox holds one frame and the next one overwrites it; so    *)
(* does any other traffic on the bus.  A frame may stay in its transmit    *)
(* mailbox for as long as the bus is busy.                                 *)
(***************************************************************************)
EXTENDS CanTpClock, CanTpSegments, Sequences

CONSTANTS
    StMin, MaxRetries, NAs, NBs, NAr, NCr,  \* of CanTpTx and CanTpRx
    QueueSize,      \* of NodeAppQueue
    Lengths,        \* the N-SDU lengths the application submits
    MaxLead,        \* ticks one scheduler may be ahead of the other
    MaxSubmits      \* bound: the submissions of a behaviour

(* The sequence numbers of one N-SDU do not come round: 62 bytes make nine *)
(* segments, and there are 16 numbers (Cantp_Cfg.h).                       *)
ASSUME LinkConfig ==
    /\ \A n \in 1..MaxNsdu : SegmentCount(n) <= SnModulus
    /\ QueueSize \in Nat \ {0}

VARIABLES
    tx, app, txMs,                      \* the sender: CanTpTx
    txPhase,                            \* its next call of System_RunTask
    dataMb,                             \* its transmit mailbox
    fcIn,                               \* its receive mailbox
    rx, queue, rxMs, dataRxEnabled,     \* the receiver: CanTpRx
    rxPhase, fcMb, dataIn,              \* the same for it
    lead,                               \* sender's ticks minus receiver's
    submits,                            \* history: submissions accepted
    arrived                             \* history: N-SDUs published, in order

S == INSTANCE CanTpTx WITH nowMs <- txMs
R == INSTANCE CanTpRx WITH nowMs <- rxMs

sender   == <<tx, app, txMs, txPhase>>
receiver == <<rx, queue, rxMs, dataRxEnabled, rxPhase>>
bus      == <<dataMb, fcIn, fcMb, dataIn>>
vars     == <<sender, receiver, bus, lead, submits, arrived>>

\* A transmit mailbox: empty, with a frame to send, or with a frame sent
\* and not yet confirmed.  A receive mailbox: a frame or Nothing.
Nothing == [kind |-> "NONE"]
Empty   == [state |-> "EMPTY", frame |-> Nothing]

Init ==
    /\ S!TxInit /\ R!RxInit
    /\ txPhase = "write" /\ rxPhase = "write"
    /\ dataMb = Empty /\ fcMb = Empty
    /\ fcIn = Nothing /\ dataIn = Nothing
    /\ lead = 0 /\ submits = 0 /\ arrived = << >>

\* A Data frame as it is on the bus: the length its PCI declares, and what
\* its payload is a part of.
OnBus(f) ==
    [kind |-> f.kind, sn |-> f.sn, len |-> tx.total,
     part |-> [nsdu |-> submits, from |-> f.from]]

----------------------------------------------------------------------------
(* The bus                                                                 *)

DataOnBus ==
    /\ dataMb.state = "WAITS"
    /\ dataMb' = [dataMb EXCEPT !.state = "SENT"]
    /\ dataIn' = dataMb.frame
    /\ UNCHANGED <<sender, receiver, fcMb, fcIn, lead, submits, arrived>>

FcOnBus ==
    /\ fcMb.state = "WAITS"
    /\ fcMb' = [fcMb EXCEPT !.state = "SENT"]
    /\ fcIn' = fcMb.frame
    /\ UNCHANGED <<sender, receiver, dataMb, dataIn, lead, submits, arrived>>

\* Another frame overwrites the unread one.
Overrun ==
    /\ \/ dataIn # Nothing /\ dataIn' = Nothing /\ UNCHANGED fcIn
       \/ fcIn # Nothing /\ fcIn' = Nothing /\ UNCHANGED dataIn
    /\ UNCHANGED <<sender, receiver, dataMb, fcMb, lead, submits, arrived>>

----------------------------------------------------------------------------
(* The sender's tick; its application runs at the end of it.               *)

SenderStep(p, q) ==
    /\ txPhase = p /\ txPhase' = q
    /\ lead' = IF p = "write" THEN lead + 1 ELSE lead
    /\ lead' <= MaxLead
    /\ UNCHANGED <<receiver, fcMb, dataIn, arrived>>

SenderNotSent ==
    /\ SenderStep("write", "read") /\ dataMb.state # "SENT"
    /\ UNCHANGED <<tx, app, txMs, dataMb, fcIn, submits>>

SenderConfirms ==
    /\ SenderStep("write", "read") /\ dataMb.state = "SENT"
    /\ S!DataTxConfirmation
    /\ dataMb' = Empty
    /\ UNCHANGED <<txMs, fcIn, submits>>

SenderReads ==
    /\ SenderStep("read", "cantp")
    /\ IF fcIn = Nothing THEN UNCHANGED <<tx, app>>
       ELSE S!FlowControl(fcIn.kind = "CTS")
    /\ fcIn' = Nothing
    /\ UNCHANGED <<txMs, dataMb, submits>>

SenderMain(Action(_)) ==
    /\ SenderStep("cantp", "app")
    /\ txMs' = S!NextMs(txMs) /\ Action(txMs')
    /\ UNCHANGED <<fcIn, submits>>

SenderRequests ==
    /\ SenderMain(S!RequestAccepted)
    /\ dataMb.state = "EMPTY"
    /\ dataMb' = [state |-> "WAITS", frame |-> OnBus(tx'.frame)]

SenderOther ==
    \/ SenderMain(S!NAsTimeout) /\ UNCHANGED dataMb
    \/ SenderMain(S!NBsTimeout) /\ UNCHANGED dataMb
    \/ SenderMain(S!RequestRetried) /\ UNCHANGED dataMb
    \/ SenderMain(S!RequestExhausted) /\ UNCHANGED dataMb
    \/ SenderMain(S!NothingDue) /\ UNCHANGED dataMb

SenderSubmits ==
    /\ SenderStep("app", "write")
    /\ submits < MaxSubmits /\ submits' = submits + 1
    /\ \E len \in Lengths : S!SubmitAccepted(len)
    /\ UNCHANGED <<txMs, dataMb, fcIn>>

SenderQuiet ==
    /\ SenderStep("app", "write")
    /\ UNCHANGED <<tx, app, txMs, dataMb, fcIn, submits>>

Sender ==
    \/ SenderNotSent \/ SenderConfirms \/ SenderReads
    \/ SenderRequests \/ SenderOther \/ SenderSubmits \/ SenderQuiet

----------------------------------------------------------------------------
(* The receiver's tick                                                     *)

ReceiverStep(p, q) ==
    /\ rxPhase = p /\ rxPhase' = q
    /\ lead' = IF p = "write" THEN lead - 1 ELSE lead
    /\ -lead' <= MaxLead
    /\ UNCHANGED <<sender, dataMb, fcIn, dataRxEnabled, submits>>

\* The N-SDU the queue publishes in this step, if it does.
Published ==
    LET new == {i \in R!Indices : /\ queue'.slots[i].state = "READY"
                                  /\ queue.slots[i].state # "READY"}
    IN  IF new = {} THEN arrived
        ELSE Append(arrived, queue'.slots[CHOOSE i \in new : TRUE])

ReceiverNotSent ==
    /\ ReceiverStep("write", "read") /\ fcMb.state # "SENT"
    /\ UNCHANGED <<rx, queue, rxMs, fcMb, dataIn, arrived>>

ReceiverConfirms ==
    /\ ReceiverStep("write", "read") /\ fcMb.state = "SENT"
    /\ R!FcConfirmedCts \/ R!FcConfirmedLate
    /\ fcMb' = Empty
    /\ UNCHANGED <<rxMs, dataIn, arrived>>

HandleSf(f) ==
    R!SfIgnored(f.len) \/ R!SfNoSlot(f.len) \/ R!SfDelivered(f.len, f.part)

HandleFf(f) ==
    \/ R!FfIgnored(f.len) \/ R!FfTooLong(f.len)
    \/ R!FfNoSlot(f.len) \/ R!FfAccepted(f.len, f.part)

HandleCf(f) ==
    \/ R!CfIgnored(f.sn) \/ R!CfWrongSn(f.sn) \/ R!CfLast(f.sn, f.part)
    \/ R!CfBlockEnd(f.sn, f.part) \/ R!CfInBlock(f.sn, f.part)

\* mutant: the mailbox is unlocked and stays full
LeftFull(frame) == frame

\* Can_MainFunction_Read empties the mailbox it has read.
EmptiedMb(frame) == Nothing

ReceiverReads ==
    /\ ReceiverStep("read", "cantp")
    /\ \/ dataIn.kind = "NONE" /\ UNCHANGED <<rx, queue>>
       \/ dataIn.kind = "SF" /\ HandleSf(dataIn)
       \/ dataIn.kind = "FF" /\ HandleFf(dataIn)
       \/ dataIn.kind = "CF" /\ HandleCf(dataIn)
    /\ dataIn' = EmptiedMb(dataIn)
    /\ arrived' = Published
    /\ UNCHANGED <<rxMs, fcMb>>

ReceiverMain(Action(_)) ==
    /\ ReceiverStep("cantp", "app")
    /\ rxMs' = R!NextMs(rxMs) /\ Action(rxMs')
    /\ UNCHANGED <<dataIn, arrived>>

ReceiverRequests ==
    /\ ReceiverMain(R!FcRequestAccepted)
    /\ fcMb.state = "EMPTY"
    /\ fcMb' = [state |-> "WAITS", frame |-> [kind |-> rx.fcFrame]]

ReceiverOther ==
    \/ ReceiverMain(R!NArTimeout) /\ UNCHANGED fcMb
    \/ ReceiverMain(R!NCrTimeout) /\ UNCHANGED fcMb
    \/ ReceiverMain(R!FcRequestRetried) /\ UNCHANGED fcMb
    \/ ReceiverMain(R!FcRequestExhausted) /\ UNCHANGED fcMb
    \/ ReceiverMain(R!RxNothingDue) /\ UNCHANGED fcMb

ReceiverTakes ==
    /\ rxPhase = "app" /\ R!CanReceive(queue)
    /\ queue' = R!Receive(queue)
    /\ UNCHANGED <<sender, bus, rx, rxMs, dataRxEnabled, rxPhase, lead, submits, arrived>>

ReceiverDone ==
    /\ ReceiverStep("app", "write")
    /\ UNCHANGED <<rx, queue, rxMs, fcMb, dataIn, arrived>>

Receiver ==
    \/ ReceiverNotSent \/ ReceiverConfirms \/ ReceiverReads
    \/ ReceiverRequests \/ ReceiverOther \/ ReceiverTakes \/ ReceiverDone

Next == DataOnBus \/ FcOnBus \/ Overrun \/ Sender \/ Receiver

Spec == Init /\ [][Next]_vars

----------------------------------------------------------------------------
(* Properties.                                                             *)

Later(p, q) == p.nsdu < q.nsdu \/ (p.nsdu = q.nsdu /\ p.from < q.from)

(* Whatever is overwritten, late or repeated, the frames the receiver      *)
(* publishes are in the order they were sent in, none of them twice: no    *)
(* N-SDU is delivered again and none after a later one.                    *)
FramesOnceInOrder ==
    \A i, j \in DOMAIN arrived :
        \A k \in DOMAIN arrived[i].data, l \in DOMAIN arrived[j].data :
            i < j \/ (i = j /\ k < l)
                => Later(arrived[i].data[k], arrived[j].data[l])

(* Every part of a published message stands where its sender cut it from,  *)
(* and no part is missing.                                                 *)
PartsInPlace ==
    \A i \in DOMAIN arrived :
        LET m == arrived[i] IN
        /\ Len(m.data) = SegmentCount(m.length)
        /\ \A k \in DOMAIN m.data :
              m.data[k].from = Segment(m.length, k).from

(* A published message is one N-SDU, never a part of one: Architecture.md  *)
(* 8.4.                                                                    *)
WholeMessages ==
    \A i \in DOMAIN arrived :
        \A k \in DOMAIN arrived[i].data :
            arrived[i].data[k].nsdu = arrived[i].data[1].nsdu

=============================================================================
