-------------------------- MODULE CanTpLinkProofs ---------------------------
(***************************************************************************)
(* Machine-checked proofs about one connection end to end (CanTpLink), for *)
(* every value of its constants: whatever is overwritten, late or repeated *)
(* the parts of a published message stand in their places, and all parts   *)
(* ever published are in the order they were sent in, none of them twice.  *)
(*                                                                         *)
(* The argument follows a part on its way.  On the sending side it is cut  *)
(* at the session's offset, which only grows within an N-SDU (SenderInv);  *)
(* on the bus it is in the transmit mailbox, then in the receive mailbox;  *)
(* on the receiving side it is in the reassembly buffer, whose length is   *)
(* the sequence number the session expects next (ReceiverInv), and then in *)
(* a published message.  Each place holds parts older than the place       *)
(* before it (OrderInv).                                                   *)
(***************************************************************************)
EXTENDS CanTpLink, CanTpSegmentProofs, SequenceTheorems

Parts == [nsdu : Nat, from : Nat]

Frames ==
    [kind : {"SF", "FF", "CF"}, sn : SequenceNumbers, len : 1..MaxNsdu,
     part : Parts]

\* The sequence number of a CF says where its payload was cut.
GoodFrame(f) ==
    /\ f \in Frames
    /\ f.part.from = IF f.kind = "CF" THEN Offset(f.sn) ELSE 0

----------------------------------------------------------------------------
(* The sender.                                                             *)

TxFields ==
    {"state", "total", "txOffset", "nextSN", "blockCount", "frame",
     "retryCount", "dataAttemptDueMs", "txPduPending",
     "nAsActive", "nAsStartMs", "nBsActive", "nBsStartMs",
     "fcPermissionGranted", "priorCfExists", "lastCfConfirmedMs",
     "resultReported"}

TxRec(t) == DOMAIN t = TxFields /\ t = [f \in TxFields |-> t[f]]

\* c segments are confirmed and segment c + 1 is the next.
Position(t, c) ==
    /\ t.txOffset = Offset(c) /\ t.txOffset < t.total
    /\ t.total <= SfMax => c = 0
    /\ t.nextSN = IF c = 0 THEN 1 ELSE c

Positioned(t) ==
    t.total \in 1..MaxNsdu /\ \E c \in SequenceNumbers : Position(t, c)

SessionOk(t) ==
    /\ t.state # "IDLE" => Positioned(t)
    /\ t.state \in {"REQUEST_TX", "WAIT_CONFIRM"} => t.frame = S!NextFrame(t)

SenderInv == TxRec(tx) /\ submits \in Nat /\ SessionOk(tx)

----------------------------------------------------------------------------
(* The receiver.                                                           *)

Slot ==
    [state : {"FREE", "RESERVED", "READY"}, length : Nat, data : Seq(Parts)]

Queue ==
    [slots : [R!Indices -> Slot], readIndex : R!Indices,
     writeIndex : R!Indices, reservedIndex : R!Indices,
     reservationActive : BOOLEAN]

RxFields ==
    {"state", "total", "received", "expectedSN", "blockCount", "buffer",
     "queueSlotReserved", "fcTxPending", "fcRequestActive", "fcFrame",
     "fcRetryCount", "fcAttemptDueMs", "nArActive", "nArStartMs",
     "nCrActive", "nCrStartMs", "resultReported"}

RxRec(r) == DOMAIN r = RxFields /\ r = [f \in RxFields |-> r[f]]

\* The parts of a buffer or of a message stand where they were cut.
InPlace(parts) ==
    \A k \in DOMAIN parts : parts[k].from = Offset(k - 1)

\* The session has as many parts as the sequence number it expects says.
Reassembly(r) ==
    /\ r.total \in (SfMax + 1)..MaxNsdu
    /\ Len(r.buffer) = r.expectedSN
    /\ r.expectedSN \in SequenceNumbers \ {0}
    /\ r.received = Offset(r.expectedSN) /\ r.received < r.total
    /\ InPlace(r.buffer)

ReceiverInv ==
    /\ RxRec(rx) /\ queue \in Queue
    /\ rx.buffer \in Seq(Parts)
    /\ rx.state # "IDLE" => Reassembly(rx)
    /\ arrived \in Seq(Slot)
    /\ PartsInPlace

----------------------------------------------------------------------------
(* The way in between.                                                     *)

\* The part was cut by now: the session has passed it or is at it.
Sent(t, n, p) ==
    \/ p.nsdu < n
    \/ /\ p.nsdu = n
       /\ \/ t.state = "IDLE"
          \/ p.from < t.txOffset
          \/ t.state = "WAIT_CONFIRM" /\ p.from = t.txOffset

SentNow(p) == Sent(tx, submits, p)

BusInv ==
    /\ dataMb = [state |-> dataMb.state, frame |-> dataMb.frame]
    /\ dataMb.state = "WAITS" => GoodFrame(dataMb.frame)
    /\ dataIn # Nothing => GoodFrame(dataIn)

\* p is newer than all the parts of a buffer or a message.
After(parts, p) == \A k \in DOMAIN parts : Later(parts[k], p)

\* p is newer than all that was published.
AfterAll(messages, p) == \A i \in DOMAIN messages : After(messages[i].data, p)

Sorted(parts) ==
    \A k, l \in DOMAIN parts : k < l => Later(parts[k], parts[l])

\* A part that may come in next.
NextIn(p) == SentNow(p) /\ AfterAll(arrived, p) /\ After(rx.buffer, p)

OrderInv ==
    /\ FramesOnceInOrder
    /\ \A i \in DOMAIN arrived :
          \A k \in DOMAIN arrived[i].data : SentNow(arrived[i].data[k])
    /\ Sorted(rx.buffer)
    /\ \A k \in DOMAIN rx.buffer :
          SentNow(rx.buffer[k]) /\ AfterAll(arrived, rx.buffer[k])
    /\ dataIn # Nothing => NextIn(dataIn.part)
    /\ dataMb.state = "WAITS" => NextIn(dataMb.frame.part)
    /\ dataIn # Nothing /\ dataMb.state = "WAITS" =>
          Later(dataIn.part, dataMb.frame.part)

LinkInv == SenderInv /\ ReceiverInv /\ BusInv /\ OrderInv

----------------------------------------------------------------------------
(* The sender's steps.                                                     *)

\* What a step does to a session that goes on: the offset never falls, and
\* it has grown when a confirmation has come.
Forward(t, u) ==
    \/ u.state = "IDLE"
    \/ /\ t.state # "IDLE" /\ t.txOffset <= u.txOffset
       /\ t.state = "WAIT_CONFIRM" =>
              u.state = "WAIT_CONFIRM" \/ t.txOffset < u.txOffset

GoesTo(t, u) == TxRec(u) /\ SessionOk(u) /\ Forward(t, u)

LEMMA FinishStep ==
    ASSUME NEW t, TxRec(t), NEW result, S!Finish(t, result)
    PROVE  \A u : GoesTo(u, tx')
  <1>1. tx' = [S!IdleTx EXCEPT !.txPduPending = t.txPduPending]
    BY DEF S!Finish, S!ResetTxSession
  <1>2. TxRec(tx') /\ tx'.state = "IDLE"
    BY <1>1 DEF TxRec, TxFields, S!IdleTx
  <1> QED
    BY <1>2 DEF GoesTo, SessionOk, Forward

LEMMA SameSession ==
    ASSUME TxRec(tx), SessionOk(tx), NEW u, TxRec(u),
           u.state = tx.state, u.total = tx.total, u.txOffset = tx.txOffset,
           u.nextSN = tx.nextSN, u.frame = tx.frame
    PROVE  GoesTo(tx, u)
  <1>1. S!NextFrame(u) = S!NextFrame(tx)
    BY DEF S!NextFrame
  <1>2. SessionOk(u)
    BY <1>1 DEF SessionOk, Positioned, Position
  <1>3. Forward(tx, u)
    <2>1. CASE tx.state = "IDLE"
      BY <2>1 DEF Forward
    <2>2. CASE tx.state # "IDLE"
      <3>1. tx.txOffset \in Nat
        BY <2>2, OffsetType DEF SessionOk, Positioned, Position, SequenceNumbers
      <3> QED
        BY <2>2, <3>1 DEF Forward
    <2> QED
      BY <2>1, <2>2
  <1> QED
    BY <1>2, <1>3 DEF GoesTo

LEMMA OffsetNat ==
    ASSUME NEW t, Positioned(t)
    PROVE  t.txOffset \in Nat /\ t.total \in Nat /\ t.nextSN \in Nat
  BY OffsetType DEF Positioned, Position, SequenceNumbers

LEMMA PreparedStep ==
    ASSUME NEW t, TxRec(t), Positioned(t), NEW now
    PROVE  LET u == S!Prepared(t, now) IN
           /\ TxRec(u) /\ SessionOk(u) /\ u.state = "REQUEST_TX"
           /\ u.txOffset = t.txOffset /\ u.total = t.total
  <1> DEFINE u == S!Prepared(t, now)
  <1>1. /\ TxRec(u) /\ u.state = "REQUEST_TX" /\ u.total = t.total
        /\ u.txOffset = t.txOffset /\ u.nextSN = t.nextSN
        /\ u.frame = S!NextFrame(t)
    BY DEF TxRec, TxFields, S!Prepared
  <1> HIDE DEF u
  <1>2. S!NextFrame(u) = S!NextFrame(t)
    BY <1>1 DEF S!NextFrame
  <1>3. Positioned(u)
    BY <1>1 DEF Positioned, Position
  <1> QED
    BY <1>1, <1>2, <1>3 DEF SessionOk, u

LEMMA SmallSn ==
    ASSUME NEW n \in SequenceNumbers
    PROVE  n % SnModulus = n
  <1>1. n \in 0..(SnModulus - 1) /\ SnModulus \in Nat \ {0}
    BY WireConfig DEF SequenceNumbers
  <1> QED
    BY <1>1, ModUnique, 0 * SnModulus + n = n

\* A frame is of the bytes at the session's offset, and says so.
LEMMA NextFrameGood ==
    ASSUME NEW t, Positioned(t), NEW n \in Nat
    PROVE  LET f == S!NextFrame(t) IN
           /\ f.from = t.txOffset
           /\ GoodFrame([kind |-> f.kind, sn |-> f.sn, len |-> t.total,
                         part |-> [nsdu |-> n, from |-> f.from]])
  <1> DEFINE f == S!NextFrame(t)
             g == [kind |-> f.kind, sn |-> f.sn, len |-> t.total,
                   part |-> [nsdu |-> n, from |-> f.from]]
  <1>0. PICK c \in SequenceNumbers : Position(t, c)
    BY DEF Positioned
  <1>1. t.total \in 1..MaxNsdu /\ t.txOffset \in Nat
    BY OffsetNat DEF Positioned
  <1>2. 0 \in SequenceNumbers /\ Offset(0) = 0
    BY WireConfig DEF SequenceNumbers, Offset
  <1>3. CASE t.total <= SfMax
    <2>1. f.kind = "SF" /\ f.sn = 0 /\ f.from = 0
      BY <1>3 DEF S!NextFrame, S!SfFrame
    <2>2. t.txOffset = 0
      BY <1>0, <1>2, <1>3 DEF Position
    <2> HIDE DEF f
    <2> QED
      BY <2>1, <2>2, <1>1, <1>2 DEF GoodFrame, Frames, Parts, f
  <1>4. CASE t.total > SfMax /\ t.txOffset = 0
    <2>1. f.kind = "FF" /\ f.sn = 0 /\ f.from = 0
      BY <1>1, <1>4, WireConfig DEF S!NextFrame, S!FfFrame
    <2> HIDE DEF f
    <2> QED
      BY <2>1, <1>4, <1>1, <1>2 DEF GoodFrame, Frames, Parts, f
  <1>5. CASE t.total > SfMax /\ t.txOffset # 0
    <2>1. c # 0 /\ t.nextSN = c /\ t.txOffset = Offset(c)
      BY <1>0, <1>2, <1>5 DEF Position
    <2>2. c % SnModulus = c
      BY SmallSn
    <2>3. f.kind = "CF" /\ f.sn = c /\ f.from = Offset(c)
      BY <1>1, <1>5, <2>1, <2>2, WireConfig DEF S!NextFrame, S!CfFrame
    <2> HIDE DEF f
    <2> QED
      BY <2>1, <2>3, <1>1 DEF GoodFrame, Frames, Parts, f
  <1>6. t.total <= SfMax \/ t.total > SfMax
    BY <1>1, WireConfig
  <1> QED
    BY <1>3, <1>4, <1>5, <1>6

LEMMA CountBound ==
    ASSUME NEW n \in 1..MaxNsdu
    PROVE  SegmentCount(n) \in Int /\ SegmentCount(n) <= SnModulus
  <1>1. n \in Int /\ n - FfPayload + CfPayload - 1 \in Int /\ CfPayload \in Nat \ {0}
    BY WireConfig
  <1>2. SegmentCount(n) \in Int
    BY <1>1 DEF SegmentCount
  <1> QED
    BY <1>2, LinkConfig

\* A confirmed frame moves the offset to the end of its segment.
LEMMA CommittedStep ==
    ASSUME TxRec(tx), SessionOk(tx), tx.state = "WAIT_CONFIRM"
    PROVE  LET d == S!Committed(tx) IN
           /\ TxRec(d) /\ tx.txOffset < d.txOffset
           /\ d.txOffset # d.total => Positioned(d)
  <1> DEFINE d == S!Committed(tx)
             cf == tx.frame.kind = "CF"
  <1>0. PICK c \in SequenceNumbers : Position(tx, c)
    BY DEF SessionOk, Positioned
  <1>1. /\ tx.total \in 1..MaxNsdu /\ tx.txOffset \in Nat
        /\ tx.frame = S!NextFrame(tx)
    BY OffsetNat DEF SessionOk, Positioned
  <1>2. /\ TxRec(d) /\ d.total = tx.total
        /\ d.txOffset = tx.txOffset + tx.frame.bytes
        /\ d.nextSN = IF cf THEN (tx.nextSN + 1) % SnModulus ELSE tx.nextSN
    <2>1. CASE cf
      BY ZenonT(30), <2>1 DEF TxRec, TxFields, S!Committed
    <2>2. CASE ~cf
      BY <2>2 DEF TxRec, TxFields, S!Committed
    <2> QED
      BY <2>1, <2>2
  <1> HIDE DEF d
  <1>3. CASE tx.total <= SfMax
    <2>1. tx.frame.bytes = tx.total
      BY <1>1, <1>3 DEF S!NextFrame, S!SfFrame
    <2>2. tx.txOffset = 0
      BY <1>0, <1>3 DEF Position, Offset
    <2> QED
      BY <1>1, <1>2, <2>1, <2>2 DEF d
  <1>4. CASE tx.total > SfMax
    <2> DEFINE left == tx.total - tx.txOffset
               step == IF c = 0 THEN FfPayload ELSE CfPayload
    <2>1. /\ tx.txOffset = Offset(c) /\ c \in Nat
          /\ c = 0 <=> tx.txOffset = 0
          /\ left \in Nat \ {0}
          /\ tx.nextSN = IF c = 0 THEN 1 ELSE c
      BY <1>0, <1>1, OffsetType, WireConfig DEF Position, SequenceNumbers
    <2>2. tx.frame.bytes \in 1..step /\ (cf <=> c # 0)
      <3>1. CASE c = 0
        <4>1. tx.frame.bytes = FfPayload /\ tx.frame.kind = "FF"
          BY <1>1, <1>4, <2>1, <3>1, WireConfig DEF S!NextFrame, S!FfFrame
        <4> QED
          BY <4>1, <3>1, WireConfig
      <3>2. CASE c # 0
        <4>1. /\ tx.frame.kind = "CF"
              /\ tx.frame.bytes = IF left < CfPayload THEN left ELSE CfPayload
          BY <1>1, <1>4, <2>1, <3>2, WireConfig DEF S!NextFrame, S!CfFrame, S!CfBytes
        <4> HIDE DEF left
        <4> QED
          BY <4>1, <2>1, <3>2, WireConfig
      <3> QED
        BY <3>1, <3>2
    <2>3. tx.txOffset < d.txOffset
      BY <1>1, <1>2, <2>2, WireConfig
    <2>4. ASSUME d.txOffset # d.total
          PROVE  d.txOffset = Offset(c + 1) /\ d.txOffset < d.total
      <3>1. Offset(c + 1) = Offset(c) + step
        BY <2>1, OffsetNext
      <3>2. CASE c = 0
        <4>1. tx.frame.bytes = FfPayload
          BY <1>1, <1>4, <2>1, <3>2, WireConfig DEF S!NextFrame, S!FfFrame
        <4> QED
          BY <4>1, <3>1, <3>2, <2>1, <1>1, <1>2, <1>4, WireConfig
      <3>3. CASE c # 0
        <4>1. tx.frame.bytes = IF left < CfPayload THEN left ELSE CfPayload
          BY <1>1, <1>4, <2>1, <3>3, WireConfig DEF S!NextFrame, S!CfFrame, S!CfBytes
        <4>2. tx.frame.bytes # left
          BY <1>1, <1>2, <2>4, <4>1, WireConfig
        <4>3. tx.frame.bytes = CfPayload /\ CfPayload < left
          BY <4>1, <4>2, <1>1, WireConfig
        <4> QED
          BY <4>3, <3>1, <3>3, <2>1, <1>1, <1>2, WireConfig
      <3> QED
        BY <3>2, <3>3
    <2>5. ASSUME d.txOffset # d.total PROVE Position(d, c + 1) /\ c + 1 \in SequenceNumbers
      <3>1. Offset(c + 1) < tx.total
        BY <2>4, <2>5, <1>2
      <3>2. c + 2 <= SegmentCount(tx.total)
        <4>1. c + 1 + 1 <= SegmentCount(tx.total)
          BY <3>1, <2>1, <1>1, <1>4, CountLower, WireConfig
        <4>2. SegmentCount(tx.total) \in Int
          BY <1>1, CountBound
        <4> QED
          BY <4>1, <4>2, <2>1
      <3>3. c + 1 \in 1..(SnModulus - 1)
        <4>1. SegmentCount(tx.total) <= SnModulus /\ SegmentCount(tx.total) \in Int
          BY <1>1, CountBound
        <4> QED
          BY <4>1, <3>2, <2>1, WireConfig
      <3>4. (c + 1) % SnModulus = c + 1
        BY <3>3, SmallSn DEF SequenceNumbers
      <3>5. d.nextSN = c + 1
        BY <3>4, <2>1, <2>2, <1>2
      <3> QED
        BY <2>4, <2>5, <3>3, <3>5, <1>2, <1>4, <1>1, <2>1, WireConfig
           DEF Position, SequenceNumbers
    <2> QED
      BY <2>3, <2>5, <1>1, <1>2 DEF Positioned, d
  <1>5. tx.total <= SfMax \/ tx.total > SfMax
    BY <1>1, WireConfig
  <1> QED
    BY <1>3, <1>4, <1>5 DEF d

LEMMA ConfirmStep ==
    ASSUME TxRec(tx), SessionOk(tx), S!DataTxConfirmation
    PROVE  GoesTo(tx, tx')
  <1>1. CASE S!LateConfirmation
    <2>1. /\ TxRec(tx') /\ tx'.state = tx.state /\ tx'.total = tx.total
          /\ tx'.txOffset = tx.txOffset /\ tx'.nextSN = tx.nextSN
          /\ tx'.frame = tx.frame
      BY <1>1 DEF S!LateConfirmation, TxRec, TxFields
    <2> QED
      BY <2>1, SameSession
  <1>2. CASE S!LastFrameConfirmed
    <2>1. tx.state = "WAIT_CONFIRM" /\ S!Finish(S!Committed(tx), "E_OK")
      BY <1>2 DEF S!LastFrameConfirmed
    <2> QED
      BY <2>1, CommittedStep, FinishStep
  <1>3. CASE S!BlockConfirmed \/ S!FrameConfirmed
    <2> DEFINE d == S!Committed(tx)
    <2>1. tx.state = "WAIT_CONFIRM" /\ d.txOffset # tx.total
      BY <1>3 DEF S!BlockConfirmed, S!FrameConfirmed
    <2>2. TxRec(d) /\ tx.txOffset < d.txOffset /\ d.total = tx.total
      <3>1. d.total = tx.total
        BY DEF S!Committed, TxRec, TxFields
      <3> QED
        BY <2>1, <3>1, CommittedStep
    <2>3. Positioned(d)
      BY <2>1, <2>2, CommittedStep
    <2>4. \/ tx' = [d EXCEPT !.fcPermissionGranted = FALSE, !.nBsStartMs = txMs,
                             !.nBsActive = TRUE, !.state = "WAIT_FC"]
          \/ tx' = [d EXCEPT !.state = "WAIT_STMIN"]
      BY <1>3 DEF S!BlockConfirmed, S!FrameConfirmed
    <2> HIDE DEF d
    <2>5. /\ TxRec(tx') /\ tx'.state \in {"WAIT_FC", "WAIT_STMIN"}
          /\ tx'.total = d.total /\ tx'.txOffset = d.txOffset
          /\ tx'.nextSN = d.nextSN
      BY <2>2, <2>4 DEF TxRec, TxFields
    <2>6. Positioned(tx')
      BY <2>3, <2>5 DEF Positioned, Position
    <2>7. Forward(tx, tx')
      <3>1. tx.txOffset \in Nat /\ d.txOffset \in Nat
        BY <2>1, <2>3, OffsetNat DEF SessionOk
      <3> QED
        BY <3>1, <2>1, <2>2, <2>5 DEF Forward
    <2> QED
      BY <2>5, <2>6, <2>7 DEF GoesTo, SessionOk
  <1> QED
    BY <1>1, <1>2, <1>3 DEF S!DataTxConfirmation

LEMMA FlowStep ==
    ASSUME TxRec(tx), SessionOk(tx), NEW cts \in BOOLEAN, S!FlowControl(cts)
    PROVE  GoesTo(tx, tx')
  <1>1. CASE S!FcIgnored
    BY <1>1, SameSession DEF S!FcIgnored
  <1>2. CASE S!FcInvalid
    BY <1>2, FinishStep DEF S!FcInvalid
  <1>3. CASE S!FcGranted
    <2> DEFINE t == [tx EXCEPT !.nBsActive = FALSE, !.blockCount = 0,
                               !.fcPermissionGranted = TRUE]
    <2>1. tx.state = "WAIT_FC" /\ tx' = S!AfterFc(t)
      BY <1>3 DEF S!FcGranted
    <2>2. /\ TxRec(t) /\ t.total = tx.total /\ t.txOffset = tx.txOffset
          /\ t.nextSN = tx.nextSN
      BY DEF TxRec, TxFields
    <2>3. Positioned(t) /\ tx.txOffset \in Nat
      <3>1. Positioned(tx)
        BY <2>1 DEF SessionOk
      <3> QED
        BY <3>1, <2>2, OffsetNat DEF Positioned, Position
    <2> HIDE DEF t
    <2>4. CASE t.priorCfExists
      <3>1. tx' = [t EXCEPT !.state = "WAIT_STMIN"]
        BY <2>1, <2>4 DEF S!AfterFc
      <3>2. /\ TxRec(tx') /\ tx'.state = "WAIT_STMIN" /\ tx'.total = t.total
            /\ tx'.txOffset = t.txOffset /\ tx'.nextSN = t.nextSN
        BY <2>2, <3>1 DEF TxRec, TxFields
      <3>3. Positioned(tx')
        BY <2>3, <3>2 DEF Positioned, Position
      <3> QED
        BY <2>1, <2>2, <2>3, <3>2, <3>3 DEF GoesTo, SessionOk, Forward
    <2>5. CASE ~t.priorCfExists
      <3>1. tx' = S!Prepared(t, txMs)
        BY <2>1, <2>5 DEF S!AfterFc
      <3> QED
        BY <2>1, <2>2, <2>3, <3>1, PreparedStep DEF GoesTo, Forward
    <2> QED
      BY <2>4, <2>5
  <1> QED
    BY <1>1, <1>2, <1>3 DEF S!FlowControl

\* The session as it stands when its frame is requested.
LEMMA RequestingStep ==
    ASSUME TxRec(tx), SessionOk(tx), NEW now, S!RequestDue(now)
    PROVE  LET t == S!Requesting(now) IN
           /\ TxRec(t) /\ SessionOk(t) /\ t.state = "REQUEST_TX"
           /\ t.txOffset = tx.txOffset /\ t.total = tx.total
           /\ tx.state \in {"REQUEST_TX", "WAIT_STMIN"}
  <1>1. CASE S!StMinGateOpen(now)
    <2>1. tx.state = "WAIT_STMIN" /\ S!Requesting(now) = S!Prepared(tx, now)
      BY <1>1 DEF S!StMinGateOpen, S!Requesting
    <2>2. Positioned(tx)
      BY <2>1 DEF SessionOk
    <2> QED
      BY <2>1, <2>2, PreparedStep
  <1>2. CASE ~S!StMinGateOpen(now)
    <2>1. S!Requesting(now) = tx
      BY <1>2 DEF S!Requesting
    <2> QED
      BY <2>1 DEF S!RequestDue
  <1> QED
    BY <1>1, <1>2

LEMMA RequestStep ==
    ASSUME TxRec(tx), SessionOk(tx), NEW now, S!RequestAccepted(now)
    PROVE  /\ GoesTo(tx, tx')
           /\ tx.state \in {"REQUEST_TX", "WAIT_STMIN"}
           /\ tx'.state = "WAIT_CONFIRM" /\ tx'.txOffset = tx.txOffset
           /\ tx'.total = tx.total
           /\ Positioned(tx') /\ tx'.frame = S!NextFrame(tx')
  <1> DEFINE t == S!Requesting(now)
  <1>1. /\ S!RequestDue(now)
        /\ tx' = [t EXCEPT !.txPduPending = TRUE, !.nAsStartMs = now,
                           !.nAsActive = TRUE, !.state = "WAIT_CONFIRM"]
    BY DEF S!RequestAccepted
  <1>2. /\ TxRec(t) /\ SessionOk(t) /\ t.state = "REQUEST_TX"
        /\ t.txOffset = tx.txOffset /\ t.total = tx.total
        /\ tx.state \in {"REQUEST_TX", "WAIT_STMIN"}
    BY <1>1, RequestingStep
  <1> HIDE DEF t
  <1>3. /\ TxRec(tx') /\ tx'.state = "WAIT_CONFIRM" /\ tx'.total = t.total
        /\ tx'.txOffset = t.txOffset /\ tx'.nextSN = t.nextSN
        /\ tx'.frame = t.frame
    BY <1>1, <1>2 DEF TxRec, TxFields
  <1>4. Positioned(tx') /\ t.frame = S!NextFrame(t)
    BY <1>2, <1>3 DEF SessionOk, Positioned, Position
  <1>5. S!NextFrame(tx') = S!NextFrame(t)
    BY <1>3 DEF S!NextFrame
  <1>6. Forward(tx, tx')
    BY <1>2, <1>3, <1>4, OffsetNat DEF Forward
  <1> QED
    BY <1>2, <1>3, <1>4, <1>5, <1>6 DEF GoesTo, SessionOk

LEMMA OtherStep ==
    ASSUME TxRec(tx), SessionOk(tx), NEW now,
           \/ S!NAsTimeout(now) \/ S!NBsTimeout(now) \/ S!RequestRetried(now)
           \/ S!RequestExhausted(now) \/ S!NothingDue(now)
    PROVE  GoesTo(tx, tx')
  <1>1. CASE S!NAsTimeout(now) \/ S!NBsTimeout(now)
    BY <1>1, FinishStep DEF S!NAsTimeout, S!NBsTimeout
  <1>2. CASE S!RequestExhausted(now)
    <2>1. S!RequestDue(now) /\ S!Finish(S!Requesting(now), "E_NOT_OK")
      BY <1>2 DEF S!RequestExhausted
    <2> QED
      BY <2>1, RequestingStep, FinishStep
  <1>3. CASE S!NothingDue(now)
    BY <1>3, SameSession DEF S!NothingDue
  <1>4. CASE S!RequestRetried(now)
    <2> DEFINE t == S!Requesting(now)
    <2>1. /\ S!RequestDue(now)
          /\ tx' = [t EXCEPT !.retryCount = t.retryCount + 1,
                             !.dataAttemptDueMs = S!NextMs(now)]
      BY <1>4 DEF S!RequestRetried
    <2>2. /\ TxRec(t) /\ SessionOk(t) /\ t.state = "REQUEST_TX"
          /\ t.txOffset = tx.txOffset
          /\ tx.state \in {"REQUEST_TX", "WAIT_STMIN"}
      BY <2>1, RequestingStep
    <2> HIDE DEF t
    <2>3. /\ TxRec(tx') /\ tx'.state = t.state /\ tx'.total = t.total
          /\ tx'.txOffset = t.txOffset /\ tx'.nextSN = t.nextSN
          /\ tx'.frame = t.frame
      BY <2>1, <2>2 DEF TxRec, TxFields
    <2>4. Positioned(tx') /\ t.frame = S!NextFrame(t)
      BY <2>2, <2>3 DEF SessionOk, Positioned, Position
    <2>5. S!NextFrame(tx') = S!NextFrame(t)
      BY <2>3 DEF S!NextFrame
    <2>6. Forward(tx, tx')
      BY <2>2, <2>3, <2>4, OffsetNat DEF Forward
    <2> QED
      BY <2>2, <2>3, <2>4, <2>5, <2>6 DEF GoesTo, SessionOk
  <1> QED
    BY <1>1, <1>2, <1>3, <1>4

LEMMA SubmitStep ==
    ASSUME NEW len, S!SubmitAccepted(len)
    PROVE  TxRec(tx') /\ SessionOk(tx')
  <1> DEFINE t == [S!IdleTx EXCEPT !.total = len]
  <1>1. len \in 1..MaxNsdu /\ tx' = S!Prepared(t, txMs)
    BY DEF S!SubmitAccepted
  <1>2. TxRec(t) /\ t.total = len /\ t.txOffset = 0 /\ t.nextSN = 1
    BY DEF TxRec, TxFields, S!IdleTx
  <1> HIDE DEF t
  <1>3. Position(t, 0) /\ 0 \in SequenceNumbers
    BY <1>1, <1>2, WireConfig DEF Position, Offset, SequenceNumbers
  <1>4. Positioned(t)
    BY <1>1, <1>2, <1>3 DEF Positioned
  <1> QED
    BY <1>1, <1>2, <1>4, PreparedStep

\* What was sent stays sent: within an N-SDU the offset only grows, and the
\* next N-SDU has a higher number.
SentStays == \A p \in Parts : SentNow(p) => Sent(tx', submits', p)

LEMMA ForwardSends ==
    ASSUME SenderInv, GoesTo(tx, tx'), submits' = submits
    PROVE  SenderInv' /\ SentStays
  <1>1. SenderInv'
    BY DEF SenderInv, GoesTo, SessionOk, TxRec, Positioned, Position
  <1>2. ASSUME NEW p \in Parts, SentNow(p) PROVE Sent(tx', submits', p)
    <2>1. CASE p.nsdu < submits \/ tx'.state = "IDLE"
      <3>1. p.nsdu \in Nat /\ submits \in Nat
        BY DEF Parts, SenderInv
      <3> QED
        BY <1>2, <2>1, <3>1 DEF SentNow, Sent
    <2>2. CASE p.nsdu = submits /\ tx'.state # "IDLE"
      <3>1. /\ tx.state # "IDLE" /\ tx.txOffset <= tx'.txOffset
            /\ tx.state = "WAIT_CONFIRM" =>
                   tx'.state = "WAIT_CONFIRM" \/ tx.txOffset < tx'.txOffset
        BY <2>2 DEF GoesTo, Forward
      <3>2. tx.txOffset \in Nat /\ tx'.txOffset \in Nat /\ p.from \in Nat
        <4>1. Positioned(tx) /\ Positioned(tx')
          BY <2>2, <3>1 DEF SenderInv, GoesTo, SessionOk
        <4> QED
          BY <4>1, OffsetNat DEF Parts
      <3>3. p.from < tx.txOffset \/ (tx.state = "WAIT_CONFIRM" /\ p.from = tx.txOffset)
        <4>1. ~(p.nsdu < submits)
          BY <2>2 DEF Parts
        <4> QED
          BY <1>2, <2>2, <3>1, <4>1 DEF SentNow, Sent
      <3>4. p.from < tx'.txOffset \/ (tx'.state = "WAIT_CONFIRM" /\ p.from = tx'.txOffset)
        BY <3>1, <3>2, <3>3
      <3> QED
        BY <2>2, <3>4 DEF Sent
    <2> QED
      BY <1>2, <2>1, <2>2 DEF SentNow, Sent
  <1> QED
    BY <1>1, <1>2 DEF SentStays

LEMMA SubmitSends ==
    ASSUME SenderInv, TxRec(tx'), SessionOk(tx'), submits' = submits + 1
    PROVE  SenderInv' /\ SentStays
  <1>1. SenderInv'
    BY DEF SenderInv, SessionOk, TxRec, Positioned, Position
  <1>2. ASSUME NEW p \in Parts, SentNow(p) PROVE Sent(tx', submits', p)
    <2>1. p.nsdu < submits \/ p.nsdu = submits
      BY <1>2 DEF SentNow, Sent
    <2>2. p.nsdu < submits'
      BY <2>1 DEF Parts, SenderInv
    <2> QED
      BY <2>2 DEF Sent
  <1> QED
    BY <1>1, <1>2 DEF SentStays

LEMMA SenderSame ==
    ASSUME SenderInv, UNCHANGED <<tx, submits>>
    PROVE  SenderInv' /\ SentStays
  <1>1. SenderInv'
    BY DEF SenderInv, SessionOk, TxRec, Positioned, Position
  <1> QED
    BY <1>1 DEF SentStays, SentNow

\* What the sender's step leaves alone.
LEMMA SenderFrame ==
    ASSUME Sender
    PROVE  UNCHANGED <<rx, queue, dataIn, arrived>>
  BY DEF Sender, SenderNotSent, SenderConfirms, SenderReads, SenderRequests,
         SenderOther, SenderSubmits, SenderQuiet, SenderMain, SenderStep, receiver

\* Every step but the request keeps the mailbox or empties it.
LEMMA SenderStepInv ==
    ASSUME SenderInv, Sender
    PROVE  /\ SenderInv' /\ SentStays
           /\ dataMb' = dataMb \/ dataMb' = Empty \/ SenderRequests
  <1>1. CASE SenderNotSent \/ SenderQuiet
    BY <1>1, SenderSame DEF SenderNotSent, SenderQuiet
  <1>2. CASE SenderConfirms
    <2>1. S!DataTxConfirmation /\ submits' = submits /\ dataMb' = Empty
      BY <1>2 DEF SenderConfirms
    <2> QED
      BY <2>1, ConfirmStep, ForwardSends DEF SenderInv
  <1>3. CASE SenderReads
    <2>1. /\ submits' = submits /\ dataMb' = dataMb
          /\ IF fcIn = Nothing THEN tx' = tx ELSE S!FlowControl(fcIn.kind = "CTS")
      BY <1>3 DEF SenderReads
    <2>2. (fcIn.kind = "CTS") \in BOOLEAN
      OBVIOUS
    <2> QED
      BY <2>1, <2>2, FlowStep, ForwardSends, SenderSame DEF SenderInv
  <1>4. CASE SenderRequests
    <2>1. S!RequestAccepted(txMs') /\ submits' = submits
      BY <1>4 DEF SenderRequests, SenderMain
    <2>2. GoesTo(tx, tx')
      BY <2>1, RequestStep DEF SenderInv
    <2> QED
      BY <1>4, <2>1, <2>2, ForwardSends
  <1>5. CASE SenderOther
    <2>1. /\ \/ S!NAsTimeout(txMs') \/ S!NBsTimeout(txMs')
             \/ S!RequestRetried(txMs') \/ S!RequestExhausted(txMs')
             \/ S!NothingDue(txMs')
          /\ submits' = submits /\ dataMb' = dataMb
      BY <1>5 DEF SenderOther, SenderMain
    <2>2. GoesTo(tx, tx')
      BY <2>1, OtherStep DEF SenderInv
    <2> QED
      BY <2>1, <2>2, ForwardSends
  <1>6. CASE SenderSubmits
    <2>1. PICK len \in Lengths : S!SubmitAccepted(len)
      BY <1>6 DEF SenderSubmits
    <2>2. submits' = submits + 1 /\ dataMb' = dataMb
      BY <1>6 DEF SenderSubmits
    <2> QED
      BY <2>1, <2>2, SubmitStep, SubmitSends
  <1> QED
    BY <1>1, <1>2, <1>3, <1>4, <1>5, <1>6 DEF Sender

----------------------------------------------------------------------------
(* The order of the parts.                                                 *)

LEMMA PartTypes ==
    ASSUME ReceiverInv, BusInv
    PROVE  /\ \A k \in DOMAIN rx.buffer : rx.buffer[k] \in Parts
           /\ \A i \in DOMAIN arrived : /\ arrived[i] \in Slot
                                        /\ arrived[i].data \in Seq(Parts)
           /\ \A i \in DOMAIN arrived : \A k \in DOMAIN arrived[i].data :
                 arrived[i].data[k] \in Parts
           /\ dataIn # Nothing => dataIn.part \in Parts
           /\ dataMb.state = "WAITS" => dataMb.frame.part \in Parts
  <1>1. \A k \in DOMAIN rx.buffer : rx.buffer[k] \in Parts
    BY ElementOfSeq DEF ReceiverInv
  <1>2. \A i \in DOMAIN arrived : arrived[i] \in Slot
    BY ElementOfSeq DEF ReceiverInv
  <1>3. \A i \in DOMAIN arrived : arrived[i].data \in Seq(Parts)
    BY <1>2 DEF Slot
  <1>4. \A i \in DOMAIN arrived : \A k \in DOMAIN arrived[i].data :
            arrived[i].data[k] \in Parts
    BY <1>3, ElementOfSeq
  <1>5. \A f : GoodFrame(f) => f.part \in Parts
    BY DEF GoodFrame, Frames
  <1> QED
    BY <1>1, <1>2, <1>3, <1>4, <1>5 DEF BusInv

\* Nothing new on the way: parts move out of it, or are dropped.
LEMMA OrderShrinks ==
    ASSUME ReceiverInv, BusInv, OrderInv, SentStays,
           arrived' = arrived,
           rx'.buffer = rx.buffer \/ rx'.buffer = << >>,
           dataIn' = dataIn \/ dataIn' = Nothing,
           \/ dataMb' = dataMb
           \/ /\ dataMb' = [state |-> dataMb'.state, frame |-> dataMb'.frame]
              /\ dataMb'.state # "WAITS"
    PROVE  BusInv' /\ OrderInv'
  <1>1. BusInv'
    <2>1. (dataMb = [state |-> dataMb.state, frame |-> dataMb.frame])'
      BY DEF BusInv
    <2>2. dataMb'.state = "WAITS" => GoodFrame(dataMb'.frame)
      BY DEF BusInv
    <2>3. dataIn' # Nothing => GoodFrame(dataIn')
      BY DEF BusInv
    <2> QED
      BY <2>1, <2>2, <2>3 DEF BusInv, GoodFrame
  <1>2. ASSUME NEW p \in Parts, NextIn(p) PROVE NextIn(p)'
    <2>1. Sent(tx', submits', p) /\ AfterAll(arrived', p)
      BY <1>2 DEF NextIn, SentStays
    <2>2. After(rx'.buffer, p)
      BY <1>2 DEF NextIn, After
    <2> QED
      BY <2>1, <2>2 DEF NextIn, SentNow
  <1>3. FramesOnceInOrder'
    BY DEF OrderInv, FramesOnceInOrder
  <1>4. (\A i \in DOMAIN arrived :
            \A k \in DOMAIN arrived[i].data : SentNow(arrived[i].data[k]))'
    BY PartTypes DEF OrderInv, SentStays, SentNow
  <1>5. /\ Sorted(rx'.buffer)
        /\ \A k \in DOMAIN rx'.buffer :
              Sent(tx', submits', rx'.buffer[k]) /\ AfterAll(arrived', rx'.buffer[k])
    <2>1. CASE rx'.buffer = rx.buffer
      BY <2>1, PartTypes DEF OrderInv, SentStays, SentNow
    <2>2. CASE rx'.buffer = << >>
      BY <2>2 DEF Sorted
    <2> QED
      BY <2>1, <2>2
  <1>6. dataIn' # Nothing => dataIn' = dataIn /\ NextIn(dataIn.part)
    BY DEF OrderInv
  <1>7. (dataIn # Nothing => NextIn(dataIn.part))'
    <2>1. SUFFICES ASSUME dataIn' # Nothing PROVE NextIn(dataIn.part)'
      OBVIOUS
    <2>2. PICK p \in Parts : p = dataIn.part /\ p = dataIn'.part /\ NextIn(p)
      BY <2>1, <1>6, PartTypes
    <2>3. NextIn(p)'
      BY <2>2, <1>2
    <2> QED
      BY <2>2, <2>3 DEF NextIn, SentNow
  <1>8. (dataMb.state = "WAITS" => NextIn(dataMb.frame.part))'
    <2>1. SUFFICES ASSUME dataMb'.state = "WAITS" PROVE NextIn(dataMb.frame.part)'
      OBVIOUS
    <2>2. PICK p \in Parts : /\ p = dataMb.frame.part /\ p = dataMb'.frame.part
                             /\ NextIn(p)
      BY <2>1, PartTypes DEF OrderInv
    <2>3. NextIn(p)'
      BY <2>2, <1>2
    <2> QED
      BY <2>2, <2>3 DEF NextIn, SentNow
  <1>9. (dataIn # Nothing /\ dataMb.state = "WAITS" =>
            Later(dataIn.part, dataMb.frame.part))'
    BY DEF OrderInv, Later
  <1> QED
    BY <1>1, <1>3, <1>4, <1>5, <1>7, <1>8, <1>9 DEF OrderInv, SentNow

\* The part of a new request is newer than everything sent before it.
LEMMA RequestNext ==
    ASSUME SenderInv, NEW p \in Parts, SentNow(p),
           tx.state \in {"REQUEST_TX", "WAIT_STMIN"}
    PROVE  Later(p, [nsdu |-> submits, from |-> tx.txOffset])
  <1>1. tx.state # "WAIT_CONFIRM" /\ tx.state # "IDLE"
    OBVIOUS
  <1>2. p.nsdu < submits \/ (p.nsdu = submits /\ p.from < tx.txOffset)
    BY <1>1 DEF SentNow, Sent
  <1> QED
    BY <1>2 DEF Later

LEMMA RequestOrder ==
    ASSUME SenderInv, ReceiverInv, BusInv, OrderInv, SenderRequests, SentStays
    PROVE  BusInv' /\ OrderInv'
  <1> DEFINE p == [nsdu |-> submits, from |-> tx.txOffset]
  <1>1. /\ S!RequestAccepted(txMs') /\ dataMb.state = "EMPTY"
        /\ dataMb' = [state |-> "WAITS", frame |-> OnBus(tx'.frame)]
        /\ submits' = submits
        /\ arrived' = arrived /\ rx' = rx /\ dataIn' = dataIn
    BY SenderFrame DEF SenderRequests, SenderMain, Sender
  <1>2. /\ tx.state \in {"REQUEST_TX", "WAIT_STMIN"}
        /\ tx'.state = "WAIT_CONFIRM" /\ tx'.txOffset = tx.txOffset
        /\ tx'.total = tx.total
        /\ Positioned(tx') /\ tx'.frame = S!NextFrame(tx')
    BY <1>1, RequestStep DEF SenderInv
  <1>3. GoodFrame(OnBus(tx'.frame)) /\ OnBus(tx'.frame).part = p /\ p \in Parts
    <2>1. /\ tx'.frame.from = tx.txOffset
          /\ GoodFrame([kind |-> tx'.frame.kind, sn |-> tx'.frame.sn,
                        len |-> tx.total,
                        part |-> [nsdu |-> submits, from |-> tx'.frame.from]])
      BY <1>2, NextFrameGood DEF SenderInv
    <2>2. p \in Parts
      BY <1>2, OffsetNat DEF SenderInv, Parts
    <2> QED
      BY <2>1, <2>2 DEF OnBus
  <1>4. BusInv'
    <2>1. dataMb' = [state |-> dataMb'.state, frame |-> dataMb'.frame]
      BY <1>1
    <2>2. GoodFrame(dataMb'.frame)
      BY <1>1, <1>3
    <2> QED
      BY <2>1, <2>2, <1>1 DEF BusInv, GoodFrame
  <1>5. dataMb'.state = "WAITS" /\ dataMb'.frame.part = p
    BY <1>1, <1>3
  <1> HIDE DEF p
  <1>6. \A q \in Parts : SentNow(q) => Later(q, p)
    BY <1>2, RequestNext DEF p
  <1>7. Sent(tx', submits', p)
    BY <1>1, <1>2 DEF p, Sent
  <1>8. /\ AfterAll(arrived, p) /\ After(rx.buffer, p)
        /\ dataIn # Nothing => Later(dataIn.part, p)
    BY <1>6, PartTypes DEF OrderInv, AfterAll, After, NextIn
  <1>9. \A q \in Parts : NextIn(q) => Sent(tx', submits', q)
    BY DEF NextIn, SentStays
  <1>10. /\ \A i \in DOMAIN arrived : \A k \in DOMAIN arrived[i].data :
               Sent(tx', submits', arrived[i].data[k])
         /\ \A k \in DOMAIN rx.buffer : Sent(tx', submits', rx.buffer[k])
    BY PartTypes DEF OrderInv, SentStays
  <1>11. dataIn' # Nothing =>
            /\ Sent(tx', submits', dataIn.part)
            /\ AfterAll(arrived, dataIn.part) /\ After(rx.buffer, dataIn.part)
    BY <1>1, <1>9, PartTypes DEF OrderInv, NextIn
  <1> QED
    <2>1. FramesOnceInOrder'
      BY <1>1 DEF OrderInv, FramesOnceInOrder
    <2>2. (\A i \in DOMAIN arrived :
              \A k \in DOMAIN arrived[i].data : SentNow(arrived[i].data[k]))'
      BY <1>1, <1>10 DEF SentNow
    <2>3. /\ Sorted(rx'.buffer)
          /\ (\A k \in DOMAIN rx.buffer :
                SentNow(rx.buffer[k]) /\ AfterAll(arrived, rx.buffer[k]))'
      BY <1>1, <1>10 DEF SentNow, OrderInv
    <2>4. (dataIn # Nothing => NextIn(dataIn.part))'
      BY <1>1, <1>11 DEF NextIn, SentNow
    <2>5. NextIn(dataMb.frame.part)'
      BY <1>1, <1>5, <1>7, <1>8 DEF NextIn, SentNow
    <2>6. (dataIn # Nothing => Later(dataIn.part, dataMb.frame.part))'
      BY <1>1, <1>5, <1>8
    <2> QED
      BY <1>4, <2>1, <2>2, <2>3, <2>4, <2>5, <2>6 DEF OrderInv

LEMMA BusOrder ==
    ASSUME ReceiverInv, BusInv, OrderInv, SentStays, DataOnBus
    PROVE  BusInv' /\ OrderInv'
  <1>1. /\ dataMb.state = "WAITS" /\ dataIn' = dataMb.frame
        /\ dataMb' = [dataMb EXCEPT !.state = "SENT"]
        /\ arrived' = arrived /\ rx' = rx
    BY DEF DataOnBus, receiver
  <1>2. /\ dataMb' = [state |-> "SENT", frame |-> dataMb.frame]
        /\ dataMb'.state = "SENT"
    BY <1>1 DEF BusInv
  <1>3. GoodFrame(dataIn') /\ dataIn'.part \in Parts
    BY <1>1, PartTypes DEF BusInv
  <1>4. BusInv'
    BY <1>2, <1>3 DEF BusInv, GoodFrame
  <1>5. /\ Sent(tx', submits', dataIn'.part)
        /\ AfterAll(arrived, dataIn'.part) /\ After(rx.buffer, dataIn'.part)
    BY <1>1, <1>3 DEF OrderInv, NextIn, SentStays
  <1>6. /\ \A i \in DOMAIN arrived : \A k \in DOMAIN arrived[i].data :
              Sent(tx', submits', arrived[i].data[k])
        /\ \A k \in DOMAIN rx.buffer : Sent(tx', submits', rx.buffer[k])
    BY PartTypes DEF OrderInv, SentStays
  <1>7. FramesOnceInOrder'
    BY <1>1 DEF OrderInv, FramesOnceInOrder
  <1>8. NextIn(dataIn.part)'
    BY <1>1, <1>5 DEF NextIn, SentNow
  <1>9. /\ Sorted(rx'.buffer)
        /\ (\A k \in DOMAIN rx.buffer :
              SentNow(rx.buffer[k]) /\ AfterAll(arrived, rx.buffer[k]))'
    BY <1>1, <1>6 DEF SentNow, OrderInv
  <1>10. (\A i \in DOMAIN arrived :
            \A k \in DOMAIN arrived[i].data : SentNow(arrived[i].data[k]))'
    BY <1>1, <1>6 DEF SentNow
  <1> QED
    BY <1>2, <1>4, <1>7, <1>8, <1>9, <1>10 DEF OrderInv

----------------------------------------------------------------------------
(* The receiver's queue: only a completed reception makes a slot READY.    *)

\* No slot of s is READY that was not READY in q.
NoneReady(q, s) ==
    \A i \in R!Indices : s.slots[i].state = "READY" => q.slots[i].state = "READY"

LEMMA QueueConstants ==
    /\ R!FreeSlot \in Slot /\ R!FreeSlot.state = "FREE"
    /\ \A i \in R!Indices : R!NextIndex(i) \in R!Indices
  <1>1. << >> \in Seq(Parts)
    OBVIOUS
  <1>2. R!FreeSlot \in Slot /\ R!FreeSlot.state = "FREE"
    BY <1>1 DEF R!FreeSlot, Slot
  <1>3. ASSUME NEW i \in R!Indices PROVE R!NextIndex(i) \in R!Indices
    BY ModRange, LinkConfig DEF R!Indices, R!NextIndex
  <1> QED
    BY <1>2, <1>3

LEMMA GivenBack ==
    ASSUME NEW q \in Queue
    PROVE  /\ R!Indicate(q, "E_NOT_OK") \in Queue
           /\ NoneReady(q, R!Indicate(q, "E_NOT_OK"))
  <1>1. CASE ~q.reservationActive
    BY <1>1 DEF R!Indicate, NoneReady
  <1>2. CASE q.reservationActive
    <2> DEFINE p == [q EXCEPT !.reservationActive = FALSE,
                              !.slots[q.reservedIndex] = R!FreeSlot]
    <2>1. R!Indicate(q, "E_NOT_OK") = p
      BY <1>2 DEF R!Indicate
    <2>2. q.reservedIndex \in R!Indices
      BY DEF Queue
    <2>3. /\ p \in Queue
          /\ p.slots = [q.slots EXCEPT ![q.reservedIndex] = R!FreeSlot]
      BY <2>2, QueueConstants DEF Queue
    <2>4. NoneReady(q, p)
      BY <2>2, <2>3, QueueConstants DEF NoneReady, Queue
    <2> QED
      BY <2>1, <2>3, <2>4
  <1> QED
    BY <1>1, <1>2

LEMMA ReservedStep ==
    ASSUME NEW q \in Queue, NEW len \in Nat
    PROVE  R!Reserve(q, len) \in Queue /\ NoneReady(q, R!Reserve(q, len))
  <1> DEFINE w == q.writeIndex
             slot == [q.slots[w] EXCEPT !.state = "RESERVED", !.length = len]
             p == R!Reserve(q, len)
  <1>1. w \in R!Indices /\ q.slots[w] \in Slot
    BY DEF Queue
  <1>2. slot \in Slot /\ slot.state = "RESERVED"
    BY <1>1 DEF Slot
  <1>3. p.slots = [q.slots EXCEPT ![w] = slot]
    BY <1>1 DEF R!Reserve, Queue
  <1>4. p \in Queue
    BY <1>1, <1>2 DEF R!Reserve, Queue, Slot
  <1>5. NoneReady(q, p)
    BY <1>1, <1>2, <1>3 DEF NoneReady, Queue
  <1> QED
    BY <1>4, <1>5

\* The one READY slot it makes holds the data, at the length of the session.
LEMMA PublishedStep ==
    ASSUME NEW q \in Queue, NEW len \in Nat, R!CanCopy(q, len),
           NEW data \in Seq(Parts)
    PROVE  LET s == R!Indicate(R!CopyIn(q, data), "E_OK") IN
           /\ s \in Queue /\ q.reservedIndex \in R!Indices
           /\ s.slots[q.reservedIndex].data = data
           /\ s.slots[q.reservedIndex].length = len
           /\ \A i \in R!Indices \ {q.reservedIndex} :
                 s.slots[i].state = "READY" => q.slots[i].state = "READY"
  <1> DEFINE w == q.reservedIndex
             slot == [q.slots[w] EXCEPT !.state = "READY", !.data = data]
             c == R!CopyIn(q, data)
             s == R!Indicate(c, "E_OK")
  <1>1. /\ w \in R!Indices /\ q.slots[w] \in Slot
        /\ q.reservationActive /\ q.slots[w].length = len
    BY DEF Queue, R!CanCopy
  <1>2. slot \in Slot /\ slot.state = "READY" /\ slot.data = data /\ slot.length = len
    BY <1>1 DEF Slot
  <1>3. /\ c.slots = [q.slots EXCEPT ![w] = slot]
        /\ c.reservedIndex = w /\ c.reservationActive
    BY <1>1 DEF R!CopyIn, Queue
  <1>4. c \in Queue
    <2>1. c = [q EXCEPT !.slots = [q.slots EXCEPT ![w] = slot]]
      BY <1>1 DEF R!CopyIn, Queue
    <2>2. [q.slots EXCEPT ![w] = slot] \in [R!Indices -> Slot]
      BY <1>1, <1>2 DEF Queue
    <2> QED
      BY <1>1, <2>1, <2>2 DEF Queue
  <1>5. c.slots[w].state = "READY"
    BY <1>1, <1>2, <1>3 DEF Queue
  <1>6. s = [c EXCEPT !.reservationActive = FALSE, !.writeIndex = R!NextIndex(w)]
    BY <1>3, <1>5 DEF R!Indicate
  <1>7. s \in Queue /\ s.slots = c.slots
    BY ZenonT(30), <1>1, <1>4, <1>6, QueueConstants DEF Queue
  <1>8. s.slots = [q.slots EXCEPT ![w] = slot]
    BY <1>3, <1>7
  <1> HIDE DEF s, c, slot
  <1>9. /\ s.slots[w] = slot
        /\ \A i \in R!Indices \ {w} : s.slots[i] = q.slots[i]
    BY <1>1, <1>8 DEF Queue
  <1> QED
    BY <1>1, <1>2, <1>7, <1>9 DEF s, c

LEMMA TakenStep ==
    ASSUME NEW q \in Queue
    PROVE  R!Receive(q) \in Queue
  BY QueueConstants DEF R!Receive, Queue

\* What the history records in a step.
LEMMA RecordedNone ==
    ASSUME NoneReady(queue, queue')
    PROVE  Published = arrived
  BY DEF Published, NoneReady

LEMMA RecordedOne ==
    ASSUME NEW w \in R!Indices,
           \A i \in R!Indices \ {w} :
              queue'.slots[i].state = "READY" => queue.slots[i].state = "READY"
    PROVE  Published = arrived \/ Published = Append(arrived, queue'.slots[w])
  <1> DEFINE new == {i \in R!Indices : /\ queue'.slots[i].state = "READY"
                                       /\ queue.slots[i].state # "READY"}
  <1>1. Published = IF new = {} THEN arrived
                    ELSE Append(arrived, queue'.slots[CHOOSE i \in new : TRUE])
    BY DEF Published
  <1>2. new \subseteq {w}
    OBVIOUS
  <1> HIDE DEF new
  <1>3. new # {} => (CHOOSE i \in new : TRUE) = w
    BY <1>2
  <1> QED
    BY <1>1, <1>3

----------------------------------------------------------------------------
(* The receiver's session: each step drops a session or keeps it, takes a  *)
(* part in, or delivers a message.                                         *)

Dropped ==
    /\ RxRec(rx') /\ queue' \in Queue
    /\ rx'.buffer = rx.buffer \/ rx'.buffer = << >>
    /\ rx'.state # "IDLE" => Reassembly(rx')
    /\ arrived' = arrived

Taken(parts) ==
    /\ RxRec(rx') /\ queue' \in Queue
    /\ rx'.buffer = parts /\ Reassembly(rx')
    /\ arrived' = arrived

Complete(parts, message) ==
    /\ message \in Slot /\ message.data = parts
    /\ InPlace(parts) /\ Len(parts) = SegmentCount(message.length)
    /\ message.length \in 1..MaxNsdu

Delivered(parts) ==
    /\ RxRec(rx') /\ queue' \in Queue
    /\ rx'.buffer = << >> /\ rx'.state = "IDLE"
    /\ \E message \in Slot :
          Complete(parts, message) /\ arrived' = Append(arrived, message)

LEMMA SameReassembly ==
    ASSUME NEW r, NEW s, r.state # "IDLE" => Reassembly(r),
           s.state # "IDLE" => r.state # "IDLE", s.total = r.total,
           s.buffer = r.buffer, s.received = r.received,
           s.expectedSN = r.expectedSN
    PROVE  s.state # "IDLE" => Reassembly(s)
  BY DEF Reassembly

LEMMA ResetStep ==
    ASSUME NEW r
    PROVE  LET s == R!ResetRxSession(r) IN
           RxRec(s) /\ s.state = "IDLE" /\ s.buffer = << >>
  <1> DEFINE frame == IF R!FcBusy(r) THEN r.fcFrame ELSE "NONE"
             s == [R!ZeroRx EXCEPT !.expectedSN = 1,
                                   !.fcTxPending = r.fcTxPending,
                                   !.fcRequestActive = r.fcRequestActive,
                                   !.fcFrame = frame]
  <1>1. R!ResetRxSession(r) = s
    BY DEF R!ResetRxSession
  <1> HIDE DEF frame
  <1>2. RxRec(s) /\ s.state = "IDLE" /\ s.buffer = << >>
    BY ZenonT(30) DEF RxRec, RxFields, R!ZeroRx
  <1> QED
    BY <1>1, <1>2

LEMMA AbortKeeps ==
    ASSUME NEW r, NEW q \in Queue, R!Abort(r, q)
    PROVE  /\ RxRec(rx') /\ rx'.state = "IDLE" /\ rx'.buffer = << >>
           /\ queue' \in Queue /\ NoneReady(q, queue')
  <1>1. rx' = R!ResetRxSession(r)
    BY DEF R!Abort
  <1>2. queue' = R!Indicate(q, "E_NOT_OK") \/ queue' = q
    BY DEF R!Abort
  <1>3. queue' \in Queue /\ NoneReady(q, queue')
    BY <1>2, GivenBack DEF NoneReady
  <1> QED
    BY <1>1, <1>3, ResetStep

LEMMA AbortDrops ==
    ASSUME NEW r, NEW q \in Queue, NoneReady(queue, q), R!Abort(r, q),
           arrived' = Published
    PROVE  Dropped
  <1>1. /\ RxRec(rx') /\ rx'.state = "IDLE" /\ rx'.buffer = << >>
        /\ queue' \in Queue /\ NoneReady(q, queue')
    BY AbortKeeps
  <1>2. NoneReady(queue, queue')
    BY <1>1 DEF NoneReady
  <1> QED
    BY <1>1, <1>2, RecordedNone DEF Dropped

LEMMA CompleteStep ==
    ASSUME NEW r, NEW q \in Queue, NoneReady(queue, q), R!Complete(r, q),
           arrived' = Published,
           r.buffer \in Seq(Parts), InPlace(r.buffer),
           r.total \in 1..MaxNsdu, Len(r.buffer) = SegmentCount(r.total)
    PROVE  Dropped \/ Delivered(r.buffer)
  <1>1. CASE ~R!CanCopy(q, r.total)
    <2>1. R!Abort(r, q)
      BY <1>1 DEF R!Complete
    <2> QED
      BY <2>1, AbortDrops
  <1>2. CASE R!CanCopy(q, r.total)
    <2> DEFINE w == q.reservedIndex
    <2>1. /\ rx' = R!ResetRxSession(r)
          /\ queue' = R!Indicate(R!CopyIn(q, r.buffer), "E_OK")
      BY <1>2 DEF R!Complete
    <2>2. RxRec(rx') /\ rx'.state = "IDLE" /\ rx'.buffer = << >>
      BY <2>1, ResetStep
    <2>3. /\ queue' \in Queue /\ w \in R!Indices
          /\ queue'.slots[w].data = r.buffer /\ queue'.slots[w].length = r.total
          /\ \A i \in R!Indices \ {w} :
                queue'.slots[i].state = "READY" => q.slots[i].state = "READY"
      <3>1. r.total \in Nat
        OBVIOUS
      <3> QED
        BY <1>2, <2>1, <3>1, PublishedStep
    <2>4. \A i \in R!Indices \ {w} :
             queue'.slots[i].state = "READY" => queue.slots[i].state = "READY"
      BY <2>3 DEF NoneReady
    <2>5. Published = arrived \/ Published = Append(arrived, queue'.slots[w])
      BY <2>3, <2>4, RecordedOne
    <2>6. queue'.slots[w] \in Slot
      BY <2>3 DEF Queue
    <2>7. Complete(r.buffer, queue'.slots[w])
      BY <2>3, <2>6 DEF Complete
    <2>8. CASE Published = arrived
      BY <2>2, <2>3, <2>8 DEF Dropped
    <2>9. CASE Published = Append(arrived, queue'.slots[w])
      BY <2>2, <2>3, <2>6, <2>7, <2>9 DEF Delivered
    <2> QED
      BY <2>5, <2>8, <2>9
  <1> QED
    BY <1>1, <1>2

\* The session that runs while a Flow Control frame is asked for.
LEMMA WithFcStep ==
    ASSUME NEW r, RxRec(r), NEW status
    PROVE  LET s == R!WithFc(r, status) IN
           /\ RxRec(s) /\ s.total = r.total /\ s.buffer = r.buffer
           /\ s.received = r.received /\ s.expectedSN = r.expectedSN
           /\ status # "CTS" => s.state = r.state
  <1> DEFINE nCr == IF status = "CTS" THEN FALSE ELSE r.nCrActive
             state == IF status = "CTS" THEN "FC_PENDING" ELSE r.state
             s == [r EXCEPT !.fcFrame = status, !.fcRequestActive = TRUE,
                            !.fcRetryCount = 0, !.fcAttemptDueMs = rxMs,
                            !.nCrActive = nCr, !.state = state]
  <1>1. R!WithFc(r, status) = s
    BY DEF R!WithFc, RxRec, RxFields
  <1>2. status # "CTS" => state = r.state
    OBVIOUS
  <1> HIDE DEF nCr, state
  <1>3. /\ RxRec(s) /\ s.total = r.total /\ s.buffer = r.buffer
        /\ s.received = r.received /\ s.expectedSN = r.expectedSN
        /\ s.state = state
    BY DEF RxRec, RxFields
  <1> HIDE DEF s
  <1> QED
    BY <1>1, <1>2, <1>3

\* What a new SF or FF finds: the session before it, if any, is gone.
LEMMA StartStep ==
    ASSUME ReceiverInv
    PROVE  /\ R!QueueForStart \in Queue /\ NoneReady(queue, R!QueueForStart)
           /\ RxRec(R!RxForStart) /\ R!RxForStart.state = "IDLE"
           /\ R!RxForStart.buffer = rx.buffer \/ R!RxForStart.buffer = << >>
  <1>1. CASE rx.state = "IDLE"
    BY <1>1 DEF ReceiverInv, R!QueueForStart, R!RxForStart, NoneReady
  <1>2. CASE rx.state # "IDLE"
    BY <1>2, GivenBack, ResetStep DEF ReceiverInv, R!QueueForStart, R!RxForStart
  <1> QED
    BY <1>1, <1>2

LEMMA SameDrops ==
    ASSUME ReceiverInv, rx' = rx, queue' = queue,
           arrived' = arrived \/ arrived' = Published
    PROVE  Dropped
  <1>1. NoneReady(queue, queue')
    BY DEF NoneReady
  <1>2. arrived' = arrived
    BY <1>1, RecordedNone
  <1> QED
    BY <1>2 DEF ReceiverInv, Dropped, RxRec, Reassembly, InPlace

LEMMA OnePart ==
    ASSUME NEW p \in Parts, p.from = 0
    PROVE  <<p>> \in Seq(Parts) /\ Len(<<p>>) = 1 /\ InPlace(<<p>>)
  BY DEF InPlace, Offset

LEMMA SfStep ==
    ASSUME ReceiverInv, NEW f, GoodFrame(f), f.kind = "SF", HandleSf(f),
           arrived' = Published
    PROVE  Dropped \/ Delivered(<<f.part>>)
  <1> DEFINE p == f.part
             len == f.len
  <1>1. p \in Parts /\ p.from = 0 /\ len \in 1..MaxNsdu
    BY DEF GoodFrame, Frames
  <1>2. CASE R!SfIgnored(len)
    BY <1>2, SameDrops DEF R!SfIgnored
  <1>3. CASE R!SfNoSlot(len)
    <2>1. rx' = R!RxForStart /\ queue' = R!QueueForStart
      BY <1>3 DEF R!SfNoSlot
    <2>2. arrived' = arrived
      BY <2>1, StartStep, RecordedNone
    <2> QED
      BY <2>1, <2>2, StartStep DEF Dropped, RxRec
  <1>4. CASE R!SfDelivered(len, p)
    <2> DEFINE r == [R!ZeroRx EXCEPT !.total = len, !.received = len,
                        !.queueSlotReserved = TRUE, !.buffer = <<p>>]
               q == R!Reserve(R!QueueForStart, len)
    <2>1. len \in 1..SfMax /\ R!Complete(r, q)
      BY <1>4 DEF R!SfDelivered
    <2>2. r.buffer = <<p>> /\ r.total = len
      BY DEF R!ZeroRx
    <2>3. q \in Queue /\ NoneReady(queue, q)
      <3>1. q \in Queue /\ NoneReady(R!QueueForStart, q)
        BY <1>1, StartStep, ReservedStep
      <3> QED
        BY <3>1, StartStep DEF NoneReady
    <2>4. SegmentCount(len) = 1
      BY <2>1, WireConfig DEF SegmentCount
    <2> HIDE DEF r, q
    <2>5. /\ r.buffer \in Seq(Parts) /\ InPlace(r.buffer)
          /\ Len(r.buffer) = SegmentCount(r.total) /\ r.total \in 1..MaxNsdu
      BY <1>1, <2>2, <2>4, OnePart
    <2> QED
      BY <2>1, <2>2, <2>3, <2>5, CompleteStep
  <1> QED
    BY <1>2, <1>3, <1>4 DEF HandleSf

LEMMA FfStep ==
    ASSUME ReceiverInv, NEW f, GoodFrame(f), f.kind = "FF", HandleFf(f),
           arrived' = Published
    PROVE  Dropped \/ Taken(<<f.part>>)
  <1> DEFINE p == f.part
             len == f.len
  <1>1. p \in Parts /\ p.from = 0 /\ len \in 1..MaxNsdu
    BY DEF GoodFrame, Frames
  <1>2. CASE R!FfIgnored(len)
    BY <1>2, SameDrops DEF R!FfIgnored
  <1>3. CASE R!FfTooLong(len)
    <2>1. len > MaxNsdu
      BY <1>3 DEF R!FfTooLong
    <2> QED
      BY <1>1, <2>1, WireConfig
  <1>4. CASE R!FfNoSlot(len)
    <2>1. rx' = R!WithFc(R!RxForStart, "OVFLW") /\ queue' = R!QueueForStart
      BY <1>4 DEF R!FfNoSlot
    <2>2. arrived' = arrived
      BY <2>1, StartStep, RecordedNone
    <2>3. /\ RxRec(rx') /\ rx'.state = "IDLE"
          /\ rx'.buffer = rx.buffer \/ rx'.buffer = << >>
      BY <2>1, StartStep, WithFcStep
    <2> QED
      BY <2>1, <2>2, <2>3, StartStep DEF Dropped
  <1>5. CASE R!FfAccepted(len, p)
    <2> DEFINE r == [R!ZeroRx EXCEPT !.total = len, !.received = FfPayload,
                        !.expectedSN = 1, !.queueSlotReserved = TRUE,
                        !.buffer = <<p>>]
    <2>1. /\ len \in R!FfMin..MaxNsdu
          /\ queue' = R!Reserve(R!QueueForStart, len)
          /\ rx' = R!WithFc(r, "CTS")
      BY <1>5 DEF R!FfAccepted
    <2>2. queue' \in Queue /\ NoneReady(queue, queue')
      <3>1. queue' \in Queue /\ NoneReady(R!QueueForStart, queue')
        BY <1>1, <2>1, StartStep, ReservedStep
      <3> QED
        BY <3>1, StartStep DEF NoneReady
    <2>3. /\ RxRec(r) /\ r.buffer = <<p>> /\ r.total = len
          /\ r.received = FfPayload /\ r.expectedSN = 1
      BY ZenonT(30) DEF R!ZeroRx, RxRec, RxFields
    <2> HIDE DEF r
    <2>4. /\ RxRec(rx') /\ rx'.buffer = <<p>> /\ rx'.total = len
          /\ rx'.received = FfPayload /\ rx'.expectedSN = 1
      BY <2>1, <2>3, WithFcStep
    <2>5. /\ len \in (SfMax + 1)..MaxNsdu /\ FfPayload < len
          /\ Offset(1) = FfPayload /\ 1 \in SequenceNumbers \ {0}
      BY <2>1, WireConfig DEF R!FfMin, Offset, SequenceNumbers
    <2>6. Reassembly(rx')
      BY <1>1, <2>4, <2>5, OnePart DEF Reassembly
    <2> QED
      BY <2>2, <2>4, <2>6, RecordedNone DEF Taken
  <1> QED
    BY <1>2, <1>3, <1>4, <1>5 DEF HandleFf

\* One more part in its place.
LEMMA PartAppended ==
    ASSUME NEW parts \in Seq(Parts), InPlace(parts),
           NEW p \in Parts, p.from = Offset(Len(parts))
    PROVE  /\ Append(parts, p) \in Seq(Parts)
           /\ Len(Append(parts, p)) = Len(parts) + 1
           /\ InPlace(Append(parts, p))
  <1> DEFINE n == Len(parts)
             all == Append(parts, p)
  <1>1. all \in Seq(Parts) /\ Len(all) = n + 1 /\ n \in Nat
    OBVIOUS
  <1>2. \A k \in 1..n : all[k] = parts[k]
    OBVIOUS
  <1>3. all[n + 1] = p
    OBVIOUS
  <1>4. DOMAIN all = 1..(n + 1) /\ DOMAIN parts = 1..n
    BY <1>1
  <1> HIDE DEF all, n
  <1>5. ASSUME NEW k \in DOMAIN all PROVE all[k].from = Offset(k - 1)
    <2>1. CASE k \in 1..n
      BY <2>1, <1>2, <1>4 DEF InPlace
    <2>2. CASE k = n + 1
      <3>1. k - 1 = n
        BY <2>2, <1>1
      <3> QED
        BY <2>2, <3>1, <1>3 DEF n
    <2> QED
      BY <2>1, <2>2, <1>1, <1>4
  <1> QED
    BY <1>1, <1>5 DEF InPlace, all, n

\* The expected CF completes the message or leaves the session as long as
\* the next sequence number says.
LEMMA AppendedStep ==
    ASSUME ReceiverInv, rx.state = "WAIT_CF", NEW f, GoodFrame(f),
           f.kind = "CF", f.sn = rx.expectedSN
    PROVE  LET r == R!Appended(f.part) IN
           /\ RxRec(r) /\ r.state = "WAIT_CF" /\ r.total = rx.total
           /\ r.buffer = Append(rx.buffer, f.part)
           /\ r.buffer \in Seq(Parts) /\ InPlace(r.buffer)
           /\ r.received = r.total => Len(r.buffer) = SegmentCount(r.total)
           /\ r.received # r.total => Reassembly(r)
  <1> DEFINE p == f.part
             left == rx.total - rx.received
             c == rx.expectedSN
             received == rx.received + R!CfBytes(left)
             next == (c + 1) % SnModulus
             buffer == Append(rx.buffer, p)
             r == R!Appended(p)
  <1>1. /\ RxRec(rx) /\ rx.buffer \in Seq(Parts) /\ Reassembly(rx)
        /\ p \in Parts /\ p.from = Offset(c)
    BY DEF ReceiverInv, GoodFrame, Frames
  <1>2. /\ c \in Nat /\ c # 0 /\ Len(rx.buffer) = c
        /\ rx.total \in Nat /\ rx.total \in 1..MaxNsdu /\ rx.total > SfMax
        /\ rx.received = Offset(c) /\ rx.received \in Nat /\ rx.received < rx.total
    <2>1. c \in Nat /\ c # 0 /\ rx.received = Offset(c)
      BY <1>1 DEF Reassembly, SequenceNumbers
    <2>2. Offset(c) \in Nat
      BY <2>1, OffsetType
    <2> QED
      BY <1>1, <2>1, <2>2, WireConfig DEF Reassembly
  <1>3. /\ RxRec(r) /\ r.state = "WAIT_CF" /\ r.total = rx.total
        /\ r.buffer = buffer /\ r.received = received /\ r.expectedSN = next
    <2> HIDE DEF received, next, buffer
    <2>1. r = [rx EXCEPT !.nCrActive = FALSE, !.received = received,
                         !.expectedSN = next, !.blockCount = rx.blockCount + 1,
                         !.buffer = buffer]
      BY <1>1 DEF R!Appended, RxRec, RxFields, received, next, buffer
    <2> HIDE DEF r
    <2> QED
      BY <1>1, <2>1 DEF RxRec, RxFields
  <1>4. buffer \in Seq(Parts) /\ Len(buffer) = c + 1 /\ InPlace(buffer)
    BY <1>1, <1>2, PartAppended DEF Reassembly
  <1>5. /\ R!CfBytes(left) = IF left < CfPayload THEN left ELSE CfPayload
        /\ left \in Nat \ {0} /\ CfPayload \in Nat \ {0}
    BY <1>2, WireConfig DEF R!CfBytes
  <1> HIDE DEF left, r, buffer, received
  <1>6. ASSUME received = rx.total PROVE c + 1 = SegmentCount(rx.total)
    <2>1. rx.total - Offset(c) <= CfPayload
      BY <1>2, <1>5, <1>6 DEF left, received
    <2> QED
      BY <1>2, <2>1, CountExact, WireConfig
  <1>7. ASSUME received # rx.total PROVE Reassembly(r)
    <2>1. received = rx.received + CfPayload /\ received < rx.total
      BY <1>2, <1>5, <1>7 DEF left, received
    <2>2. received = Offset(c + 1)
      BY <1>2, <2>1, OffsetNext
    <2>3. c + 1 + 1 <= SegmentCount(rx.total)
      <3>1. c + 1 \in Nat /\ Offset(c + 1) < rx.total
            /\ (rx.total <= SfMax => c + 1 = 0)
        BY <1>2, <2>1, <2>2, WireConfig
      <3> QED
        BY <1>2, <3>1, CountLower
    <2>4. c + 1 \in 1..(SnModulus - 1)
      <3>1. SegmentCount(rx.total) <= SnModulus /\ SegmentCount(rx.total) \in Int
        BY <1>2, CountBound
      <3> QED
        BY <1>2, <2>3, <3>1, WireConfig
    <2>5. next = c + 1
      BY <2>4, SmallSn DEF SequenceNumbers
    <2> HIDE DEF c, next
    <2>6. c + 1 \in SequenceNumbers \ {0}
      BY <2>4 DEF SequenceNumbers
    <2>7. rx.total \in (SfMax + 1)..MaxNsdu
      BY <1>2, WireConfig
    <2> QED
      BY <1>3, <1>4, <2>1, <2>2, <2>5, <2>6, <2>7 DEF Reassembly
  <1> HIDE DEF c
  <1> QED
    BY <1>3, <1>4, <1>6, <1>7 DEF r, buffer

LEMMA CfStep ==
    ASSUME ReceiverInv, NEW f, GoodFrame(f), f.kind = "CF", HandleCf(f),
           arrived' = Published
    PROVE  LET parts == Append(rx.buffer, f.part) IN
           Dropped \/ Taken(parts) \/ Delivered(parts)
  <1> DEFINE p == f.part
             sn == f.sn
             r == R!Appended(p)
  <1>0. queue \in Queue /\ NoneReady(queue, queue)
    BY DEF ReceiverInv, NoneReady
  <1>1. CASE R!CfIgnored(sn)
    BY <1>1, SameDrops DEF R!CfIgnored
  <1>2. CASE R!CfWrongSn(sn)
    BY <1>0, <1>2, AbortDrops DEF R!CfWrongSn
  <1>3. ASSUME R!CfExpected(sn)
        PROVE  /\ RxRec(r) /\ r.state = "WAIT_CF" /\ r.total = rx.total
               /\ r.buffer = Append(rx.buffer, p)
               /\ r.buffer \in Seq(Parts) /\ InPlace(r.buffer)
               /\ r.received = r.total => Len(r.buffer) = SegmentCount(r.total)
               /\ r.received # r.total => Reassembly(r)
               /\ r.total \in 1..MaxNsdu
    <2>1. rx.state = "WAIT_CF" /\ sn = rx.expectedSN
      BY <1>3 DEF R!CfExpected
    <2>2. rx.total \in 1..MaxNsdu
      BY <2>1, WireConfig DEF ReceiverInv, Reassembly
    <2> QED
      BY <2>1, <2>2, AppendedStep
  <1>4. CASE R!CfLast(sn, p)
    <2>1. R!CfExpected(sn) /\ r.received = rx.total /\ R!Complete(r, queue)
      BY <1>4 DEF R!CfLast
    <2> HIDE DEF r
    <2> QED
      BY <1>0, <1>3, <2>1, CompleteStep
  <1>5. CASE R!CfBlockEnd(sn, p)
    <2>1. /\ R!CfExpected(sn) /\ r.received # rx.total
          /\ \/ R!Abort(r, queue)
             \/ rx' = R!WithFc(r, "CTS") /\ queue' = queue
      BY <1>5 DEF R!CfBlockEnd
    <2> HIDE DEF r
    <2>2. CASE R!Abort(r, queue)
      BY <1>0, <2>2, AbortDrops
    <2>3. CASE rx' = R!WithFc(r, "CTS") /\ queue' = queue
      <3>1. /\ RxRec(rx') /\ rx'.total = r.total /\ rx'.buffer = r.buffer
            /\ rx'.received = r.received /\ rx'.expectedSN = r.expectedSN
        BY <1>3, <2>1, <2>3, WithFcStep
      <3>2. Reassembly(rx')
        BY <1>3, <2>1, <3>1 DEF Reassembly
      <3>3. arrived' = arrived
        BY <1>0, <2>3, RecordedNone
      <3> QED
        BY <1>0, <1>3, <2>1, <2>3, <3>1, <3>2, <3>3 DEF Taken
    <2> QED
      BY <2>1, <2>2, <2>3
  <1>6. CASE R!CfInBlock(sn, p)
    <2>1. /\ R!CfExpected(sn) /\ r.received # rx.total
          /\ rx' = [r EXCEPT !.nCrStartMs = rxMs, !.nCrActive = TRUE]
          /\ queue' = queue
      BY <1>6 DEF R!CfInBlock
    <2> HIDE DEF r
    <2>2. /\ RxRec(rx') /\ rx'.total = r.total /\ rx'.buffer = r.buffer
          /\ rx'.received = r.received /\ rx'.expectedSN = r.expectedSN
      BY <1>3, <2>1 DEF RxRec, RxFields
    <2>3. Reassembly(rx')
      BY <1>3, <2>1, <2>2 DEF Reassembly
    <2>4. arrived' = arrived
      BY <1>0, <2>1, RecordedNone
    <2> QED
      BY <1>0, <1>3, <2>1, <2>2, <2>3, <2>4 DEF Taken
  <1> QED
    BY <1>1, <1>2, <1>4, <1>5, <1>6 DEF HandleCf

\* A step that only concerns Flow Control and timers.
LEMMA FcOnlyDrops ==
    ASSUME ReceiverInv, RxRec(rx'), queue' = queue, arrived' = arrived,
           rx'.state # "IDLE" => rx.state # "IDLE",
           rx'.total = rx.total, rx'.buffer = rx.buffer,
           rx'.received = rx.received, rx'.expectedSN = rx.expectedSN
    PROVE  Dropped
  BY DEF ReceiverInv, Dropped, Reassembly

LEMMA ConfirmDrops ==
    ASSUME ReceiverInv, R!FcConfirmedCts \/ R!FcConfirmedLate,
           arrived' = arrived
    PROVE  Dropped
  <1> DEFINE r == R!FcDone(rx)
  <1>1. /\ RxRec(r) /\ r.total = rx.total /\ r.buffer = rx.buffer
        /\ r.received = rx.received /\ r.expectedSN = rx.expectedSN
        /\ r.state = rx.state
    BY DEF ReceiverInv, R!FcDone, RxRec, RxFields
  <1>2. CASE R!FcConfirmedCts
    <2>1. /\ rx.state = "FC_PENDING" /\ queue' = queue
          /\ rx' = [r EXCEPT !.blockCount = 0, !.nCrStartMs = rxMs,
                             !.nCrActive = TRUE, !.state = "WAIT_CF"]
      BY <1>2 DEF R!FcConfirmedCts, R!OpensBlock
    <2> HIDE DEF r
    <2>2. /\ RxRec(rx') /\ rx'.total = r.total /\ rx'.buffer = r.buffer
          /\ rx'.received = r.received /\ rx'.expectedSN = r.expectedSN
      BY <1>1, <2>1 DEF RxRec, RxFields
    <2> QED
      BY <1>1, <2>1, <2>2, FcOnlyDrops
  <1>3. CASE R!FcConfirmedLate
    <2>1. rx' = r /\ queue' = queue
      BY <1>3 DEF R!FcConfirmedLate
    <2> HIDE DEF r
    <2>2. RxRec(rx')
      BY <1>1, <2>1 DEF RxRec
    <2> QED
      BY <1>1, <2>1, <2>2, FcOnlyDrops
  <1> QED
    BY <1>2, <1>3

LEMMA MainDrops ==
    ASSUME ReceiverInv, arrived' = arrived, NEW now,
           \/ R!FcRequestAccepted(now) \/ R!NArTimeout(now)
           \/ R!NCrTimeout(now) \/ R!FcRequestRetried(now)
           \/ R!FcRequestExhausted(now) \/ R!RxNothingDue(now)
    PROVE  Dropped
  <1>1. CASE R!NArTimeout(now) \/ R!NCrTimeout(now) \/ R!FcRequestExhausted(now)
    <2>1. PICK r : R!Abort(r, queue)
      BY <1>1 DEF R!NArTimeout, R!NCrTimeout, R!FcRequestExhausted
    <2> QED
      BY <2>1, AbortKeeps DEF ReceiverInv, Dropped
  <1>2. CASE R!FcRequestAccepted(now)
    <2>1. /\ rx' = [rx EXCEPT !.fcTxPending = TRUE, !.nArStartMs = now,
                              !.nArActive = TRUE]
          /\ queue' = queue
      BY <1>2 DEF R!FcRequestAccepted
    <2>2. /\ RxRec(rx') /\ rx'.total = rx.total /\ rx'.buffer = rx.buffer
          /\ rx'.received = rx.received /\ rx'.expectedSN = rx.expectedSN
          /\ rx'.state = rx.state
      BY <2>1 DEF ReceiverInv, RxRec, RxFields
    <2> QED
      BY <2>1, <2>2, FcOnlyDrops
  <1>3. CASE R!FcRequestRetried(now)
    <2>1. /\ rx' = [rx EXCEPT !.fcRetryCount = rx.fcRetryCount + 1,
                              !.fcAttemptDueMs = R!NextMs(now)]
          /\ queue' = queue
      BY <1>3 DEF R!FcRequestRetried, ReceiverInv, RxRec, RxFields
    <2>2. /\ RxRec(rx') /\ rx'.total = rx.total /\ rx'.buffer = rx.buffer
          /\ rx'.received = rx.received /\ rx'.expectedSN = rx.expectedSN
          /\ rx'.state = rx.state
      BY <2>1 DEF ReceiverInv, RxRec, RxFields
    <2> QED
      BY <2>1, <2>2, FcOnlyDrops
  <1>4. CASE R!RxNothingDue(now)
    BY <1>4, SameDrops DEF R!RxNothingDue
  <1> QED
    BY <1>1, <1>2, <1>3, <1>4

LEMMA ReceiverFrame ==
    ASSUME Receiver
    PROVE  /\ UNCHANGED <<tx, submits, dataMb>>
           /\ dataIn' = dataIn \/ dataIn' = Nothing
  BY DEF Receiver, ReceiverNotSent, ReceiverConfirms, ReceiverReads,
         ReceiverRequests, ReceiverOther, ReceiverTakes, ReceiverDone,
         ReceiverMain, ReceiverStep, EmptiedMb, sender, bus

\* What a frame from the bus may add: alone, or after the buffer.
Gathered(p) == {<<p>>, Append(rx.buffer, p)}

LEMMA ReadStep ==
    ASSUME ReceiverInv, BusInv, ReceiverReads
    PROVE  \/ Dropped
           \/ /\ dataIn # Nothing /\ dataIn' = Nothing
              /\ \E parts \in Gathered(dataIn.part) :
                    Taken(parts) \/ Delivered(parts)
  <1>1. arrived' = Published /\ dataIn' = Nothing
    BY DEF ReceiverReads, EmptiedMb
  <1>2. CASE dataIn.kind = "NONE" /\ rx' = rx /\ queue' = queue
    BY <1>1, <1>2, SameDrops
  <1>3. CASE dataIn.kind = "SF" /\ HandleSf(dataIn)
    <2>1. dataIn # Nothing /\ GoodFrame(dataIn)
      BY <1>3 DEF BusInv, Nothing
    <2>2. Dropped \/ Delivered(<<dataIn.part>>)
      BY <1>1, <1>3, <2>1, SfStep
    <2> QED
      BY <1>1, <2>1, <2>2 DEF Gathered
  <1>4. CASE dataIn.kind = "FF" /\ HandleFf(dataIn)
    <2>1. dataIn # Nothing /\ GoodFrame(dataIn)
      BY <1>4 DEF BusInv, Nothing
    <2>2. Dropped \/ Taken(<<dataIn.part>>)
      BY <1>1, <1>4, <2>1, FfStep
    <2> QED
      BY <1>1, <2>1, <2>2 DEF Gathered
  <1>5. CASE dataIn.kind = "CF" /\ HandleCf(dataIn)
    <2>1. dataIn # Nothing /\ GoodFrame(dataIn)
      BY <1>5 DEF BusInv, Nothing
    <2>2. \/ Dropped \/ Taken(Append(rx.buffer, dataIn.part))
          \/ Delivered(Append(rx.buffer, dataIn.part))
      BY <1>1, <1>5, <2>1, CfStep
    <2> QED
      BY <1>1, <2>1, <2>2 DEF Gathered
  <1> QED
    BY <1>2, <1>3, <1>4, <1>5 DEF ReceiverReads

LEMMA ReceiverOutcome ==
    ASSUME ReceiverInv, BusInv, Receiver
    PROVE  \/ Dropped
           \/ /\ dataIn # Nothing /\ dataIn' = Nothing
              /\ \E parts \in Gathered(dataIn.part) :
                    Taken(parts) \/ Delivered(parts)
  <1>1. CASE ReceiverNotSent \/ ReceiverDone
    BY <1>1, SameDrops DEF ReceiverNotSent, ReceiverDone
  <1>2. CASE ReceiverConfirms
    BY <1>2, ConfirmDrops DEF ReceiverConfirms
  <1>3. CASE ReceiverReads
    BY <1>3, ReadStep
  <1>4. CASE ReceiverRequests
    BY <1>4, MainDrops DEF ReceiverRequests, ReceiverMain
  <1>5. CASE ReceiverOther
    BY <1>5, MainDrops DEF ReceiverOther, ReceiverMain
  <1>6. CASE ReceiverTakes
    <2>1. rx' = rx /\ arrived' = arrived /\ queue' = R!Receive(queue)
      BY <1>6 DEF ReceiverTakes
    <2>2. queue' \in Queue
      BY <2>1, TakenStep DEF ReceiverInv
    <2> QED
      BY <2>1, <2>2 DEF Dropped, ReceiverInv, RxRec, Reassembly
  <1> QED
    BY <1>1, <1>2, <1>3, <1>4, <1>5, <1>6 DEF Receiver

----------------------------------------------------------------------------
(* What has been published.                                                *)

LEMMA CompleteInPlace ==
    ASSUME NEW parts, NEW m, Complete(parts, m), parts \in Seq(Parts)
    PROVE  /\ Len(m.data) = SegmentCount(m.length)
           /\ \A k \in DOMAIN m.data : m.data[k].from = Segment(m.length, k).from
  <1>1. /\ m.data = parts /\ Len(parts) = SegmentCount(m.length)
        /\ m.length \in 1..MaxNsdu /\ DOMAIN parts = 1..Len(parts)
    BY DEF Complete
  <1>2. ASSUME NEW k \in DOMAIN parts
        PROVE  Offset(k - 1) = Segment(m.length, k).from
    <2> DEFINE n == m.length
    <2>1. k \in Nat /\ k >= 1 /\ k <= Len(parts) /\ n \in 1..MaxNsdu /\ n \in Int
      BY <1>1
    <2> HIDE DEF n
    <2>2. CASE n <= SfMax
      <3>1. k <= 1
        BY <1>1, <2>1, <2>2 DEF SegmentCount, n
      <3>2. k - 1 = 0
        BY <2>1, <3>1
      <3> QED
        BY <2>2, <3>2 DEF Segment, Offset, n
    <2>3. CASE ~(n <= SfMax) /\ k = 1
      BY <2>3 DEF Segment, Offset, n
    <2>4. CASE ~(n <= SfMax) /\ k # 1
      <3>1. k - 1 # 0 /\ (k - 1) - 1 = k - 2
        BY <2>1, <2>4
      <3> QED
        BY <2>4, <3>1 DEF Segment, Offset, n
    <2> QED
      BY <2>2, <2>3, <2>4
  <1> QED
    BY <1>1, <1>2 DEF Complete, InPlace

LEMMA AppendMessage ==
    ASSUME NEW m \in Slot, arrived \in Seq(Slot), arrived' = Append(arrived, m)
    PROVE  /\ arrived' \in Seq(Slot)
           /\ DOMAIN arrived' = DOMAIN arrived \cup {Len(arrived) + 1}
           /\ \A i \in DOMAIN arrived :
                 i \in Nat /\ i < Len(arrived) + 1 /\ arrived'[i] = arrived[i]
           /\ Len(arrived) + 1 \in Nat
           /\ arrived'[Len(arrived) + 1] = m
  <1>1. /\ arrived' \in Seq(Slot) /\ Len(arrived') = Len(arrived) + 1
        /\ Len(arrived) \in Nat
    OBVIOUS
  <1>2. DOMAIN arrived' = 1..(Len(arrived) + 1) /\ DOMAIN arrived = 1..Len(arrived)
    BY <1>1
  <1>3. DOMAIN arrived' = DOMAIN arrived \cup {Len(arrived) + 1}
    BY <1>1, <1>2
  <1> QED
    BY <1>1, <1>2, <1>3

\* The parts of a buffer that has taken in the part of dataIn.
LEMMA GatheredOrder ==
    ASSUME ReceiverInv, BusInv, OrderInv, dataIn # Nothing,
           NEW parts \in Gathered(dataIn.part)
    PROVE  /\ parts \in Seq(Parts) /\ Sorted(parts)
           /\ \A k \in DOMAIN parts :
                 SentNow(parts[k]) /\ AfterAll(arrived, parts[k])
           /\ dataMb.state = "WAITS" => After(parts, dataMb.frame.part)
  <1>1. PICK p \in Parts : p = dataIn.part
    BY PartTypes
  <1>2. NextIn(p)
    BY <1>1 DEF OrderInv
  <1>3. dataMb.state = "WAITS" => Later(p, dataMb.frame.part)
    BY <1>1 DEF OrderInv
  <1>4. CASE parts = <<p>>
    <2>1. parts \in Seq(Parts) /\ DOMAIN parts = {1} /\ parts[1] = p
      BY <1>4
    <2> QED
      BY <1>2, <1>3, <2>1 DEF Sorted, After, NextIn
  <1>5. CASE parts = Append(rx.buffer, p)
    <2> DEFINE buffer == rx.buffer
               n == Len(buffer)
    <2>1. buffer \in Seq(Parts)
      BY DEF ReceiverInv
    <2> HIDE DEF buffer
    <2>2. parts \in Seq(Parts) /\ Len(parts) = n + 1 /\ n \in Nat
      BY <1>5, <2>1 DEF buffer
    <2>3. DOMAIN parts = 1..(n + 1) /\ DOMAIN buffer = 1..n
      BY <2>1, <2>2
    <2>4. parts[n + 1] = p /\ \A k \in 1..n : parts[k] = buffer[k]
      BY <1>5, <2>1, <2>2 DEF buffer
    <2> HIDE DEF n
    <2>5. \A k \in DOMAIN parts : k \in 1..n \/ k = n + 1
      BY <2>2, <2>3
    <2>6. /\ \A k, l \in 1..n : k < l => Later(buffer[k], buffer[l])
          /\ \A k \in 1..n : /\ SentNow(buffer[k]) /\ AfterAll(arrived, buffer[k])
                             /\ Later(buffer[k], p)
          /\ dataMb.state = "WAITS" =>
                \A k \in 1..n : Later(buffer[k], dataMb.frame.part)
      BY <1>2, <2>3 DEF buffer, OrderInv, Sorted, NextIn, After
    <2>7. Sorted(parts)
      <3>1. SUFFICES ASSUME NEW k \in DOMAIN parts, NEW l \in DOMAIN parts, k < l
                     PROVE  Later(parts[k], parts[l])
        BY DEF Sorted
      <3>2. k \in 1..n
        BY <3>1, <2>2, <2>3
      <3>3. CASE l \in 1..n
        BY <3>1, <3>2, <3>3, <2>4, <2>6
      <3>4. CASE l = n + 1
        BY <3>2, <3>4, <2>4, <2>6
      <3> QED
        BY <2>5, <3>3, <3>4
    <2>8. \A k \in DOMAIN parts :
             SentNow(parts[k]) /\ AfterAll(arrived, parts[k])
      BY <1>2, <2>4, <2>5, <2>6 DEF NextIn
    <2>9. dataMb.state = "WAITS" => After(parts, dataMb.frame.part)
      BY <1>3, <2>4, <2>5, <2>6 DEF After
    <2> QED
      BY <2>2, <2>7, <2>8, <2>9
  <1> QED
    BY <1>1, <1>4, <1>5 DEF Gathered

LEMMA ReceiverInvNext ==
    ASSUME ReceiverInv, BusInv, OrderInv, Receiver
    PROVE  ReceiverInv'
  <1>1. CASE Dropped
    <2>1. << >> \in Seq(Parts)
      OBVIOUS
    <2>2. rx'.buffer \in Seq(Parts)
      BY <1>1, <2>1 DEF Dropped, ReceiverInv
    <2>3. PartsInPlace'
      BY <1>1 DEF Dropped, ReceiverInv, PartsInPlace
    <2>4. (rx.state # "IDLE" => Reassembly(rx))'
      BY <1>1 DEF Dropped, Reassembly, InPlace
    <2> QED
      BY <1>1, <2>2, <2>3, <2>4 DEF Dropped, ReceiverInv, RxRec
  <1>2. ASSUME dataIn # Nothing, NEW parts \in Gathered(dataIn.part), Taken(parts)
        PROVE  ReceiverInv'
    <2>1. parts \in Seq(Parts)
      BY <1>2, GatheredOrder
    <2> QED
      BY <1>2, <2>1 DEF Taken, ReceiverInv, PartsInPlace, RxRec, Reassembly
  <1>3. ASSUME dataIn # Nothing, NEW parts \in Gathered(dataIn.part),
               Delivered(parts)
        PROVE  ReceiverInv'
    <2>1. parts \in Seq(Parts)
      BY <1>3, GatheredOrder
    <2>2. PICK m \in Slot : Complete(parts, m) /\ arrived' = Append(arrived, m)
      BY <1>3 DEF Delivered
    <2>3. /\ Len(m.data) = SegmentCount(m.length)
          /\ \A k \in DOMAIN m.data : m.data[k].from = Segment(m.length, k).from
      BY <2>1, <2>2, CompleteInPlace
    <2>4. PartsInPlace'
      BY <2>2, <2>3, AppendMessage DEF ReceiverInv, PartsInPlace
    <2>5. arrived' \in Seq(Slot)
      BY <2>2, AppendMessage DEF ReceiverInv
    <2> QED
      BY <1>3, <2>4, <2>5 DEF Delivered, ReceiverInv, RxRec, Reassembly
  <1> QED
    BY <1>1, <1>2, <1>3, ReceiverOutcome

LEMMA TakenOrder ==
    ASSUME ReceiverInv, BusInv, OrderInv, SentStays, dataMb' = dataMb,
           dataIn # Nothing, dataIn' = Nothing,
           NEW parts \in Gathered(dataIn.part), Taken(parts)
    PROVE  BusInv' /\ OrderInv'
  <1>1. rx'.buffer = parts /\ arrived' = arrived
    BY DEF Taken
  <1>2. /\ parts \in Seq(Parts) /\ Sorted(parts)
        /\ \A k \in DOMAIN parts :
              SentNow(parts[k]) /\ AfterAll(arrived, parts[k])
        /\ dataMb.state = "WAITS" => After(parts, dataMb.frame.part)
    BY GatheredOrder
  <1>3. BusInv'
    BY DEF BusInv, GoodFrame
  <1>4. \A k \in DOMAIN parts : Sent(tx', submits', parts[k])
    <2>1. \A k \in DOMAIN parts : parts[k] \in Parts
      BY <1>2, ElementOfSeq
    <2> QED
      BY <1>2, <2>1 DEF SentStays
  <1>5. \A i \in DOMAIN arrived : \A k \in DOMAIN arrived[i].data :
           Sent(tx', submits', arrived[i].data[k])
    BY PartTypes DEF OrderInv, SentStays
  <1>6. dataMb.state = "WAITS" =>
           /\ Sent(tx', submits', dataMb.frame.part)
           /\ AfterAll(arrived, dataMb.frame.part)
    BY PartTypes DEF OrderInv, SentStays, NextIn
  <1>7. FramesOnceInOrder'
    BY <1>1 DEF OrderInv, FramesOnceInOrder
  <1>8. (\A i \in DOMAIN arrived :
            \A k \in DOMAIN arrived[i].data : SentNow(arrived[i].data[k]))'
    BY <1>1, <1>5 DEF SentNow
  <1>9. /\ Sorted(rx'.buffer)
        /\ (\A k \in DOMAIN rx.buffer :
              SentNow(rx.buffer[k]) /\ AfterAll(arrived, rx.buffer[k]))'
    BY <1>1, <1>2, <1>4 DEF SentNow
  <1>10. (dataMb.state = "WAITS" => NextIn(dataMb.frame.part))'
    BY <1>1, <1>2, <1>6 DEF SentNow, NextIn
  <1> QED
    BY <1>3, <1>7, <1>8, <1>9, <1>10 DEF OrderInv

\* The parts of a message that is published now follow all others.
LEMMA PublishedOrder ==
    ASSUME FramesOnceInOrder, arrived \in Seq(Slot), NEW m \in Slot,
           arrived' = Append(arrived, m), Sorted(m.data),
           \A k \in DOMAIN m.data : AfterAll(arrived, m.data[k])
    PROVE  FramesOnceInOrder'
  <1> DEFINE last == Len(arrived) + 1
  <1>1. /\ \A i \in DOMAIN arrived' : i \in DOMAIN arrived \/ i = last
        /\ \A i \in DOMAIN arrived :
              i \in Nat /\ i < last /\ arrived'[i] = arrived[i]
        /\ last \in Nat /\ arrived'[last] = m
    BY AppendMessage
  <1> HIDE DEF last
  <1>2. SUFFICES ASSUME NEW i \in DOMAIN arrived', NEW j \in DOMAIN arrived',
                        NEW k \in DOMAIN arrived'[i].data,
                        NEW l \in DOMAIN arrived'[j].data,
                        i < j \/ (i = j /\ k < l)
                 PROVE  Later(arrived'[i].data[k], arrived'[j].data[l])
    BY DEF FramesOnceInOrder, Later
  <1>3. CASE i \in DOMAIN arrived /\ j \in DOMAIN arrived
    BY <1>1, <1>2, <1>3 DEF FramesOnceInOrder
  <1>4. CASE i \in DOMAIN arrived /\ j = last
    BY <1>1, <1>2, <1>4 DEF AfterAll, After
  <1>5. CASE i = last /\ j \in DOMAIN arrived
    <2>1. j < i /\ i \in Nat /\ j \in Nat
      BY <1>1, <1>5
    <2> QED
      BY <1>2, <2>1
  <1>6. CASE i = last /\ j = last
    <2>1. k < l
      BY <1>1, <1>2, <1>6
    <2> QED
      BY <1>1, <1>2, <1>6, <2>1 DEF Sorted
  <1> QED
    BY <1>1, <1>3, <1>4, <1>5, <1>6

LEMMA DeliveredOrder ==
    ASSUME ReceiverInv, BusInv, OrderInv, SentStays, dataMb' = dataMb,
           dataIn # Nothing, dataIn' = Nothing,
           NEW parts \in Gathered(dataIn.part), Delivered(parts)
    PROVE  BusInv' /\ OrderInv'
  <1>1. PICK m \in Slot : m.data = parts /\ arrived' = Append(arrived, m)
    BY DEF Delivered, Complete
  <1>2. /\ parts \in Seq(Parts) /\ Sorted(parts)
        /\ \A k \in DOMAIN parts :
              SentNow(parts[k]) /\ AfterAll(arrived, parts[k])
        /\ dataMb.state = "WAITS" => After(parts, dataMb.frame.part)
    BY GatheredOrder
  <1>3. BusInv' /\ rx'.buffer = << >>
    BY DEF BusInv, GoodFrame, Delivered
  <1>4. FramesOnceInOrder'
    BY <1>1, <1>2, PublishedOrder DEF OrderInv, ReceiverInv
  <1>5. \A k \in DOMAIN parts : Sent(tx', submits', parts[k])
    <2>1. \A k \in DOMAIN parts : parts[k] \in Parts
      BY <1>2, ElementOfSeq
    <2> QED
      BY <1>2, <2>1 DEF SentStays
  <1>6. \A i \in DOMAIN arrived : \A k \in DOMAIN arrived[i].data :
           Sent(tx', submits', arrived[i].data[k])
    BY PartTypes DEF OrderInv, SentStays
  <1>7. /\ \A i \in DOMAIN arrived' : i \in DOMAIN arrived \/ arrived'[i] = m
        /\ \A i \in DOMAIN arrived : arrived'[i] = arrived[i]
    BY <1>1, AppendMessage DEF ReceiverInv
  <1>8. \A i \in DOMAIN arrived' : \A k \in DOMAIN arrived'[i].data :
           Sent(tx', submits', arrived'[i].data[k])
    BY <1>1, <1>5, <1>6, <1>7
  <1>9. dataMb.state = "WAITS" =>
           /\ Sent(tx', submits', dataMb.frame.part)
           /\ AfterAll(arrived', dataMb.frame.part)
    <2>1. dataMb.state = "WAITS" =>
             /\ Sent(tx', submits', dataMb.frame.part)
             /\ AfterAll(arrived, dataMb.frame.part)
      BY PartTypes DEF OrderInv, SentStays, NextIn
    <2> QED
      BY <1>1, <1>2, <1>7, <2>1 DEF AfterAll
  <1>10. (\A i \in DOMAIN arrived :
            \A k \in DOMAIN arrived[i].data : SentNow(arrived[i].data[k]))'
    BY <1>8 DEF SentNow
  <1>11. (dataMb.state = "WAITS" => NextIn(dataMb.frame.part))'
    BY <1>3, <1>9 DEF SentNow, NextIn, After
  <1>12. /\ Sorted(rx'.buffer)
         /\ (\A k \in DOMAIN rx.buffer :
               SentNow(rx.buffer[k]) /\ AfterAll(arrived, rx.buffer[k]))'
    BY <1>3 DEF Sorted
  <1> QED
    BY <1>3, <1>4, <1>10, <1>11, <1>12 DEF OrderInv

----------------------------------------------------------------------------
(* The invariant of the connection.                                        *)

LEMMA InitLink == ASSUME Init PROVE LinkInv
  <1>1. SenderInv
    BY DEF Init, S!TxInit, S!IdleTx, SenderInv, SessionOk, TxRec, TxFields
  <1>2. arrived = << >> /\ dataIn = Nothing /\ dataMb = Empty
    BY DEF Init
  <1>3. RxRec(rx) /\ rx.state = "IDLE" /\ rx.buffer = << >>
    BY DEF Init, R!RxInit, R!ZeroRx, RxRec, RxFields
  <1>4. queue \in Queue
    <2>1. 0 \in R!Indices
      BY LinkConfig DEF R!Indices
    <2> QED
      BY <2>1, QueueConstants DEF Init, R!RxInit, R!EmptyQueue, Queue
  <1>5. << >> \in Seq(Parts) /\ << >> \in Seq(Slot)
    OBVIOUS
  <1>6. ReceiverInv
    BY <1>2, <1>3, <1>4, <1>5 DEF ReceiverInv, PartsInPlace
  <1>7. BusInv
    BY <1>2 DEF BusInv, Empty
  <1>8. OrderInv
    BY <1>2, <1>3 DEF OrderInv, FramesOnceInOrder, Sorted, Empty
  <1> QED
    BY <1>1, <1>6, <1>7, <1>8 DEF LinkInv

\* The receiver's variables do not change.
LEMMA ReceiverSame ==
    ASSUME ReceiverInv, UNCHANGED <<rx, queue, arrived>>
    PROVE  ReceiverInv'
  BY DEF ReceiverInv, PartsInPlace, RxRec, Reassembly, InPlace

LEMMA NextLink == LinkInv /\ [Next]_vars => LinkInv'
  <1> SUFFICES ASSUME LinkInv, [Next]_vars PROVE LinkInv'
    OBVIOUS
  <1> USE DEF LinkInv
  <1>1. CASE DataOnBus
    <2>1. UNCHANGED <<tx, submits, rx, queue, arrived>>
      BY <1>1 DEF DataOnBus, sender, receiver
    <2>2. SenderInv' /\ SentStays /\ ReceiverInv'
      BY <2>1, SenderSame, ReceiverSame
    <2> QED
      BY <1>1, <2>2, BusOrder
  <1>2. CASE FcOnBus \/ Overrun \/ UNCHANGED vars
    <2>1. /\ UNCHANGED <<tx, submits, rx, queue, arrived, dataMb>>
          /\ dataIn' = dataIn \/ dataIn' = Nothing
      BY <1>2 DEF FcOnBus, Overrun, sender, receiver, bus, vars
    <2>2. SenderInv' /\ SentStays /\ ReceiverInv'
      BY <2>1, SenderSame, ReceiverSame
    <2> QED
      BY <2>1, <2>2, OrderShrinks
  <1>3. CASE Sender
    <2>1. UNCHANGED <<rx, queue, dataIn, arrived>>
      BY <1>3, SenderFrame
    <2>2. /\ SenderInv' /\ SentStays
          /\ dataMb' = dataMb \/ dataMb' = Empty \/ SenderRequests
      BY <1>3, SenderStepInv
    <2>3. ReceiverInv'
      BY <2>1, ReceiverSame
    <2>4. CASE SenderRequests
      BY <2>2, <2>3, <2>4, RequestOrder
    <2>5. CASE dataMb' = dataMb \/ dataMb' = Empty
      <3>1. \/ dataMb' = dataMb
            \/ /\ dataMb' = [state |-> dataMb'.state, frame |-> dataMb'.frame]
               /\ dataMb'.state # "WAITS"
        BY <2>5 DEF Empty
      <3> QED
        BY <2>1, <2>2, <2>3, <3>1, OrderShrinks
    <2> QED
      BY <2>2, <2>4, <2>5
  <1>4. CASE Receiver
    <2>1. /\ UNCHANGED <<tx, submits, dataMb>>
          /\ dataIn' = dataIn \/ dataIn' = Nothing
      BY <1>4, ReceiverFrame
    <2>2. SenderInv' /\ SentStays
      BY <2>1, SenderSame
    <2>3. ReceiverInv'
      BY <1>4, ReceiverInvNext
    <2>4. CASE Dropped
      BY <2>1, <2>2, <2>3, <2>4, OrderShrinks DEF Dropped
    <2>5. ASSUME dataIn # Nothing, dataIn' = Nothing,
                 NEW parts \in Gathered(dataIn.part),
                 Taken(parts) \/ Delivered(parts)
          PROVE  BusInv' /\ OrderInv'
      BY <2>1, <2>2, <2>5, TakenOrder, DeliveredOrder
    <2> QED
      BY <1>4, <2>2, <2>3, <2>4, <2>5, ReceiverOutcome
  <1> QED
    BY <1>1, <1>2, <1>3, <1>4 DEF Next

LEMMA SpecLink == Spec => []LinkInv
  <1>1. Init => LinkInv
    BY InitLink
  <1> QED
    BY <1>1, NextLink, PTL DEF Spec

(* Every part of a published message stands where its sender cut it from,  *)
(* and no part is missing: CanTp_HandleConsecutiveFrame accepts only the   *)
(* sequence number it expects, and CanTp_PrepareDataFrame cuts each        *)
(* frame where its number says.                                            *)
THEOREM PartsInPlaceAlways == Spec => []PartsInPlace
  <1>1. LinkInv => PartsInPlace
    BY DEF LinkInv, ReceiverInv
  <1> QED
    BY <1>1, SpecLink, PTL

(* Nothing is published twice or out of order, whatever is lost, late or   *)
(* overwritten and wherever a session is aborted: CanTp keeps no copy of a *)
(* frame the driver has accepted.                                          *)
THEOREM FramesOnceInOrderAlways == Spec => []FramesOnceInOrder
  <1>1. LinkInv => FramesOnceInOrder
    BY DEF LinkInv, OrderInv
  <1> QED
    BY <1>1, SpecLink, PTL

=============================================================================
