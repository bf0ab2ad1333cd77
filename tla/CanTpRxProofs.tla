--------------------------- MODULE CanTpRxProofs ---------------------------
(***************************************************************************)
(* Machine-checked proofs about the receiving node (CanTpRxNode), for      *)
(* every value of its constants: types, slot ownership, the Flow Control   *)
(* resource, the switch of data reception and the order of the queue, and  *)
(* that the whole implements a bounded FIFO of N-SDUs (NsduQueue).         *)
(***************************************************************************)
EXTENDS CanTpRxNode, CanTpSegmentProofs, FunctionTheorems, FiniteSetTheorems,
        SequenceTheorems, TLAPS

Data == Seq(Heads \cup SequenceNumbers)

(* The ring has one RESERVED slot, the reserved one, which is the next to  *)
(* be written; without a reservation it has none.                          *)
QueueOk(q) ==
    /\ q \in Queue
    /\ \A i \in Indices :
          q.slots[i].state = "RESERVED" <=> q.reservationActive /\ i = q.reservedIndex
    /\ q.reservationActive => q.reservedIndex = q.writeIndex

(* The session holds the reservation and its slot has the session's length.*)
Holds(r, q) ==
    /\ QueueOk(q)
    /\ r.queueSlotReserved /\ q.reservationActive
    /\ q.slots[q.reservedIndex].length = r.total

(* A session holds a reservation; no session, no reservation.              *)
Owned(r, q) ==
    \/ r.state # "IDLE" /\ Holds(r, q)
    \/ r.state = "IDLE" /\ ~r.queueSlotReserved /\ QueueOk(q) /\ ~q.reservationActive

(* A record that may be reset: its FC flags are consistent.                *)
FcOk(r) ==
    /\ r \in Rx
    /\ ~r.resultReported
    /\ r.fcTxPending => r.fcRequestActive
    /\ r.fcRequestActive => r.fcFrame \in FlowStatus

(* Each state of the session, with what must be true in it.                *)
SessionOk(r) ==
    /\ r.state # "IDLE" => r.total \in FfMin..MaxNsdu /\ r.received < r.total
    /\ r.state = "FC_PENDING" => r.fcRequestActive /\ r.fcFrame = "CTS"
    /\ r.state = "WAIT_CF" =>
          ~FcBusy(r) /\ r.nCrActive /\ r.blockCount < BlockSize
    /\ r.fcRequestActive /\ r.fcFrame = "OVFLW" => r.state = "IDLE"

RxOk(r) == FcOk(r) /\ SessionOk(r)

(* The driver holds the FC that CanTp has marked as pending.               *)
MailboxOk(r) ==
    /\ fcMailbox \in FlowStatus \cup {"NONE"}
    /\ r.fcTxPending <=> fcMailbox # "NONE"
    /\ r.fcTxPending => fcMailbox = r.fcFrame

IInv ==
    /\ RxOk(rx) /\ Owned(rx, queue) /\ MailboxOk(rx)
    /\ nowMs \in Clock /\ phase \in Phases
    /\ dataRxEnabled \in BOOLEAN
    /\ DisabledIsQuiet

----------------------------------------------------------------------------
(* The ring's functions.                                                   *)

LEMMA NextIndexType ==
    ASSUME NEW i \in Indices
    PROVE  NextIndex(i) \in Indices
  BY ModRange, QueueConfig DEF Indices, NextIndex

LEMMA FreeSlotType == FreeSlot \in Slot
  BY WireConfig DEF FreeSlot, Slot, SlotStates

\* A failed reception frees its slot.
LEMMA GivenBack ==
    ASSUME NEW q, QueueOk(q), q.reservationActive
    PROVE  /\ QueueOk(Indicate(q, "E_NOT_OK"))
           /\ ~Indicate(q, "E_NOT_OK").reservationActive
  <1> DEFINE p == [q EXCEPT !.reservationActive = FALSE,
                            !.slots[q.reservedIndex] = FreeSlot]
  <1>1. Indicate(q, "E_NOT_OK") = p
    BY DEF Indicate
  <1>2. q \in Queue /\ q.reservedIndex \in Indices
    BY DEF QueueOk, Queue
  <1>3. /\ p \in Queue /\ ~p.reservationActive
        /\ p.slots = [q.slots EXCEPT ![q.reservedIndex] = FreeSlot]
    BY <1>2, FreeSlotType DEF Queue
  <1>4. \A i \in Indices : p.slots[i].state # "RESERVED"
    BY <1>2, <1>3 DEF QueueOk, Queue, FreeSlot
  <1> QED
    BY <1>1, <1>3, <1>4 DEF QueueOk

\* A free slot at the write index becomes the reserved one.
LEMMA Reserved ==
    ASSUME NEW q, QueueOk(q), CanReserve(q), NEW len \in 0..MaxNsdu
    PROVE  /\ QueueOk(Reserve(q, len))
           /\ Reserve(q, len).reservationActive
           /\ Reserve(q, len).slots[Reserve(q, len).reservedIndex].length = len
  <1> DEFINE w == q.writeIndex
             slot == [q.slots[w] EXCEPT !.state = "RESERVED", !.length = len]
             p == Reserve(q, len)
  <1>1. q \in Queue /\ w \in Indices /\ q.slots[w] \in Slot
    BY DEF QueueOk, Queue
  <1>2. slot \in Slot /\ slot.state = "RESERVED" /\ slot.length = len
    BY <1>1 DEF Slot, SlotStates
  <1>3. /\ p.slots = [q.slots EXCEPT ![w] = slot]
        /\ p.reservedIndex = w /\ p.writeIndex = w /\ p.readIndex = q.readIndex
        /\ p.reservationActive
    BY <1>1 DEF Reserve, Queue
  <1>4. p \in Queue
    BY <1>1, <1>2 DEF Reserve, Queue, Slot, SlotStates
  <1>5. \A i \in Indices : p.slots[i].state = "RESERVED" <=> i = w
    BY <1>1, <1>2, <1>3 DEF QueueOk, CanReserve, Queue
  <1> QED
    BY <1>1, <1>2, <1>3, <1>4, <1>5 DEF QueueOk, Queue

\* A completed reception is published and the write index moves on.
LEMMA Published ==
    ASSUME NEW q, QueueOk(q), q.reservationActive, NEW data \in Data
    PROVE  /\ QueueOk(Indicate(CopyIn(q, data), "E_OK"))
           /\ ~Indicate(CopyIn(q, data), "E_OK").reservationActive
  <1> DEFINE w == q.reservedIndex
             slot == [q.slots[w] EXCEPT !.state = "READY", !.data = data]
             c == CopyIn(q, data)
             p == Indicate(c, "E_OK")
  <1>1. q \in Queue /\ w \in Indices /\ q.slots[w] \in Slot
    BY DEF QueueOk, Queue
  <1>2. slot \in Slot /\ slot.state = "READY"
    BY <1>1 DEF Slot, SlotStates, Data
  <1>3. /\ c.slots = [q.slots EXCEPT ![w] = slot]
        /\ c.reservedIndex = w /\ c.reservationActive
    BY <1>1 DEF CopyIn, Queue
  <1>4. c \in Queue
    <2>1. c = [q EXCEPT !.slots = [q.slots EXCEPT ![w] = slot]]
      BY <1>1 DEF CopyIn, Queue
    <2>2. [q.slots EXCEPT ![w] = slot] \in [Indices -> Slot]
      BY <1>1, <1>2 DEF Queue
    <2> QED
      BY <1>1, <2>1, <2>2 DEF Queue
  <1>5. c.slots[w].state = "READY"
    BY <1>1, <1>2, <1>3 DEF Queue
  <1>6. p = [c EXCEPT !.reservationActive = FALSE, !.writeIndex = NextIndex(w)]
    BY <1>3, <1>5 DEF Indicate
  <1>7. p \in Queue /\ ~p.reservationActive /\ p.slots = c.slots
    BY <1>1, <1>4, <1>6, NextIndexType DEF Queue
  <1>8. \A i \in Indices : i # w => q.slots[i].state # "RESERVED"
    BY DEF QueueOk
  <1>9. p.slots = [q.slots EXCEPT ![w] = slot]
    BY <1>3, <1>7
  <1> HIDE DEF p, c, slot, w
  <1>10. \A i \in Indices : p.slots[i].state # "RESERVED"
    BY <1>1, <1>2, <1>8, <1>9 DEF Queue
  <1> QED
    BY <1>7, <1>10 DEF QueueOk, p, c

\* Receiving a READY slot leaves the reservation alone.
LEMMA Consumed ==
    ASSUME NEW q, QueueOk(q), CanReceive(q)
    PROVE  /\ QueueOk(Receive(q))
           /\ Receive(q).reservationActive = q.reservationActive
           /\ q.reservationActive =>
                 Receive(q).slots[Receive(q).reservedIndex] = q.slots[q.reservedIndex]
  <1> DEFINE i0 == q.readIndex
             p == Receive(q)
  <1>1. q \in Queue /\ i0 \in Indices /\ q.reservedIndex \in Indices
    BY DEF QueueOk, Queue
  <1>2. /\ p.slots = [q.slots EXCEPT ![i0] = FreeSlot]
        /\ p.reservedIndex = q.reservedIndex /\ p.writeIndex = q.writeIndex
        /\ p.reservationActive = q.reservationActive
    BY <1>1 DEF Receive, Queue
  <1>3. p \in Queue
    BY <1>1, NextIndexType, FreeSlotType DEF Receive, Queue
  <1>4. q.reservationActive => i0 # q.reservedIndex
    BY <1>1 DEF QueueOk, CanReceive
  <1>5. \A i \in Indices :
           p.slots[i].state = "RESERVED" <=> p.reservationActive /\ i = p.reservedIndex
    BY <1>1, <1>2, <1>4 DEF QueueOk, Queue, FreeSlot, CanReceive
  <1> QED
    BY <1>1, <1>2, <1>3, <1>4, <1>5 DEF QueueOk, Queue

----------------------------------------------------------------------------
(* What the building blocks of the handlers do.                            *)

\* A reset keeps the FC in progress, and nothing else.
Kept(r, s) ==
    /\ s.fcTxPending = r.fcTxPending
    /\ s.fcRequestActive = r.fcRequestActive
    /\ FcBusy(r) => s.fcFrame = r.fcFrame

LEMMA ZeroRxType == ZeroRx \in Rx
  <1>1. << >> \in Data
    BY DEF Data
  <1> QED
    BY <1>1, WireConfig, RxConfig, ClockConfig
       DEF ZeroRx, Rx, RxStates, FlowStatus, SequenceNumbers, Clock, Data

LEMMA ResetOk ==
    ASSUME NEW r, FcOk(r)
    PROVE  /\ RxOk(ResetRxSession(r))
           /\ ResetRxSession(r).state = "IDLE"
           /\ ~ResetRxSession(r).queueSlotReserved
           /\ Kept(r, ResetRxSession(r))
  <1> DEFINE s == ResetRxSession(r)
             frame == IF FcBusy(r) THEN r.fcFrame ELSE "NONE"
  <1>1. /\ r \in Rx /\ r.fcTxPending \in BOOLEAN /\ r.fcRequestActive \in BOOLEAN
        /\ r.fcFrame \in FlowStatus \cup {"NONE"} /\ frame \in FlowStatus \cup {"NONE"}
    BY DEF FcOk, Rx
  <1>2. 1 \in SequenceNumbers
    BY WireConfig DEF SequenceNumbers
  <1>3. s \in Rx
    BY <1>1, <1>2, ZeroRxType DEF ResetRxSession, Rx
  <1>4. /\ s.state = "IDLE" /\ ~s.queueSlotReserved /\ ~s.resultReported
        /\ s.fcTxPending = r.fcTxPending /\ s.fcRequestActive = r.fcRequestActive
        /\ s.fcFrame = frame
    BY DEF ResetRxSession, ZeroRx
  <1> HIDE DEF s
  <1>5. Kept(r, s)
    BY <1>4 DEF Kept
  <1>6. RxOk(s)
    BY <1>1, <1>3, <1>4 DEF RxOk, FcOk, SessionOk, FcBusy
  <1> QED
    BY <1>4, <1>5, <1>6 DEF s

\* An abort gives the slot back; without a reservation it only resets.
LEMMA AbortOk ==
    ASSUME NEW r, NEW q, FcOk(r),
           Holds(r, q) \/ (~r.queueSlotReserved /\ QueueOk(q) /\ ~q.reservationActive),
           Abort(r, q)
    PROVE  /\ RxOk(rx') /\ rx'.state = "IDLE" /\ Owned(rx', queue')
           /\ Kept(r, rx')
  <1>1. rx' = ResetRxSession(r) /\ ~r.resultReported
    BY DEF Abort, FcOk
  <1>2. /\ RxOk(rx') /\ rx'.state = "IDLE" /\ ~rx'.queueSlotReserved
        /\ Kept(r, rx')
    BY <1>1, ResetOk
  <1>3. QueueOk(queue') /\ ~queue'.reservationActive
    <2>1. CASE Holds(r, q)
      <3>1. queue' = Indicate(q, "E_NOT_OK")
        BY <1>1, <2>1 DEF Holds, Abort
      <3> QED
        BY <2>1, <3>1, GivenBack DEF Holds
    <2>2. CASE ~r.queueSlotReserved /\ QueueOk(q) /\ ~q.reservationActive
      BY <2>2 DEF Abort
    <2> QED
      BY <2>1, <2>2
  <1> QED
    BY <1>2, <1>3 DEF Owned

\* A completion publishes: its copy never fails, the slot has its length.
LEMMA CompleteOk ==
    ASSUME NEW r, NEW q, FcOk(r), Holds(r, q), Complete(r, q)
    PROVE  /\ RxOk(rx') /\ rx'.state = "IDLE" /\ Owned(rx', queue')
           /\ Kept(r, rx')
           /\ queue' = Indicate(CopyIn(q, r.buffer), "E_OK")
  <1>1. q.reservedIndex \in Indices /\ r.buffer \in Data
    BY DEF Holds, QueueOk, Queue, FcOk, Rx, Data
  <1>2. CanCopy(q, r.total)
    BY <1>1 DEF CanCopy, Holds, QueueOk
  <1>3. /\ rx' = ResetRxSession(r)
        /\ queue' = Indicate(CopyIn(q, r.buffer), "E_OK")
    BY <1>2 DEF Complete
  <1>4. /\ RxOk(rx') /\ rx'.state = "IDLE" /\ ~rx'.queueSlotReserved
        /\ Kept(r, rx')
    BY <1>3, ResetOk
  <1>5. QueueOk(queue') /\ ~queue'.reservationActive
    BY <1>1, <1>3, Published DEF Holds
  <1> QED
    BY <1>3, <1>4, <1>5 DEF Owned

\* A CTS makes a session wait for its confirmation.
LEMMA CtsOk ==
    ASSUME NEW r, r \in Rx, ~r.resultReported, ~FcBusy(r), nowMs \in Clock,
           r.total \in FfMin..MaxNsdu, r.received < r.total
    PROVE  /\ RxOk(WithFc(r, "CTS"))
           /\ WithFc(r, "CTS").state = "FC_PENDING"
           /\ ~WithFc(r, "CTS").fcTxPending
           /\ WithFc(r, "CTS").total = r.total
           /\ WithFc(r, "CTS").queueSlotReserved = r.queueSlotReserved
  <1> DEFINE s == WithFc(r, "CTS")
  <1>1. s \in Rx
    <2>1. s = [r EXCEPT !.fcFrame = "CTS", !.fcRequestActive = TRUE,
                        !.fcRetryCount = 0, !.fcAttemptDueMs = nowMs,
                        !.nCrActive = FALSE, !.state = "FC_PENDING"]
      BY DEF WithFc
    <2>2. /\ "CTS" \in FlowStatus \cup {"NONE"} /\ "FC_PENDING" \in RxStates
          /\ 0 \in 0..MaxRetries
      BY RxConfig DEF RxStates, FlowStatus
    <2> HIDE DEF s
    <2> QED
      BY <2>1, <2>2 DEF Rx
  <1>2. /\ s.state = "FC_PENDING" /\ s.fcRequestActive /\ s.fcFrame = "CTS"
        /\ ~s.fcTxPending /\ ~s.resultReported
        /\ s.total = r.total /\ s.received = r.received
        /\ s.queueSlotReserved = r.queueSlotReserved
    BY DEF WithFc, FcBusy, Rx
  <1> HIDE DEF s
  <1>3. RxOk(s)
    BY <1>1, <1>2 DEF RxOk, FcOk, SessionOk, FlowStatus
  <1> QED
    BY <1>2, <1>3 DEF s

\* An OVFLW is sent without a session.
LEMMA OverflowOk ==
    ASSUME NEW r, r \in Rx, ~r.resultReported, ~FcBusy(r), nowMs \in Clock,
           r.state = "IDLE"
    PROVE  /\ RxOk(WithFc(r, "OVFLW"))
           /\ WithFc(r, "OVFLW").state = "IDLE"
           /\ ~WithFc(r, "OVFLW").fcTxPending
           /\ WithFc(r, "OVFLW").queueSlotReserved = r.queueSlotReserved
  <1> DEFINE s == WithFc(r, "OVFLW")
  <1>1. s \in Rx
    <2>1. s = [r EXCEPT !.fcFrame = "OVFLW", !.fcRequestActive = TRUE,
                        !.fcRetryCount = 0, !.fcAttemptDueMs = nowMs,
                        !.nCrActive = r.nCrActive, !.state = r.state]
      BY DEF WithFc, Rx
    <2>2. r.nCrActive \in BOOLEAN /\ r.state \in RxStates
      BY DEF Rx
    <2>3. "OVFLW" \in FlowStatus \cup {"NONE"} /\ 0 \in 0..MaxRetries
      BY RxConfig DEF FlowStatus
    <2> HIDE DEF s
    <2> QED
      BY <2>1, <2>2, <2>3 DEF Rx
  <1>2. /\ s.state = "IDLE" /\ s.fcRequestActive /\ s.fcFrame = "OVFLW"
        /\ ~s.fcTxPending /\ ~s.resultReported
        /\ s.queueSlotReserved = r.queueSlotReserved
    BY DEF WithFc, FcBusy, Rx
  <1> HIDE DEF s
  <1>3. RxOk(s)
    BY <1>1, <1>2 DEF RxOk, FcOk, SessionOk, FlowStatus
  <1> QED
    BY <1>2, <1>3 DEF s

----------------------------------------------------------------------------
(* The frames.                                                             *)

\* What receiving a Data frame may do; with reception off, nothing.
FrameStep ==
    /\ RxOk(rx') /\ Owned(rx', queue')
    /\ rx'.fcTxPending = rx.fcTxPending
    /\ rx.fcTxPending => rx'.fcFrame = rx.fcFrame
    /\ dataRxEnabled \/ rx' = rx

LEMMA IgnoredOk ==
    ASSUME RxOk(rx), Owned(rx, queue), UNCHANGED <<rx, queue>>
    PROVE  FrameStep
  BY DEF FrameStep

\* The session a new SF or FF replaces is gone, its slot given back.
LEMMA StartOk ==
    ASSUME RxOk(rx), Owned(rx, queue), ~StartBlocked
    PROVE  /\ RxOk(RxForStart) /\ RxForStart.state = "IDLE"
           /\ ~RxForStart.queueSlotReserved
           /\ ~FcBusy(RxForStart) /\ ~FcBusy(rx)
           /\ QueueOk(QueueForStart) /\ ~QueueForStart.reservationActive
  <1>1. ~FcBusy(rx)
    BY DEF StartBlocked
  <1>2. CASE rx.state = "IDLE"
    BY <1>1, <1>2 DEF RxForStart, QueueForStart, Owned
  <1>3. CASE rx.state # "IDLE"
    <2>1. /\ RxForStart = ResetRxSession(rx)
          /\ QueueForStart = Indicate(queue, "E_NOT_OK")
          /\ QueueOk(queue) /\ queue.reservationActive
      BY <1>3 DEF RxForStart, QueueForStart, Owned, Holds
    <2>2. /\ RxOk(ResetRxSession(rx)) /\ ResetRxSession(rx).state = "IDLE"
          /\ ~ResetRxSession(rx).queueSlotReserved
          /\ Kept(rx, ResetRxSession(rx))
      BY ResetOk DEF RxOk
    <2> QED
      BY <1>1, <2>1, <2>2, GivenBack DEF Kept, FcBusy
  <1> QED
    BY <1>2, <1>3

LEMMA SfOk ==
    ASSUME RxOk(rx), Owned(rx, queue), NEW len \in Nat, NEW head \in Heads,
           SfIgnored(len) \/ SfNoSlot(len) \/ SfDelivered(len, head)
    PROVE  FrameStep
  <1>1. CASE SfIgnored(len)
    BY <1>1, IgnoredOk DEF SfIgnored
  <1>2. CASE SfNoSlot(len)
    <2>1. ~StartBlocked /\ dataRxEnabled /\ rx' = RxForStart /\ queue' = QueueForStart
      BY <1>2 DEF SfNoSlot
    <2>2. ~rx.fcTxPending /\ ~rx'.fcTxPending /\ rx'.fcTxPending \in BOOLEAN
          /\ rx.fcTxPending \in BOOLEAN
      BY <2>1, StartOk DEF FcBusy, RxOk, FcOk, Rx
    <2> QED
      BY <2>1, <2>2, StartOk DEF FrameStep, Owned
  <1>3. CASE SfDelivered(len, head)
    <2> DEFINE r == [ZeroRx EXCEPT !.total = len, !.received = len,
                         !.queueSlotReserved = TRUE, !.buffer = <<head>>]
               q == Reserve(QueueForStart, len)
    <2>1. /\ len \in 1..SfMax /\ ~StartBlocked /\ dataRxEnabled
          /\ CanReserve(QueueForStart) /\ Complete(r, q)
      BY <1>3 DEF SfDelivered
    <2>2. len \in 0..MaxNsdu /\ <<head>> \in Data
      BY <2>1, WireConfig DEF Data
    <2>3. FcOk(r) /\ r.total = len /\ r.queueSlotReserved /\ ~FcBusy(r)
      <3>1. r \in Rx
        BY <2>2, ZeroRxType DEF Rx, Data
      <3> QED
        BY <3>1 DEF FcOk, ZeroRx, FcBusy
    <2>4. Holds(r, q)
      <3>1. /\ QueueOk(q) /\ q.reservationActive
            /\ q.slots[q.reservedIndex].length = len
        BY <2>1, <2>2, StartOk, Reserved
      <3> QED
        BY <2>3, <3>1 DEF Holds
    <2> HIDE DEF r, q
    <2>5. RxOk(rx') /\ Owned(rx', queue') /\ Kept(r, rx')
      BY <2>1, <2>3, <2>4, CompleteOk
    <2>6. ~FcBusy(rx)
      BY <2>1, StartOk
    <2>7. ~rx.fcTxPending /\ ~rx'.fcTxPending
          /\ rx'.fcTxPending \in BOOLEAN /\ rx.fcTxPending \in BOOLEAN
      BY <2>3, <2>5, <2>6 DEF FcBusy, Kept, RxOk, FcOk, Rx
    <2> QED
      BY <2>1, <2>5, <2>7 DEF FrameStep
  <1> QED
    BY <1>1, <1>2, <1>3

LEMMA FfOk ==
    ASSUME RxOk(rx), Owned(rx, queue), nowMs \in Clock,
           NEW len \in Nat, NEW head \in Heads,
           \/ FfIgnored(len) \/ FfTooLong(len) \/ FfNoSlot(len)
           \/ FfAccepted(len, head)
    PROVE  FrameStep
  <1>1. CASE FfIgnored(len)
    BY <1>1, IgnoredOk DEF FfIgnored
  <1>2. CASE FfTooLong(len)
    <2>1. /\ rx.state = "IDLE" /\ ~FcBusy(rx) /\ dataRxEnabled
          /\ rx' = WithFc(rx, "OVFLW") /\ queue' = queue
      BY <1>2 DEF FfTooLong
    <2>2. /\ RxOk(rx') /\ rx'.state = "IDLE" /\ ~rx'.fcTxPending
          /\ rx'.queueSlotReserved = rx.queueSlotReserved
      BY <2>1, OverflowOk DEF RxOk, FcOk
    <2>3. ~rx.fcTxPending /\ rx.fcTxPending \in BOOLEAN /\ rx'.fcTxPending \in BOOLEAN
      BY <2>1, <2>2 DEF FcBusy, RxOk, FcOk, Rx
    <2> QED
      BY <2>1, <2>2, <2>3 DEF FrameStep, Owned
  <1>3. CASE FfNoSlot(len)
    <2>1. /\ ~StartBlocked /\ dataRxEnabled
          /\ rx' = WithFc(RxForStart, "OVFLW") /\ queue' = QueueForStart
      BY <1>3 DEF FfNoSlot
    <2>2. /\ RxOk(rx') /\ rx'.state = "IDLE" /\ ~rx'.fcTxPending
          /\ rx'.queueSlotReserved = RxForStart.queueSlotReserved
      BY <2>1, StartOk, OverflowOk DEF RxOk, FcOk
    <2>3. ~rx.fcTxPending /\ rx.fcTxPending \in BOOLEAN /\ rx'.fcTxPending \in BOOLEAN
      BY <2>1, <2>2, StartOk DEF FcBusy, RxOk, FcOk, Rx
    <2> QED
      BY <2>1, <2>2, <2>3, StartOk DEF FrameStep, Owned
  <1>4. CASE FfAccepted(len, head)
    <2> DEFINE r == [ZeroRx EXCEPT !.total = len, !.received = FfPayload,
                         !.expectedSN = 1, !.queueSlotReserved = TRUE,
                         !.buffer = <<head>>]
               q == Reserve(QueueForStart, len)
    <2>1. /\ len \in FfMin..MaxNsdu /\ ~StartBlocked /\ dataRxEnabled
          /\ CanReserve(QueueForStart)
          /\ rx' = WithFc(r, "CTS") /\ queue' = q
      BY <1>4 DEF FfAccepted
    <2>2. /\ len \in 0..MaxNsdu /\ <<head>> \in Data /\ FfPayload \in 0..MaxNsdu
          /\ 1 \in SequenceNumbers /\ FfPayload < len
      BY <2>1, WireConfig DEF Data, FfMin, SequenceNumbers
    <2>3. /\ r \in Rx /\ ~r.resultReported /\ ~FcBusy(r)
          /\ r.total = len /\ r.received = FfPayload /\ r.queueSlotReserved
      <3>1. r \in Rx
        BY <2>2, ZeroRxType DEF Rx, Data
      <3> QED
        BY <3>1 DEF ZeroRx, FcBusy
    <2>4. /\ QueueOk(q) /\ q.reservationActive
          /\ q.slots[q.reservedIndex].length = len
      BY <2>1, <2>2, StartOk, Reserved
    <2> HIDE DEF r, q
    <2>5. /\ RxOk(rx') /\ rx'.state = "FC_PENDING" /\ ~rx'.fcTxPending
          /\ rx'.total = len /\ rx'.queueSlotReserved
      BY <2>1, <2>2, <2>3, CtsOk
    <2>6. ~rx.fcTxPending /\ rx.fcTxPending \in BOOLEAN /\ rx'.fcTxPending \in BOOLEAN
      BY <2>1, <2>5, StartOk DEF FcBusy, RxOk, FcOk, Rx
    <2>7. Owned(rx', queue')
      BY <2>1, <2>4, <2>5 DEF Owned, Holds
    <2> QED
      BY <2>1, <2>5, <2>6, <2>7 DEF FrameStep
  <1> QED
    BY <1>1, <1>2, <1>3, <1>4

\* A CF taken in sequence stays within its N-SDU and its block.
LEMMA AppendedOk ==
    ASSUME RxOk(rx), Owned(rx, queue), rx.state = "WAIT_CF",
           NEW sn \in SequenceNumbers
    PROVE  /\ FcOk(Appended(sn)) /\ Holds(Appended(sn), queue)
           /\ Appended(sn).state = "WAIT_CF" /\ ~FcBusy(Appended(sn))
           /\ Appended(sn).fcTxPending = rx.fcTxPending
           /\ Appended(sn).fcRequestActive = rx.fcRequestActive
           /\ Appended(sn).total = rx.total /\ rx.total \in FfMin..MaxNsdu
           /\ Appended(sn).received = rx.received + CfBytes(rx.total - rx.received)
           /\ Appended(sn).received \in 0..rx.total
           /\ Appended(sn).blockCount = rx.blockCount + 1
           /\ Appended(sn).blockCount \in 0..BlockSize
           /\ Appended(sn).buffer = Append(rx.buffer, sn)
  <1> DEFINE r == Appended(sn)
             n == rx.received + CfBytes(rx.total - rx.received)
  <1>1. /\ rx \in Rx /\ ~rx.resultReported /\ ~FcBusy(rx)
        /\ rx.total \in FfMin..MaxNsdu /\ rx.received < rx.total
        /\ rx.blockCount < BlockSize
    BY DEF RxOk, FcOk, SessionOk
  <1>2. /\ rx.received \in 0..MaxNsdu /\ rx.blockCount \in 0..BlockSize
        /\ rx.buffer \in Data /\ rx.expectedSN \in SequenceNumbers
    BY <1>1 DEF Rx, Data
  <1>3. n \in 0..rx.total /\ n \in 0..MaxNsdu
    BY <1>1, <1>2, WireConfig DEF CfBytes, FfMin
  <1>4. /\ rx.blockCount + 1 \in 0..BlockSize
        /\ (rx.expectedSN + 1) % SnModulus \in SequenceNumbers
        /\ Append(rx.buffer, sn) \in Data
    <2>1. rx.blockCount + 1 \in 0..BlockSize
      BY <1>1, <1>2, WireConfig
    <2>2. (rx.expectedSN + 1) % SnModulus \in SequenceNumbers
      <3>1. rx.expectedSN + 1 \in Int
        BY <1>2, WireConfig DEF SequenceNumbers
      <3> QED
        BY <3>1, SnRange
    <2>3. Append(rx.buffer, sn) \in Data
      BY <1>2 DEF Data
    <2> QED
      BY <2>1, <2>2, <2>3
  <1> HIDE DEF n
  <1>5. r = [rx EXCEPT !.nCrActive = FALSE, !.received = n,
                       !.expectedSN = (rx.expectedSN + 1) % SnModulus,
                       !.blockCount = rx.blockCount + 1,
                       !.buffer = Append(rx.buffer, sn)]
    BY <1>1 DEF Appended, Rx, n
  <1> HIDE DEF r
  <1>6. r \in Rx
    BY <1>1, <1>3, <1>4, <1>5 DEF Rx, Data
  <1>7. /\ r.state = "WAIT_CF" /\ r.total = rx.total /\ ~r.resultReported
        /\ r.fcTxPending = rx.fcTxPending
        /\ r.fcRequestActive = rx.fcRequestActive
        /\ r.queueSlotReserved = rx.queueSlotReserved
        /\ r.received = n /\ r.blockCount = rx.blockCount + 1
        /\ r.buffer = Append(rx.buffer, sn)
    BY <1>1, <1>5 DEF Rx
  <1>8. FcOk(r) /\ ~FcBusy(r)
    BY <1>1, <1>6, <1>7 DEF FcOk, FcBusy
  <1>9. Holds(r, queue)
    BY <1>7 DEF Owned, Holds
  <1> QED
    BY <1>1, <1>3, <1>4, <1>7, <1>8, <1>9 DEF r, n

LEMMA CfOk ==
    ASSUME RxOk(rx), Owned(rx, queue), nowMs \in Clock, NEW sn \in SequenceNumbers,
           \/ CfIgnored(sn) \/ CfWrongSn(sn)
           \/ CfLast(sn, sn) \/ CfBlockEnd(sn, sn) \/ CfInBlock(sn, sn)
    PROVE  FrameStep
  <1>1. CASE CfIgnored(sn)
    BY <1>1, IgnoredOk DEF CfIgnored
  <1> DEFINE r == Appended(sn)
  <1>2. rx.state = "WAIT_CF" =>
           /\ ~rx.fcTxPending /\ rx.fcTxPending \in BOOLEAN
           /\ Holds(rx, queue)
    BY DEF RxOk, FcOk, Rx, SessionOk, FcBusy, Owned
  <1>3. CASE CfWrongSn(sn)
    <2>1. rx.state = "WAIT_CF" /\ dataRxEnabled /\ Abort(rx, queue)
      BY <1>3 DEF CfWrongSn
    <2>2. RxOk(rx') /\ Owned(rx', queue') /\ Kept(rx, rx')
      BY <1>2, <2>1, AbortOk DEF RxOk
    <2> QED
      BY <1>2, <2>1, <2>2 DEF FrameStep, Kept
  <1>4. CASE CfLast(sn, sn)
    <2>1. rx.state = "WAIT_CF" /\ dataRxEnabled /\ Complete(r, queue)
      BY <1>4 DEF CfLast, CfExpected
    <2>2. FcOk(r) /\ Holds(r, queue) /\ r.fcTxPending = rx.fcTxPending
      BY <2>1, AppendedOk
    <2> HIDE DEF r
    <2>3. RxOk(rx') /\ Owned(rx', queue') /\ Kept(r, rx')
      BY <2>1, <2>2, CompleteOk
    <2> QED
      BY <1>2, <2>1, <2>2, <2>3 DEF FrameStep, Kept
  <1>5. CASE CfBlockEnd(sn, sn)
    <2>1. /\ rx.state = "WAIT_CF" /\ dataRxEnabled
          /\ r.received # rx.total
          /\ IF FcBusy(r) THEN Abort(r, queue)
             ELSE rx' = WithFc(r, "CTS") /\ UNCHANGED queue
      BY <1>5 DEF CfBlockEnd, CfExpected
    <2>2. /\ FcOk(r) /\ Holds(r, queue) /\ ~FcBusy(r)
          /\ r.total = rx.total /\ rx.total \in FfMin..MaxNsdu
          /\ r.received \in 0..rx.total
      BY <2>1, AppendedOk
    <2>3. rx' = WithFc(r, "CTS") /\ queue' = queue /\ r.received < r.total
      BY <2>1, <2>2, WireConfig DEF FfMin
    <2> HIDE DEF r
    <2>4. /\ RxOk(rx') /\ rx'.state = "FC_PENDING" /\ ~rx'.fcTxPending
          /\ rx'.total = r.total /\ rx'.queueSlotReserved = r.queueSlotReserved
      BY <2>2, <2>3, CtsOk DEF FcOk
    <2>5. Owned(rx', queue')
      BY <2>2, <2>3, <2>4 DEF Owned, Holds
    <2>6. rx'.fcTxPending \in BOOLEAN
      BY <2>4 DEF RxOk, FcOk, Rx
    <2> QED
      BY <1>2, <2>1, <2>4, <2>5, <2>6 DEF FrameStep
  <1>6. CASE CfInBlock(sn, sn)
    <2>1. /\ rx.state = "WAIT_CF" /\ dataRxEnabled
          /\ r.received # rx.total /\ r.blockCount # BlockSize
          /\ rx' = [r EXCEPT !.nCrStartMs = nowMs, !.nCrActive = TRUE]
          /\ queue' = queue
      BY <1>6 DEF CfInBlock, CfExpected
    <2>2. /\ FcOk(r) /\ Holds(r, queue) /\ ~FcBusy(r)
          /\ r.state = "WAIT_CF" /\ r.fcTxPending = rx.fcTxPending
          /\ r.total = rx.total /\ rx.total \in FfMin..MaxNsdu
          /\ r.received \in 0..rx.total /\ r.blockCount \in 0..BlockSize
      BY <2>1, AppendedOk
    <2>3. r.received < r.total /\ r.blockCount < BlockSize
      BY <2>1, <2>2, WireConfig DEF FfMin
    <2> HIDE DEF r
    <2>4. rx' \in Rx
      BY <2>1, <2>2 DEF FcOk, Rx
    <2>5. /\ rx'.state = "WAIT_CF" /\ rx'.nCrActive
          /\ rx'.total = r.total /\ rx'.received = r.received
          /\ rx'.blockCount = r.blockCount
          /\ rx'.fcTxPending = r.fcTxPending
          /\ rx'.fcRequestActive = r.fcRequestActive
          /\ rx'.fcFrame = r.fcFrame
          /\ rx'.queueSlotReserved = r.queueSlotReserved
          /\ rx'.resultReported = r.resultReported
      BY <2>1, <2>2 DEF FcOk, Rx
    <2>6. RxOk(rx')
      BY <2>2, <2>3, <2>4, <2>5 DEF RxOk, FcOk, SessionOk, FcBusy
    <2>7. Owned(rx', queue')
      BY <2>1, <2>2, <2>5 DEF Owned, Holds
    <2> QED
      BY <1>2, <2>1, <2>2, <2>5, <2>6, <2>7 DEF FrameStep
  <1> QED
    BY <1>1, <1>3, <1>4, <1>5, <1>6

LEMMA FrameInv ==
    ASSUME IInv, SfReceived \/ FfReceived \/ CfReceived
    PROVE  IInv'
  <1>1. /\ phase' = "cantp"
        /\ UNCHANGED <<nowMs, dataRxEnabled, fcMailbox>>
    BY DEF SfReceived, FfReceived, CfReceived, Receiving, At
  <1>2. RxOk(rx) /\ Owned(rx, queue) /\ nowMs \in Clock
    BY DEF IInv
  <1>3. FrameStep
    <2>1. CASE SfReceived
      BY <1>2, <2>1, SfOk, FramesConfig DEF SfReceived
    <2>2. CASE FfReceived
      BY <1>2, <2>2, FfOk, FramesConfig DEF FfReceived
    <2>3. CASE CfReceived
      BY <1>2, <2>3, CfOk DEF CfReceived
    <2> QED
      BY <2>1, <2>2, <2>3
  <1>4. MailboxOk(rx)'
    BY <1>1, <1>3 DEF FrameStep, IInv, MailboxOk
  <1>5. DisabledIsQuiet'
    BY <1>1, <1>3 DEF FrameStep, IInv, DisabledIsQuiet
  <1> QED
    BY <1>1, <1>3, <1>4, <1>5 DEF IInv, FrameStep, Phases

----------------------------------------------------------------------------
(* The other calls of the main loop.                                       *)

LEMMA InitIInv == Init => IInv
  <1> SUFFICES ASSUME Init PROVE IInv
    OBVIOUS
  <1>1. rx \in Rx
    <2>1. 1 \in SequenceNumbers
      BY WireConfig DEF SequenceNumbers
    <2> QED
      BY <2>1, ZeroRxType DEF Init, RxInit, Rx
  <1>2. /\ rx.state = "IDLE" /\ ~rx.fcTxPending /\ ~rx.fcRequestActive
        /\ ~rx.resultReported /\ ~rx.queueSlotReserved
    BY DEF Init, RxInit, ZeroRx
  <1>3. RxOk(rx)
    BY <1>1, <1>2 DEF RxOk, FcOk, SessionOk
  <1>4. QueueOk(queue) /\ ~queue.reservationActive
    <2>1. 0 \in Indices
      BY QueueConfig DEF Indices
    <2>2. queue \in Queue
      BY <2>1, FreeSlotType DEF Init, RxInit, EmptyQueue, Queue
    <2> QED
      BY <2>2 DEF QueueOk, Init, RxInit, EmptyQueue, FreeSlot
  <1> QED
    BY <1>2, <1>3, <1>4, ClockConfig
       DEF IInv, Owned, MailboxOk, Init, RxInit, Clock, Phases, DisabledIsQuiet

LEMMA ConfirmOk ==
    ASSUME IInv, ConfirmFc
    PROVE  IInv'
  <1>1. /\ phase' = "read" /\ fcMailbox' = "NONE" /\ queue' = queue
        /\ UNCHANGED <<nowMs, dataRxEnabled>>
        /\ rx.fcTxPending
    BY DEF ConfirmFc, At, FcConfirmedCts, FcConfirmedLate
  <1>2. RxOk(rx) /\ Owned(rx, queue) /\ rx \in Rx /\ dataRxEnabled
        /\ nowMs \in Clock /\ rx.fcRequestActive
    BY <1>1 DEF IInv, RxOk, FcOk, DisabledIsQuiet, FcBusy
  <1> DEFINE d == FcDone(rx)
  <1>3. /\ d \in Rx /\ ~d.fcTxPending /\ ~d.fcRequestActive
        /\ d.state = rx.state /\ d.total = rx.total /\ d.received = rx.received
        /\ d.blockCount = rx.blockCount /\ d.fcFrame = rx.fcFrame
        /\ d.queueSlotReserved = rx.queueSlotReserved
        /\ d.resultReported = rx.resultReported
    BY <1>2 DEF FcDone, Rx
  <1> HIDE DEF d
  <1>4. /\ RxOk(rx') /\ Owned(rx', queue') /\ ~rx'.fcTxPending
    <2>1. CASE FcConfirmedCts
      <3>1. /\ rx' = [d EXCEPT !.blockCount = 0, !.nCrStartMs = nowMs,
                               !.nCrActive = TRUE, !.state = "WAIT_CF"]
            /\ rx.state = "FC_PENDING"
        BY <2>1 DEF FcConfirmedCts, OpensBlock, d
      <3>2. 0 \in 0..BlockSize /\ 0 < BlockSize /\ "WAIT_CF" \in RxStates
        BY WireConfig DEF RxStates
      <3>3. /\ rx' \in Rx /\ rx'.state = "WAIT_CF" /\ rx'.nCrActive
            /\ rx'.blockCount = 0 /\ rx'.total = d.total /\ rx'.received = d.received
            /\ rx'.fcTxPending = d.fcTxPending
            /\ rx'.fcRequestActive = d.fcRequestActive
            /\ rx'.fcFrame = d.fcFrame
            /\ rx'.queueSlotReserved = d.queueSlotReserved
            /\ rx'.resultReported = d.resultReported
        BY <1>2, <1>3, <3>1, <3>2 DEF Rx
      <3>4. RxOk(rx')
        BY <1>2, <1>3, <3>1, <3>2, <3>3 DEF RxOk, FcOk, SessionOk, FcBusy
      <3>5. Owned(rx', queue')
        BY <1>1, <1>2, <1>3, <3>1, <3>3 DEF Owned, Holds
      <3> QED
        BY <1>3, <3>3, <3>4, <3>5
    <2>2. CASE FcConfirmedLate
      <3>1. rx' = d
        BY <2>2 DEF FcConfirmedLate, d
      <3>2. rx.state = "IDLE"
        <4>1. rx.state # "FC_PENDING"
          BY <1>2, <2>2 DEF FcConfirmedLate, OpensBlock, Owned, Holds
        <4>2. rx.state # "WAIT_CF"
          BY <1>1, <1>2 DEF RxOk, SessionOk, FcBusy
        <4> QED
          BY <1>2, <4>1, <4>2 DEF Rx, RxStates
      <3>3. RxOk(rx')
        BY <1>2, <1>3, <3>1, <3>2 DEF RxOk, FcOk, SessionOk
      <3> QED
        BY <1>1, <1>2, <1>3, <3>1, <3>2, <3>3 DEF Owned, Holds
    <2> QED
      BY <2>1, <2>2 DEF ConfirmFc
  <1>5. MailboxOk(rx)' /\ DisabledIsQuiet'
    BY <1>1, <1>2, <1>4 DEF MailboxOk, DisabledIsQuiet
  <1> QED
    BY <1>1, <1>2, <1>4, <1>5 DEF IInv, Phases

LEMMA NextMsType ==
    ASSUME NEW t \in Clock
    PROVE  NextMs(t) \in Clock
  BY ModRange, ClockConfig DEF Clock, NextMs

\* What a call of CanTp_MainFunction leaves of the rest.
LEMMA MainFrame ==
    ASSUME IInv, nowMs' = NextMs(nowMs), phase' = "app",
           UNCHANGED dataRxEnabled,
           RxOk(rx'), Owned(rx', queue'), MailboxOk(rx)', DisabledIsQuiet'
    PROVE  IInv'
  BY NextMsType DEF IInv, Phases

\* A session aborted with its FC's flags as in r, or without any.
LEMMA MainAborted ==
    ASSUME IInv, nowMs' = NextMs(nowMs), phase' = "app",
           UNCHANGED <<dataRxEnabled, fcMailbox>>, dataRxEnabled,
           NEW r, r \in {rx, Exhausted(rx)},
           r = Exhausted(rx) => ~rx.fcTxPending,
           Abort(r, queue)
    PROVE  IInv'
  <1>1. RxOk(rx) /\ FcOk(rx) /\ rx \in Rx /\ Owned(rx, queue) /\ MailboxOk(rx)
    BY DEF IInv, RxOk, FcOk
  <1>2. /\ r \in Rx /\ r.fcTxPending = rx.fcTxPending /\ r.fcFrame = rx.fcFrame
        /\ r.resultReported = rx.resultReported
        /\ r.queueSlotReserved = rx.queueSlotReserved /\ r.total = rx.total
        /\ r.fcRequestActive \in {rx.fcRequestActive, FALSE}
    BY ZenonT(30), <1>1 DEF Exhausted, Rx
  <1>3. r.fcTxPending => r.fcRequestActive
    <2>1. CASE r = rx
      BY <1>1, <2>1 DEF FcOk
    <2>2. CASE r = Exhausted(rx)
      BY <1>2, <2>2
    <2> QED
      BY <2>1, <2>2
  <1>4. FcOk(r)
    BY <1>1, <1>2, <1>3 DEF FcOk
  <1>5. Holds(r, queue) \/ (~r.queueSlotReserved /\ QueueOk(queue) /\ ~queue.reservationActive)
    BY <1>1, <1>2 DEF Owned, Holds
  <1>6. RxOk(rx') /\ Owned(rx', queue') /\ Kept(r, rx')
    BY <1>4, <1>5, AbortOk
  <1>7. rx'.fcTxPending = rx.fcTxPending /\ (rx.fcTxPending => rx'.fcFrame = rx.fcFrame)
    BY <1>2, <1>6 DEF Kept, FcBusy
  <1>8. MailboxOk(rx)'
    BY <1>1, <1>7 DEF MailboxOk
  <1> QED
    BY <1>6, <1>8, MainFrame DEF DisabledIsQuiet

LEMMA MainTimeoutArOk == ASSUME IInv, MainTimeoutAr PROVE IInv'
  <1>1. /\ nowMs' = NextMs(nowMs) /\ phase' = "app"
        /\ UNCHANGED <<dataRxEnabled, fcMailbox>>
        /\ rx.fcTxPending /\ Abort(rx, queue)
    BY DEF MainTimeoutAr, Main, At, NArTimeout, NArExpired
  <1>2. dataRxEnabled
    BY <1>1 DEF IInv, DisabledIsQuiet, FcBusy
  <1>3. rx = Exhausted(rx) => ~rx.fcTxPending
    BY <1>1 DEF IInv, RxOk, FcOk, Rx, Exhausted
  <1> QED
    BY <1>1, <1>2, <1>3, MainAborted

LEMMA MainTimeoutCrOk == ASSUME IInv, MainTimeoutCr PROVE IInv'
  <1>1. /\ nowMs' = NextMs(nowMs) /\ phase' = "app"
        /\ UNCHANGED <<dataRxEnabled, fcMailbox>>
        /\ rx.state = "WAIT_CF" /\ Abort(rx, queue)
    BY DEF MainTimeoutCr, Main, At, NCrTimeout, NCrExpired
  <1>2. dataRxEnabled /\ ~rx.fcTxPending
    BY <1>1 DEF IInv, DisabledIsQuiet, RxOk, SessionOk, FcBusy
  <1> QED
    BY <1>1, <1>2, MainAborted

LEMMA MainFcExhaustedOk == ASSUME IInv, MainFcExhausted PROVE IInv'
  <1>1. /\ nowMs' = NextMs(nowMs) /\ phase' = "app"
        /\ UNCHANGED <<dataRxEnabled, fcMailbox>>
        /\ rx.fcRequestActive /\ ~rx.fcTxPending
        /\ Abort(Exhausted(rx), queue)
    BY DEF MainFcExhausted, Main, At, FcRequestExhausted, FcRequestDue
  <1>2. dataRxEnabled
    BY <1>1 DEF IInv, DisabledIsQuiet, FcBusy
  <1> QED
    BY <1>1, <1>2, MainAborted

\* The same session, with an FC request that has been accepted or put off.
LEMMA MainRequested ==
    ASSUME IInv, rx.fcRequestActive, rx' \in Rx,
           rx'.fcRequestActive = rx.fcRequestActive, rx'.fcFrame = rx.fcFrame,
           rx'.state = rx.state, rx'.total = rx.total,
           rx'.received = rx.received, rx'.blockCount = rx.blockCount,
           rx'.queueSlotReserved = rx.queueSlotReserved,
           rx'.resultReported = rx.resultReported,
           queue' = queue
    PROVE  RxOk(rx') /\ Owned(rx', queue') /\ dataRxEnabled
  <1>1. RxOk(rx) /\ Owned(rx, queue) /\ dataRxEnabled
    BY DEF IInv, DisabledIsQuiet, FcBusy
  <1>2. rx.state # "WAIT_CF"
    BY <1>1 DEF RxOk, SessionOk, FcBusy
  <1>3. RxOk(rx')
    BY <1>1, <1>2 DEF RxOk, FcOk, SessionOk
  <1>4. Owned(rx', queue')
    BY <1>1 DEF Owned, Holds
  <1> QED
    BY <1>1, <1>3, <1>4

LEMMA MainFcRetriedOk == ASSUME IInv, MainFcRetried PROVE IInv'
  <1> DEFINE now == NextMs(nowMs)
             due == NextMs(now)
  <1>1. /\ nowMs' = now /\ phase' = "app"
        /\ UNCHANGED <<dataRxEnabled, fcMailbox>>
        /\ rx.fcRequestActive /\ ~rx.fcTxPending
        /\ rx.fcRetryCount < MaxRetries
        /\ rx' = [rx EXCEPT !.fcRetryCount = rx.fcRetryCount + 1,
                            !.fcAttemptDueMs = due]
        /\ queue' = queue
    BY DEF MainFcRetried, Main, At, FcRequestRetried, FcRequestDue
  <1>2. rx \in Rx /\ due \in Clock
    BY NextMsType DEF IInv, RxOk, FcOk
  <1>3. rx.fcRetryCount + 1 \in 0..MaxRetries
    BY <1>1, <1>2, RxConfig DEF Rx
  <1> HIDE DEF due
  <1>4. /\ rx' \in Rx /\ rx'.fcTxPending = rx.fcTxPending
        /\ rx'.fcRequestActive = rx.fcRequestActive /\ rx'.fcFrame = rx.fcFrame
        /\ rx'.state = rx.state /\ rx'.total = rx.total
        /\ rx'.received = rx.received /\ rx'.blockCount = rx.blockCount
        /\ rx'.queueSlotReserved = rx.queueSlotReserved
        /\ rx'.resultReported = rx.resultReported
    BY <1>1, <1>2, <1>3 DEF Rx
  <1>5. RxOk(rx') /\ Owned(rx', queue') /\ dataRxEnabled
    BY <1>1, <1>4, MainRequested
  <1>6. MailboxOk(rx)' /\ DisabledIsQuiet'
    BY <1>1, <1>4, <1>5 DEF IInv, MailboxOk, DisabledIsQuiet
  <1> QED
    BY <1>1, <1>5, <1>6, MainFrame

LEMMA MainFcAcceptedOk == ASSUME IInv, MainFcAccepted PROVE IInv'
  <1> DEFINE now == NextMs(nowMs)
  <1>1. /\ nowMs' = now /\ phase' = "app" /\ UNCHANGED dataRxEnabled
        /\ fcMailbox' = rx.fcFrame
        /\ rx.fcRequestActive
        /\ rx' = [rx EXCEPT !.fcTxPending = TRUE, !.nArStartMs = now,
                            !.nArActive = TRUE]
        /\ queue' = queue
    BY DEF MainFcAccepted, Main, At, FcRequestAccepted, FcRequestDue
  <1>2. rx \in Rx /\ now \in Clock /\ rx.fcFrame \in FlowStatus
    BY <1>1, NextMsType DEF IInv, RxOk, FcOk
  <1> HIDE DEF now
  <1>3. /\ rx' \in Rx /\ rx'.fcTxPending
        /\ rx'.fcRequestActive = rx.fcRequestActive /\ rx'.fcFrame = rx.fcFrame
        /\ rx'.state = rx.state /\ rx'.total = rx.total
        /\ rx'.received = rx.received /\ rx'.blockCount = rx.blockCount
        /\ rx'.queueSlotReserved = rx.queueSlotReserved
        /\ rx'.resultReported = rx.resultReported
    BY <1>1, <1>2 DEF Rx
  <1>4. RxOk(rx') /\ Owned(rx', queue') /\ dataRxEnabled
    BY <1>1, <1>3, MainRequested
  <1>5. MailboxOk(rx)' /\ DisabledIsQuiet'
    BY <1>1, <1>2, <1>3, <1>4 DEF MailboxOk, DisabledIsQuiet, FlowStatus
  <1> QED
    BY <1>1, <1>4, <1>5, MainFrame DEF now

LEMMA MainIdleOk == ASSUME IInv, MainIdle PROVE IInv'
  <1>1. /\ nowMs' = NextMs(nowMs) /\ phase' = "app"
        /\ UNCHANGED <<rx, queue, dataRxEnabled, fcMailbox>>
    BY DEF MainIdle, Main, At, RxNothingDue
  <1> QED
    BY <1>1, MainFrame DEF IInv, MailboxOk, DisabledIsQuiet

LEMMA AppReceiveOk == ASSUME IInv, AppReceive PROVE IInv'
  <1>1. /\ CanReceive(queue) /\ queue' = Receive(queue)
        /\ UNCHANGED <<rx, nowMs, dataRxEnabled, phase, fcMailbox>>
    BY DEF AppReceive
  <1>2. QueueOk(queue) /\ Owned(rx, queue)
    BY DEF IInv, Owned, Holds
  <1>3. /\ QueueOk(queue')
        /\ queue'.reservationActive = queue.reservationActive
        /\ queue.reservationActive =>
              queue'.slots[queue'.reservedIndex] = queue.slots[queue.reservedIndex]
    BY <1>1, <1>2, Consumed
  <1>4. Owned(rx', queue')
    BY <1>1, <1>2, <1>3 DEF Owned, Holds
  <1> QED
    BY <1>1, <1>4 DEF IInv, MailboxOk, DisabledIsQuiet

\* Calls that at most move on in the loop or switch data reception.
LEMMA AppSetDataRxOk ==
    ASSUME IInv, phase' \in Phases, UNCHANGED <<rx, queue, nowMs, fcMailbox>>,
           \/ UNCHANGED dataRxEnabled
           \/ \E enabled \in BOOLEAN : SetDataRxEnabled(enabled)
    PROVE  IInv'
  <1>1. dataRxEnabled' \in BOOLEAN
    BY DEF IInv, SetDataRxEnabled
  <1>2. DisabledIsQuiet'
    BY DEF IInv, DisabledIsQuiet, SetDataRxEnabled, CanDisable
  <1> QED
    BY <1>1, <1>2 DEF IInv, MailboxOk

LEMMA NextIInv ==
    ASSUME IInv, [Next]_vars
    PROVE  IInv'
  <1>1. CASE SfReceived \/ FfReceived \/ CfReceived
    BY <1>1, FrameInv
  <1>2. CASE ConfirmFc
    BY <1>2, ConfirmOk
  <1>3. CASE MainTimeoutAr \/ MainTimeoutCr \/ MainFcExhausted
    BY <1>3, MainTimeoutArOk, MainTimeoutCrOk, MainFcExhaustedOk
  <1>4. CASE MainFcRetried \/ MainFcAccepted \/ MainIdle
    BY <1>4, MainFcRetriedOk, MainFcAcceptedOk, MainIdleOk
  <1>5. CASE AppReceive
    BY <1>5, AppReceiveOk
  <1>6. CASE MailboxBusy \/ NothingReceived \/ AppDone \/ AppSetDataRx \/ UNCHANGED vars
    <2>1. phase' \in Phases /\ UNCHANGED <<rx, queue, nowMs, fcMailbox>>
      BY <1>6 DEF MailboxBusy, NothingReceived, Receiving, AppDone, AppSetDataRx,
                  SetDataRxEnabled, At, Phases, vars, IInv
    <2>2. \/ UNCHANGED dataRxEnabled
          \/ \E enabled \in BOOLEAN : SetDataRxEnabled(enabled)
      BY <1>6 DEF MailboxBusy, NothingReceived, Receiving, AppDone, AppSetDataRx, vars
    <2> QED
      BY <2>1, <2>2, AppSetDataRxOk
  <1> QED
    BY <1>1, <1>2, <1>3, <1>4, <1>5, <1>6 DEF Next

LEMMA SpecIInv == Spec => []IInv
  BY InitIInv, NextIInv, PTL DEF Spec

----------------------------------------------------------------------------
(* The theorems.                                                           *)

(* Every variable keeps its type: total and received stay within an N-SDU, *)
(* blockCount within the block of CANTP_BLOCK_SIZE frames, fcRetryCount    *)
(* within CANTP_MAX_RETRIES, and the queue's indices within the ring.      *)
THEOREM TypeCorrect == Spec => []TypeOK
  <1>1. IInv => TypeOK
    BY DEF IInv, RxOk, FcOk, Owned, Holds, QueueOk, MailboxOk, TypeOK
  <1> QED
    BY <1>1, SpecIInv, PTL

(* CanTp and NodeApp agree on the reserved slot, for every queue size and  *)
(* every frame length: CanTp_AbortRx, a completion and a replaced session  *)
(* each give the slot back exactly once.                                   *)
THEOREM ReservationOwnedAlways == Spec => []ReservationOwned
  <1>1. ASSUME IInv PROVE ReservationOwned
    <2>1. QueueOk(queue) /\ Owned(rx, queue) /\ queue.reservedIndex \in Indices
          /\ rx \in Rx
      BY <1>1 DEF IInv, Owned, Holds, QueueOk, Queue, RxOk, FcOk
    <2>2. /\ queue.reservationActive \in BOOLEAN /\ rx.queueSlotReserved \in BOOLEAN
      BY <2>1 DEF QueueOk, Queue, Rx
    <2>3. /\ queue.reservationActive <=> rx.queueSlotReserved
          /\ rx.queueSlotReserved <=> rx.state # "IDLE"
      BY <2>1, <2>2 DEF Owned, Holds
    <2>4. {i \in Indices : queue.slots[i].state = "RESERVED"} =
             IF queue.reservationActive THEN {queue.reservedIndex} ELSE {}
      BY <2>1, <2>2 DEF QueueOk
    <2> QED
      BY <2>1, <2>3, <2>4 DEF ReservationOwned, QueueOk
  <1> QED
    BY <1>1, SpecIInv, PTL

(* One Flow Control frame at a time, held by the driver exactly while      *)
(* CanTp_RxRuntime says so, in the state it belongs to, through aborts,    *)
(* retries and late confirmations.                                         *)
THEOREM FcResourceAlways == Spec => []FcResource
  <1>1. ASSUME IInv PROVE FcResource
    BY <1>1 DEF IInv, RxOk, FcOk, SessionOk, MailboxOk, FcResource
  <1> QED
    BY <1>1, SpecIInv, PTL

(* CanTp_SetDataRxEnabled's check is enough: a node that has switched data *)
(* reception off never again has a session or owes a Flow Control frame.   *)
THEOREM DisabledIsQuietAlways == Spec => []DisabledIsQuiet
  BY SpecIInv, PTL DEF IInv

----------------------------------------------------------------------------
(* The queue: NodeApp's ring is always read where its oldest N-SDU is, for *)
(* every queue size and however sessions are interrupted, so               *)
(* App_ProcessCanTpRx never halts the ECU.                                 *)

\* How far slot i is from the read index, in reading order.
Dist(q, i) ==
    IF i >= q.readIndex THEN i - q.readIndex ELSE i - q.readIndex + QueueSize

Ready(q, i) == q.slots[i].state = "READY"

(* The READY slots are the n next ones to read, the write index follows.   *)
RingOf(q, n) ==
    /\ \A i \in Indices : Ready(q, i) <=> Dist(q, i) < n
    /\ IF n < QueueSize THEN Dist(q, q.writeIndex) = n
       ELSE q.writeIndex = q.readIndex

Ring(q) == \E n \in 0..QueueSize : RingOf(q, n)

----------------------------------------------------------------------------
(* Distances around the ring.                                              *)

LEMMA NextIndexCases ==
    ASSUME NEW i \in Indices
    PROVE  NextIndex(i) = IF i + 1 = QueueSize THEN 0 ELSE i + 1
  <1>1. CASE i + 1 = QueueSize
    BY <1>1, QueueConfig, ModUnique, 1 * QueueSize + 0 = QueueSize
       DEF Indices, NextIndex
  <1>2. CASE i + 1 # QueueSize
    BY <1>2, QueueConfig, ModUnique, 0 * QueueSize + (i + 1) = i + 1
       DEF Indices, NextIndex
  <1> QED
    BY <1>1, <1>2

LEMMA DistRange ==
    ASSUME NEW q, q \in Queue, NEW i \in Indices
    PROVE  /\ Dist(q, i) \in Indices
           /\ Dist(q, i) = 0 <=> i = q.readIndex
  <1>1. q.readIndex \in Indices
    BY DEF Queue
  <1> QED
    BY <1>1, QueueConfig DEF Dist, Indices

LEMMA DistUnique ==
    ASSUME NEW q, q \in Queue, NEW i \in Indices, NEW j \in Indices,
           Dist(q, i) = Dist(q, j)
    PROVE  i = j
  <1>1. q.readIndex \in Indices
    BY DEF Queue
  <1> QED
    BY <1>1, QueueConfig DEF Dist, Indices

\* The slot after the one at distance d is at distance d + 1.
LEMMA DistAfter ==
    ASSUME NEW q, q \in Queue, NEW i \in Indices
    PROVE  IF Dist(q, i) + 1 < QueueSize
           THEN Dist(q, NextIndex(i)) = Dist(q, i) + 1
           ELSE NextIndex(i) = q.readIndex
  <1>1. q.readIndex \in Indices
    BY DEF Queue
  <1> QED
    BY <1>1, QueueConfig, NextIndexCases DEF Dist, Indices

\* When the read index moves on, every slot is one nearer.
LEMMA DistMoved ==
    ASSUME NEW q, q \in Queue, NEW p, p \in Queue,
           p.readIndex = NextIndex(q.readIndex), NEW i \in Indices
    PROVE  Dist(p, i) = IF i = q.readIndex THEN QueueSize - 1 ELSE Dist(q, i) - 1
  <1>1. q.readIndex \in Indices
    BY DEF Queue
  <1>2. p.readIndex = IF q.readIndex + 1 = QueueSize THEN 0 ELSE q.readIndex + 1
    BY <1>1, NextIndexCases
  <1> QED
    BY <1>1, <1>2, QueueConfig DEF Dist, Indices

----------------------------------------------------------------------------
(* The ring's functions keep the order.                                    *)

\* Neither index moves and the READY slots are the same.
LEMMA RingSame ==
    ASSUME NEW q, NEW p, Ring(q),
           p.readIndex = q.readIndex, p.writeIndex = q.writeIndex,
           \A i \in Indices : Ready(p, i) <=> Ready(q, i)
    PROVE  Ring(p)
  <1>1. PICK n \in 0..QueueSize : RingOf(q, n)
    BY DEF Ring
  <1>2. RingOf(p, n)
    BY <1>1 DEF RingOf, Dist
  <1> QED
    BY <1>2 DEF Ring

LEMMA RingGivenBack ==
    ASSUME NEW q, QueueOk(q), Ring(q), q.reservationActive
    PROVE  Ring(Indicate(q, "E_NOT_OK"))
  <1> DEFINE p == [q EXCEPT !.reservationActive = FALSE,
                            !.slots[q.reservedIndex] = FreeSlot]
  <1>1. Indicate(q, "E_NOT_OK") = p
    BY DEF Indicate
  <1>2. q \in Queue /\ q.reservedIndex \in Indices
    BY DEF QueueOk, Queue
  <1>3. /\ p.readIndex = q.readIndex /\ p.writeIndex = q.writeIndex
        /\ p.slots = [q.slots EXCEPT ![q.reservedIndex] = FreeSlot]
    BY <1>2 DEF Queue
  <1>4. q.slots[q.reservedIndex].state = "RESERVED"
    BY <1>2 DEF QueueOk
  <1> HIDE DEF p
  <1>5. \A i \in Indices : Ready(p, i) <=> Ready(q, i)
    BY <1>2, <1>3, <1>4 DEF Ready, Queue, FreeSlot
  <1> QED
    BY <1>1, <1>3, <1>5, RingSame

LEMMA RingReserved ==
    ASSUME NEW q, QueueOk(q), Ring(q), CanReserve(q), NEW len \in 0..MaxNsdu
    PROVE  Ring(Reserve(q, len))
  <1> DEFINE w == q.writeIndex
             slot == [q.slots[w] EXCEPT !.state = "RESERVED", !.length = len]
             p == Reserve(q, len)
  <1>1. q \in Queue /\ w \in Indices /\ q.slots[w] \in Slot
    BY DEF QueueOk, Queue
  <1>2. slot.state = "RESERVED" /\ q.slots[w].state = "FREE"
    BY <1>1 DEF Slot, CanReserve
  <1>3. /\ p.slots = [q.slots EXCEPT ![w] = slot]
        /\ p.writeIndex = w /\ p.readIndex = q.readIndex
    BY <1>1 DEF Reserve, Queue
  <1> HIDE DEF p, slot
  <1>4. \A i \in Indices : Ready(p, i) <=> Ready(q, i)
    BY <1>1, <1>2, <1>3 DEF Ready, Queue
  <1> QED
    BY <1>3, <1>4, RingSame DEF p

\* The published slot is the one after the READY ones.
LEMMA RingOfPublished ==
    ASSUME NEW q, QueueOk(q), NEW n \in 0..QueueSize, RingOf(q, n),
           q.reservationActive, NEW data \in Data
    PROVE  /\ n < QueueSize /\ Dist(q, q.reservedIndex) = n
           /\ RingOf(Indicate(CopyIn(q, data), "E_OK"), n + 1)
  <1> DEFINE w == q.reservedIndex
             slot == [q.slots[w] EXCEPT !.state = "READY", !.data = data]
             c == CopyIn(q, data)
             p == Indicate(c, "E_OK")
  <1>1. q \in Queue /\ w \in Indices /\ q.slots[w] \in Slot /\ q.writeIndex = w
        /\ q.slots[w].state = "RESERVED"
    BY DEF QueueOk, Queue
  <1>2. slot.state = "READY"
    BY <1>1 DEF Slot
  <1>3. /\ c.slots = [q.slots EXCEPT ![w] = slot]
        /\ c.reservedIndex = w /\ c.reservationActive /\ c.readIndex = q.readIndex
    BY <1>1 DEF CopyIn, Queue
  <1>4. c = [q EXCEPT !.slots = c.slots]
    BY <1>1, <1>3 DEF CopyIn, Queue
  <1>5. c.slots[w].state = "READY"
    BY <1>1, <1>2, <1>3 DEF Queue
  <1>6. p = [c EXCEPT !.reservationActive = FALSE, !.writeIndex = NextIndex(w)]
    BY <1>3, <1>5 DEF Indicate
  <1>7. /\ p.slots = [q.slots EXCEPT ![w] = slot]
        /\ p.writeIndex = NextIndex(w) /\ p.readIndex = q.readIndex
    BY <1>1, <1>3, <1>4, <1>6 DEF Queue
  <1> HIDE DEF p, c, slot, w
  <1>8. Dist(q, w) = n /\ n < QueueSize
    <2>1. ~(Dist(q, w) < n) /\ Dist(q, w) \in Indices
      BY <1>1, DistRange DEF RingOf, Ready
    <2>2. n < QueueSize
      BY <2>1, QueueConfig DEF Indices
    <2> QED
      BY <1>1, <2>2 DEF RingOf
  <1>9. \A i \in Indices : Ready(p, i) <=> Dist(p, i) < n + 1
    <2> TAKE i \in Indices
    <2>1. Dist(p, i) = Dist(q, i) /\ Dist(q, i) \in Nat
      BY <1>1, <1>7, DistRange DEF Dist, Indices
    <2>2. CASE i = w
      BY <1>1, <1>2, <1>7, <1>8, <2>1, <2>2 DEF Ready, Queue
    <2>3. CASE i # w
      <3>1. Ready(p, i) <=> Ready(q, i)
        BY <1>1, <1>7, <2>3 DEF Ready, Queue
      <3>2. Dist(q, i) # n
        BY <1>1, <1>8, <2>3, DistUnique
      <3> QED
        BY <2>1, <3>1, <3>2 DEF RingOf
    <2> QED
      BY <2>2, <2>3
  <1>10. IF n + 1 < QueueSize THEN Dist(p, p.writeIndex) = n + 1
         ELSE p.writeIndex = p.readIndex
    BY <1>1, <1>7, <1>8, DistAfter DEF Dist
  <1> QED
    BY <1>8, <1>9, <1>10 DEF RingOf, p, c, w

LEMMA RingPublished ==
    ASSUME NEW q, QueueOk(q), Ring(q), q.reservationActive, NEW data \in Data
    PROVE  Ring(Indicate(CopyIn(q, data), "E_OK"))
  <1>1. PICK n \in 0..QueueSize : RingOf(q, n)
    BY DEF Ring
  <1>2. n < QueueSize /\ RingOf(Indicate(CopyIn(q, data), "E_OK"), n + 1)
    BY <1>1, RingOfPublished
  <1> QED
    BY <1>2, QueueConfig DEF Ring

\* The oldest slot is freed and the next one becomes the oldest.
LEMMA RingOfConsumed ==
    ASSUME NEW q, QueueOk(q), NEW n \in 0..QueueSize, RingOf(q, n), CanReceive(q)
    PROVE  n > 0 /\ RingOf(Receive(q), n - 1)
  <1> DEFINE i0 == q.readIndex
             p == Receive(q)
  <1>1. q \in Queue /\ i0 \in Indices /\ q.writeIndex \in Indices
    BY DEF QueueOk, Queue
  <1>2. /\ p.slots = [q.slots EXCEPT ![i0] = FreeSlot]
        /\ p.writeIndex = q.writeIndex /\ p.readIndex = NextIndex(i0)
    BY <1>1 DEF Receive, Queue
  <1>3. p \in Queue
    BY Consumed DEF QueueOk
  <1> HIDE DEF p
  <1>4. n > 0
    <2>1. Ready(q, i0) /\ Dist(q, i0) = 0
      BY <1>1, DistRange DEF CanReceive, Ready
    <2> QED
      BY <1>1, <2>1 DEF RingOf
  <1>5. \A i \in Indices :
           Dist(p, i) = IF i = i0 THEN QueueSize - 1 ELSE Dist(q, i) - 1
    BY <1>1, <1>2, <1>3, DistMoved
  <1>6. \A i \in Indices : Ready(p, i) <=> Dist(p, i) < n - 1
    <2> TAKE i \in Indices
    <2>1. CASE i = i0
      <3>1. ~Ready(p, i)
        BY <1>1, <1>2, <2>1 DEF Ready, Queue, FreeSlot
      <3>2. ~(Dist(p, i) < n - 1)
        BY <1>5, <2>1, QueueConfig
      <3> QED
        BY <3>1, <3>2
    <2>2. CASE i # i0
      <3>1. Ready(p, i) <=> Ready(q, i)
        BY <1>1, <1>2, <2>2 DEF Ready, Queue
      <3>2. Dist(p, i) = Dist(q, i) - 1 /\ Dist(q, i) \in Nat
        BY <1>1, <1>5, <2>2, DistRange DEF Indices
      <3> QED
        BY <3>1, <3>2 DEF RingOf
    <2> QED
      BY <2>1, <2>2
  <1>7. n - 1 \in 0..QueueSize /\ n - 1 < QueueSize
    BY <1>4, QueueConfig
  <1>8. Dist(p, p.writeIndex) = n - 1
    <2>1. CASE n < QueueSize
      <3>1. Dist(q, q.writeIndex) = n /\ q.writeIndex # i0
        BY <1>1, <1>4, <2>1, DistRange DEF RingOf
      <3> QED
        BY <1>1, <1>2, <1>5, <3>1
    <2>2. CASE n = QueueSize
      BY <1>1, <1>2, <1>5, <2>2, QueueConfig DEF RingOf
    <2> QED
      BY <2>1, <2>2, QueueConfig
  <1> QED
    BY <1>4, <1>6, <1>7, <1>8 DEF RingOf, p

LEMMA RingConsumed ==
    ASSUME NEW q, QueueOk(q), Ring(q), CanReceive(q)
    PROVE  Ring(Receive(q))
  <1>1. PICK n \in 0..QueueSize : RingOf(q, n)
    BY DEF Ring
  <1>2. n > 0 /\ RingOf(Receive(q), n - 1)
    BY <1>1, RingOfConsumed
  <1> QED
    BY <1>2, QueueConfig DEF Ring

----------------------------------------------------------------------------
(* So do the handlers above it.                                            *)

LEMMA RingAbort ==
    ASSUME NEW r, NEW q, Ring(q), ~r.resultReported, Abort(r, q),
           Holds(r, q) \/ ~r.queueSlotReserved
    PROVE  Ring(queue')
  <1>1. CASE Holds(r, q)
    <2>1. queue' = Indicate(q, "E_NOT_OK") /\ QueueOk(q) /\ q.reservationActive
      BY <1>1 DEF Holds, Abort
    <2> QED
      BY <2>1, RingGivenBack
  <1>2. CASE ~r.queueSlotReserved
    BY <1>2 DEF Abort
  <1> QED
    BY <1>1, <1>2

LEMMA RingComplete ==
    ASSUME NEW r, NEW q, Ring(q), FcOk(r), Holds(r, q), Complete(r, q)
    PROVE  Ring(queue')
  <1>1. queue' = Indicate(CopyIn(q, r.buffer), "E_OK")
    BY CompleteOk
  <1>2. r.buffer \in Data /\ QueueOk(q) /\ q.reservationActive
    BY DEF FcOk, Rx, Data, Holds
  <1> QED
    BY <1>1, <1>2, RingPublished

LEMMA RingStart ==
    ASSUME RxOk(rx), Owned(rx, queue), Ring(queue)
    PROVE  Ring(QueueForStart)
  BY RingGivenBack DEF QueueForStart, Owned, Holds

LEMMA RingSf ==
    ASSUME RxOk(rx), Owned(rx, queue), Ring(queue),
           NEW len \in Nat, NEW head \in Heads,
           SfIgnored(len) \/ SfNoSlot(len) \/ SfDelivered(len, head)
    PROVE  Ring(queue')
  <1>1. CASE SfIgnored(len) \/ SfNoSlot(len)
    BY <1>1, RingStart DEF SfIgnored, SfNoSlot
  <1>2. CASE SfDelivered(len, head)
    <2> DEFINE r == [ZeroRx EXCEPT !.total = len, !.received = len,
                         !.queueSlotReserved = TRUE, !.buffer = <<head>>]
               q == Reserve(QueueForStart, len)
    <2>1. /\ len \in 1..SfMax /\ ~StartBlocked
          /\ CanReserve(QueueForStart) /\ Complete(r, q)
      BY <1>2 DEF SfDelivered
    <2>2. len \in 0..MaxNsdu /\ <<head>> \in Data
      BY <2>1, WireConfig DEF Data
    <2>3. FcOk(r) /\ r.total = len /\ r.queueSlotReserved
      <3>1. r \in Rx
        BY <2>2, ZeroRxType DEF Rx, Data
      <3> QED
        BY <3>1 DEF FcOk, ZeroRx
    <2>4. /\ QueueOk(q) /\ q.reservationActive /\ Ring(q)
          /\ q.slots[q.reservedIndex].length = len
      BY <2>1, <2>2, StartOk, RingStart, Reserved, RingReserved
    <2> HIDE DEF r, q
    <2>5. Holds(r, q)
      BY <2>3, <2>4 DEF Holds
    <2> QED
      BY <2>1, <2>3, <2>4, <2>5, RingComplete
  <1> QED
    BY <1>1, <1>2

LEMMA RingFf ==
    ASSUME RxOk(rx), Owned(rx, queue), Ring(queue),
           NEW len \in Nat, NEW head \in Heads,
           \/ FfIgnored(len) \/ FfTooLong(len) \/ FfNoSlot(len)
           \/ FfAccepted(len, head)
    PROVE  Ring(queue')
  <1>1. CASE FfIgnored(len) \/ FfTooLong(len) \/ FfNoSlot(len)
    BY <1>1, RingStart DEF FfIgnored, FfTooLong, FfNoSlot
  <1>2. CASE FfAccepted(len, head)
    <2>1. /\ len \in FfMin..MaxNsdu /\ ~StartBlocked
          /\ CanReserve(QueueForStart) /\ queue' = Reserve(QueueForStart, len)
      BY <1>2 DEF FfAccepted
    <2>2. len \in 0..MaxNsdu
      BY <2>1, WireConfig DEF FfMin
    <2> QED
      BY <2>1, <2>2, StartOk, RingStart, RingReserved
  <1> QED
    BY <1>1, <1>2

LEMMA RingCf ==
    ASSUME RxOk(rx), Owned(rx, queue), Ring(queue), NEW sn \in SequenceNumbers,
           \/ CfIgnored(sn) \/ CfWrongSn(sn)
           \/ CfLast(sn, sn) \/ CfBlockEnd(sn, sn) \/ CfInBlock(sn, sn)
    PROVE  Ring(queue')
  <1> DEFINE r == Appended(sn)
  <1>1. CASE CfIgnored(sn) \/ CfInBlock(sn, sn)
    BY <1>1 DEF CfIgnored, CfInBlock
  <1>2. CASE CfWrongSn(sn)
    <2>1. rx.state = "WAIT_CF" /\ Abort(rx, queue)
      BY <1>2 DEF CfWrongSn
    <2> QED
      BY <2>1, RingAbort DEF Owned, RxOk, FcOk
  <1>3. CASE CfLast(sn, sn)
    <2>1. rx.state = "WAIT_CF" /\ Complete(r, queue)
      BY <1>3 DEF CfLast, CfExpected
    <2>2. FcOk(r) /\ Holds(r, queue)
      BY <2>1, AppendedOk
    <2> HIDE DEF r
    <2> QED
      BY <2>1, <2>2, RingComplete
  <1>4. CASE CfBlockEnd(sn, sn)
    <2>1. rx.state = "WAIT_CF"
      BY <1>4 DEF CfBlockEnd, CfExpected
    <2>2. ~FcBusy(r)
      BY <2>1, AppendedOk
    <2> QED
      BY <1>4, <2>2 DEF CfBlockEnd
  <1> QED
    BY <1>1, <1>2, <1>3, <1>4

LEMMA RingNext ==
    ASSUME IInv, Ring(queue), [Next]_vars
    PROVE  Ring(queue')
  <1>1. RxOk(rx) /\ Owned(rx, queue) /\ FcOk(rx)
    BY DEF IInv, RxOk
  <1>2. Holds(rx, queue) \/ ~rx.queueSlotReserved
    BY <1>1 DEF Owned
  <1>3. CASE SfReceived
    BY <1>1, <1>3, RingSf, FramesConfig DEF SfReceived
  <1>4. CASE FfReceived
    BY <1>1, <1>4, RingFf, FramesConfig DEF FfReceived
  <1>5. CASE CfReceived
    BY <1>1, <1>5, RingCf DEF CfReceived
  <1>6. CASE MainTimeoutAr \/ MainTimeoutCr
    <2>1. Abort(rx, queue)
      BY <1>6 DEF MainTimeoutAr, MainTimeoutCr, Main, NArTimeout, NCrTimeout
    <2> QED
      BY <1>1, <1>2, <2>1, RingAbort DEF FcOk
  <1>7. CASE MainFcExhausted
    <2> DEFINE r == Exhausted(rx)
    <2>1. Abort(r, queue)
      BY <1>7 DEF MainFcExhausted, Main, FcRequestExhausted
    <2>2. /\ r.resultReported = rx.resultReported /\ r.total = rx.total
          /\ r.queueSlotReserved = rx.queueSlotReserved
      BY <1>1 DEF Exhausted, FcOk, Rx
    <2> HIDE DEF r
    <2>3. Holds(r, queue) \/ ~r.queueSlotReserved
      BY <1>2, <2>2 DEF Holds
    <2> QED
      BY <1>1, <2>1, <2>2, <2>3, RingAbort DEF FcOk
  <1>8. CASE AppReceive
    BY <1>1, <1>8, RingConsumed DEF AppReceive, Owned, Holds
  <1>9. CASE MailboxBusy \/ NothingReceived \/ AppDone \/ AppSetDataRx \/ UNCHANGED vars
    BY <1>9 DEF MailboxBusy, NothingReceived, Receiving, AppDone, AppSetDataRx,
                SetDataRxEnabled, vars
  <1>10. CASE MainFcRetried \/ MainFcAccepted \/ MainIdle \/ ConfirmFc
    BY <1>10 DEF MainFcRetried, MainFcAccepted, MainIdle, Main, ConfirmFc,
                 FcRequestRetried, FcRequestAccepted, RxNothingDue,
                 FcConfirmedCts, FcConfirmedLate
  <1> QED
    BY <1>3, <1>4, <1>5, <1>6, <1>7, <1>8, <1>9, <1>10 DEF Next

LEMMA InitRing == Init => Ring(queue)
  <1> SUFFICES ASSUME Init PROVE Ring(queue)
    OBVIOUS
  <1>1. RingOf(queue, 0)
    BY QueueConfig
       DEF RingOf, Dist, Ready, Indices, Init, RxInit, EmptyQueue, FreeSlot
  <1> QED
    BY <1>1, QueueConfig DEF Ring

(* NodeApp_GetReadyCount counts READY slots anywhere, NodeApp_Receive reads*)
(* the one at the read index: whenever the count is not zero the read slot *)
(* is READY, so App_ProcessCanTpRx never calls System_Fail.                *)
THEOREM ReadyAtReadIndexAlways == Spec => []ReadyAtReadIndex
  <1>1. Spec => []Ring(queue)
    <2>1. Spec => []IInv
      BY SpecIInv
    <2>2. IInv /\ Ring(queue) /\ [Next]_vars => Ring(queue)'
      BY RingNext
    <2> QED
      BY <2>1, <2>2, InitRing, PTL DEF Spec
  <1>2. IInv /\ Ring(queue) => ReadyAtReadIndex
    <2> SUFFICES ASSUME IInv, Ring(queue), ReadySlots # {} PROVE CanReceive(queue)
      BY DEF ReadyAtReadIndex
    <2>1. queue \in Queue /\ queue.readIndex \in Indices
      BY DEF IInv, Owned, Holds, QueueOk, Queue
    <2>2. PICK n \in 0..QueueSize : RingOf(queue, n)
      BY DEF Ring
    <2>3. PICK i \in Indices : Ready(queue, i)
      BY DEF ReadySlots, Ready
    <2>4. Dist(queue, i) < n /\ Dist(queue, i) \in Nat
      BY <2>1, <2>2, <2>3, DistRange DEF RingOf, Indices
    <2>5. Dist(queue, queue.readIndex) = 0
      BY <2>1, DistRange
    <2>6. Ready(queue, queue.readIndex)
      BY <2>1, <2>2, <2>4, <2>5 DEF RingOf
    <2> QED
      BY <2>6 DEF Ready, CanReceive
  <1> QED
    BY <1>1, <1>2, SpecIInv, PTL

----------------------------------------------------------------------------
(* The refinement: the ring and the session implement NsduQueue.  First    *)
(* the ring: what is published goes to the end of the queue, what is taken *)
(* comes from its front, and nothing else changes what a reader will see.  *)

Message(slot) == [length |-> slot.length, data |-> slot.data]

\* The slot that is read as the i-th.
Nth(q, i) == (q.readIndex + i - 1) % QueueSize

FifoOf(q) ==
    [i \in 1..Cardinality({j \in Indices : q.slots[j].state = "READY"}) |->
        Message(q.slots[Nth(q, i)])]

Messages == [length : 0..MaxNsdu, data : Data]

LEMMA NthDist ==
    ASSUME NEW q, q \in Queue, NEW i \in 1..QueueSize
    PROVE  Nth(q, i) \in Indices /\ Dist(q, Nth(q, i)) = i - 1
  <1> DEFINE a == q.readIndex
             b == a + i - 1
  <1>1. a \in Nat /\ a < QueueSize /\ i \in Nat /\ i - 1 \in Nat /\ i - 1 < QueueSize
        /\ QueueSize \in Nat \ {0}
    BY QueueConfig DEF Queue, Indices
  <1>2. CASE b < QueueSize
    <2>1. b \in 0..(QueueSize - 1) /\ 0 * QueueSize + b = b
      BY <1>1, <1>2
    <2>2. Nth(q, i) = b
      <3> HIDE DEF a, b
      <3>1. (0 * QueueSize + b) % QueueSize = b
        BY <1>1, <2>1, ModUnique
      <3>2. b % QueueSize = b
        BY <2>1, <3>1
      <3> QED
        BY <3>2 DEF Nth, a, b
    <2> QED
      BY <1>1, <1>2, <2>2 DEF Dist, Indices
  <1>3. CASE b >= QueueSize
    <2> DEFINE c == b - QueueSize
    <2>1. c \in 0..(QueueSize - 1) /\ 1 * QueueSize + c = b
      BY <1>1, <1>3
    <2>2. Nth(q, i) = c
      <3> HIDE DEF a, b, c
      <3>1. (1 * QueueSize + c) % QueueSize = c
        BY <1>1, <2>1, ModUnique
      <3>2. b % QueueSize = c
        BY <2>1, <3>1
      <3> QED
        BY <3>2 DEF Nth, a, b
    <2> QED
      BY <1>1, <1>3, <2>2 DEF Dist, Indices
  <1> QED
    BY <1>1, <1>2, <1>3

\* A queue with n slots to read is a sequence of n messages.
LEMMA FifoIs ==
    ASSUME NEW q, q \in Queue, NEW n \in 0..QueueSize, RingOf(q, n)
    PROVE  /\ FifoOf(q) = [i \in 1..n |-> Message(q.slots[Nth(q, i)])]
           /\ FifoOf(q) \in Seq(Messages)
           /\ Len(FifoOf(q)) = n
  <1> DEFINE S == {j \in Indices : q.slots[j].state = "READY"}
             F == [i \in 1..n |-> Nth(q, i)]
  <1>1. n \in Nat /\ n <= QueueSize /\ QueueSize \in Nat
    BY QueueConfig
  <1>2. \A i \in 1..n : i \in 1..QueueSize /\ i - 1 < n
    BY <1>1
  <1>3. \A i \in 1..n : Nth(q, i) \in Indices /\ Dist(q, Nth(q, i)) = i - 1
    BY <1>2, NthDist
  <1>4. \A i \in 1..n : Nth(q, i) \in S
    BY <1>2, <1>3 DEF RingOf, Ready
  <1>5. F \in [1..n -> S]
    BY <1>4
  <1>6. \A a, b \in 1..n : F[a] = F[b] => a = b
    <2> SUFFICES ASSUME NEW a \in 1..n, NEW b \in 1..n, Nth(q, a) = Nth(q, b)
                 PROVE  a = b
      OBVIOUS
    <2>1. a - 1 = b - 1
      BY <1>3
    <2> QED
      BY <2>1
  <1>7. \A t \in S : \E s \in 1..n : F[s] = t
    <2> SUFFICES ASSUME NEW t \in S PROVE \E s \in 1..n : Nth(q, s) = t
      OBVIOUS
    <2> DEFINE d == Dist(q, t)
    <2>1. d \in Nat /\ d < n
      BY DistRange, QueueConfig DEF RingOf, Ready, Indices
    <2>2. d + 1 \in 1..n /\ (d + 1) - 1 = d
      BY <1>1, <2>1
    <2>3. Nth(q, d + 1) \in Indices /\ Dist(q, Nth(q, d + 1)) = d
      BY <1>3, <2>2
    <2>4. Nth(q, d + 1) = t
      BY <2>3, DistUnique
    <2> QED
      BY <2>2, <2>4
  <1>8. F \in Bijection(1..n, S)
    BY <1>5, <1>6, <1>7, Fun_IsBij
  <1>9. Cardinality(S) = n
    BY <1>1, <1>8, Fun_ExistsBij, FS_CountingElements
  <1>10. FifoOf(q) = [i \in 1..n |-> Message(q.slots[Nth(q, i)])]
    BY <1>9 DEF FifoOf
  <1>11. \A i \in 1..n : Message(q.slots[Nth(q, i)]) \in Messages
    BY <1>3 DEF Queue, Slot, Messages, Message, Data
  <1> QED
    BY <1>1, <1>10, <1>11

\* What every slot is to its reader stays: so does the queue.
LEMMA FifoSame ==
    ASSUME NEW q, q \in Queue, NEW p, p \in Queue, Ring(q),
           p.readIndex = q.readIndex, p.writeIndex = q.writeIndex,
           \A i \in Indices : Ready(p, i) <=> Ready(q, i),
           \A i \in Indices : Ready(q, i) => p.slots[i] = q.slots[i]
    PROVE  FifoOf(p) = FifoOf(q)
  <1>1. PICK n \in 0..QueueSize : RingOf(q, n)
    BY DEF Ring
  <1>2. RingOf(p, n)
    BY <1>1 DEF RingOf, Dist
  <1>3. \A i \in 1..n : Nth(p, i) = Nth(q, i)
    BY DEF Nth
  <1>4. \A i \in 1..n : p.slots[Nth(q, i)] = q.slots[Nth(q, i)]
    <2> TAKE i \in 1..n
    <2>1. i \in 1..QueueSize /\ i - 1 < n
      BY QueueConfig
    <2>2. Ready(q, Nth(q, i)) /\ Nth(q, i) \in Indices
      BY <1>1, <2>1, NthDist DEF RingOf
    <2> QED
      BY <2>2
  <1>5. /\ FifoOf(q) = [i \in 1..n |-> Message(q.slots[Nth(q, i)])]
        /\ FifoOf(p) = [i \in 1..n |-> Message(p.slots[Nth(p, i)])]
    BY <1>1, <1>2, FifoIs
  <1> QED
    BY <1>3, <1>4, <1>5

LEMMA FifoGivenBack ==
    ASSUME NEW q, QueueOk(q), Ring(q), q.reservationActive
    PROVE  FifoOf(Indicate(q, "E_NOT_OK")) = FifoOf(q)
  <1> DEFINE p == [q EXCEPT !.reservationActive = FALSE,
                            !.slots[q.reservedIndex] = FreeSlot]
  <1>1. Indicate(q, "E_NOT_OK") = p
    BY DEF Indicate
  <1>2. q \in Queue /\ q.reservedIndex \in Indices /\ p \in Queue
    BY <1>1, GivenBack DEF QueueOk, Queue
  <1>3. /\ p.readIndex = q.readIndex /\ p.writeIndex = q.writeIndex
        /\ p.slots = [q.slots EXCEPT ![q.reservedIndex] = FreeSlot]
    BY <1>2 DEF Queue
  <1>4. q.slots[q.reservedIndex].state = "RESERVED"
    BY <1>2 DEF QueueOk
  <1> HIDE DEF p
  <1>5. \A i \in Indices :
           /\ Ready(p, i) <=> Ready(q, i)
           /\ Ready(q, i) => p.slots[i] = q.slots[i]
    BY <1>2, <1>3, <1>4 DEF Ready, Queue, FreeSlot
  <1> QED
    BY <1>1, <1>2, <1>3, <1>5, FifoSame

LEMMA FifoReserved ==
    ASSUME NEW q, QueueOk(q), Ring(q), CanReserve(q), NEW len \in 0..MaxNsdu
    PROVE  FifoOf(Reserve(q, len)) = FifoOf(q)
  <1> DEFINE w == q.writeIndex
             slot == [q.slots[w] EXCEPT !.state = "RESERVED", !.length = len]
             p == Reserve(q, len)
  <1>1. q \in Queue /\ w \in Indices /\ q.slots[w] \in Slot /\ p \in Queue
    BY Reserved DEF QueueOk, Queue
  <1>2. slot.state = "RESERVED" /\ q.slots[w].state = "FREE"
    BY <1>1 DEF Slot, CanReserve
  <1>3. /\ p.slots = [q.slots EXCEPT ![w] = slot]
        /\ p.writeIndex = w /\ p.readIndex = q.readIndex
    BY <1>1 DEF Reserve, Queue
  <1> HIDE DEF p, slot
  <1>4. \A i \in Indices :
           /\ Ready(p, i) <=> Ready(q, i)
           /\ Ready(q, i) => p.slots[i] = q.slots[i]
    BY <1>1, <1>2, <1>3 DEF Ready, Queue
  <1> QED
    BY <1>1, <1>3, <1>4, FifoSame DEF p

\* A message is published behind the others, and there is room for it.
LEMMA FifoPublished ==
    ASSUME NEW q, QueueOk(q), Ring(q), q.reservationActive, NEW data \in Data
    PROVE  LET m == [length |-> q.slots[q.reservedIndex].length, data |-> data] IN
           /\ m \in Messages /\ FifoOf(q) \in Seq(Messages)
           /\ Len(FifoOf(q)) < QueueSize
           /\ FifoOf(Indicate(CopyIn(q, data), "E_OK")) = Append(FifoOf(q), m)
  <1> DEFINE w == q.reservedIndex
             slot == [q.slots[w] EXCEPT !.state = "READY", !.data = data]
             c == CopyIn(q, data)
             p == Indicate(c, "E_OK")
             m == [length |-> q.slots[w].length, data |-> data]
  <1>1. q \in Queue /\ w \in Indices /\ q.slots[w] \in Slot
    BY DEF QueueOk, Queue
  <1>2. slot.state = "READY" /\ Message(slot) = m /\ m \in Messages
    BY <1>1 DEF Slot, Message, Messages
  <1>3. /\ c.slots = [q.slots EXCEPT ![w] = slot]
        /\ c.reservedIndex = w /\ c.reservationActive /\ c.readIndex = q.readIndex
    BY <1>1 DEF CopyIn, Queue
  <1>4. c = [q EXCEPT !.slots = c.slots]
    BY <1>1, <1>3 DEF CopyIn, Queue
  <1>5. c.slots[w].state = "READY"
    BY <1>1, <1>2, <1>3 DEF Queue
  <1>6. p = [c EXCEPT !.reservationActive = FALSE, !.writeIndex = NextIndex(w)]
    BY <1>3, <1>5 DEF Indicate
  <1>7. p.slots = [q.slots EXCEPT ![w] = slot] /\ p.readIndex = q.readIndex
    BY <1>1, <1>3, <1>4, <1>6 DEF Queue
  <1>8. p \in Queue
    BY Published DEF QueueOk
  <1>9. PICK n \in 0..QueueSize : RingOf(q, n)
    BY DEF Ring
  <1>10. n < QueueSize /\ Dist(q, w) = n /\ RingOf(p, n + 1)
    BY <1>9, RingOfPublished
  <1> HIDE DEF p, c, slot, w, m
  <1>11. n \in Nat /\ n + 1 \in 0..QueueSize /\ n + 1 \in 1..QueueSize
         /\ (n + 1) - 1 = n
    BY <1>10, QueueConfig
  <1>12. /\ FifoOf(q) = [i \in 1..n |-> Message(q.slots[Nth(q, i)])]
         /\ FifoOf(q) \in Seq(Messages) /\ Len(FifoOf(q)) = n
         /\ FifoOf(p) = [i \in 1..(n + 1) |-> Message(p.slots[Nth(p, i)])]
         /\ FifoOf(p) \in Seq(Messages) /\ Len(FifoOf(p)) = n + 1
    BY <1>1, <1>9, <1>10, <1>11, <1>8, FifoIs
  <1>13. \A i \in 1..n : FifoOf(p)[i] = FifoOf(q)[i]
    <2> TAKE i \in 1..n
    <2>1. i \in 1..QueueSize /\ i \in 1..(n + 1) /\ i - 1 # n
      BY <1>11, QueueConfig
    <2>2. Nth(p, i) = Nth(q, i)
      BY <1>7 DEF Nth
    <2>3. Nth(q, i) \in Indices /\ Nth(q, i) # w
      BY <1>1, <1>10, <2>1, NthDist
    <2>4. p.slots[Nth(p, i)] = q.slots[Nth(q, i)]
      BY <1>1, <1>7, <2>2, <2>3 DEF Queue
    <2> QED
      BY <1>12, <2>1, <2>4
  <1>14. FifoOf(p)[n + 1] = m
    <2>1. Nth(q, n + 1) \in Indices /\ Dist(q, Nth(q, n + 1)) = n
      BY <1>1, <1>11, NthDist
    <2>2. Nth(p, n + 1) = w
      BY <1>1, <1>7, <1>10, <2>1, DistUnique DEF Nth
    <2>3. p.slots[w] = slot
      BY <1>1, <1>7 DEF Queue
    <2>4. n + 1 \in 1..(n + 1)
      BY <1>11
    <2> QED
      BY <1>2, <1>12, <2>2, <2>3, <2>4
  <1>15. FifoOf(p) = Append(FifoOf(q), m)
    <2> DEFINE s == FifoOf(q)
               t == FifoOf(p)
    <2>1. s \in Seq(Messages) /\ t \in Seq(Messages) /\ Len(s) = n /\ Len(t) = n + 1
          /\ (\A i \in 1..n : t[i] = s[i]) /\ t[n + 1] = m
      BY <1>12, <1>13, <1>14
    <2> HIDE DEF s, t
    <2>2. /\ Append(s, m) \in Seq(Messages) /\ Len(Append(s, m)) = n + 1
          /\ \A i \in 1..n : Append(s, m)[i] = s[i]
          /\ Append(s, m)[n + 1] = m
      BY <1>2, <2>1, AppendProperties
    <2>3. \A i \in 1..(n + 1) : i \in 1..n \/ i = n + 1
      BY <1>11
    <2>4. t = Append(s, m)
      BY <2>1, <2>2, <2>3, SeqEqual
    <2> QED
      BY <2>4 DEF s, t
  <1>16. m \in Messages
    BY <1>2
  <1> QED
    BY <1>10, <1>12, <1>15, <1>16 DEF m, w, p, c

\* The application takes the first message.
LEMMA FifoConsumed ==
    ASSUME NEW q, QueueOk(q), Ring(q), CanReceive(q)
    PROVE  FifoOf(q) # << >> /\ FifoOf(Receive(q)) = Tail(FifoOf(q))
  <1> DEFINE i0 == q.readIndex
             p == Receive(q)
  <1>1. q \in Queue /\ i0 \in Indices /\ p \in Queue
    BY Consumed DEF QueueOk, Queue
  <1>2. /\ p.slots = [q.slots EXCEPT ![i0] = FreeSlot]
        /\ p.readIndex = NextIndex(i0)
    BY <1>1 DEF Receive, Queue
  <1>3. PICK n \in 0..QueueSize : RingOf(q, n)
    BY DEF Ring
  <1>4. n > 0 /\ RingOf(p, n - 1)
    BY <1>3, RingOfConsumed
  <1> HIDE DEF p, i0
  <1>5. n \in Nat /\ n - 1 \in 0..QueueSize
    BY <1>4, QueueConfig
  <1>6. /\ FifoOf(q) = [i \in 1..n |-> Message(q.slots[Nth(q, i)])]
        /\ FifoOf(q) \in Seq(Messages) /\ Len(FifoOf(q)) = n
        /\ FifoOf(p) = [i \in 1..(n - 1) |-> Message(p.slots[Nth(p, i)])]
        /\ FifoOf(p) \in Seq(Messages) /\ Len(FifoOf(p)) = n - 1
    BY <1>1, <1>3, <1>4, <1>5, FifoIs
  <1>7. \A i \in 1..(n - 1) : FifoOf(p)[i] = FifoOf(q)[i + 1]
    <2> TAKE i \in 1..(n - 1)
    <2>1. /\ i \in 1..QueueSize /\ i + 1 \in 1..QueueSize /\ i + 1 \in 1..n
          /\ i \in Nat /\ i # 0 /\ (i + 1) - 1 = i
      BY <1>5, QueueConfig
    <2> DEFINE a == Nth(q, i + 1)
               b == Nth(p, i)
    <2>2. /\ a \in Indices /\ Dist(q, a) = i
          /\ b \in Indices /\ Dist(p, b) = i - 1
      BY <1>1, <2>1, NthDist
    <2> HIDE DEF a, b
    <2>3. a # i0
      BY <1>1, <2>1, <2>2, DistRange DEF i0
    <2>4. Dist(p, a) = i - 1
      BY <1>1, <1>2, <2>2, <2>3, DistMoved DEF i0
    <2>5. b = a
      BY <1>1, <2>2, <2>4, DistUnique
    <2>6. p.slots[b] = q.slots[a]
      BY <1>1, <1>2, <2>2, <2>3, <2>5 DEF Queue
    <2> QED
      BY <1>6, <2>1, <2>6 DEF a, b
  <1>8. FifoOf(p) = Tail(FifoOf(q)) /\ FifoOf(q) # << >>
    <2> DEFINE s == FifoOf(q)
               t == FifoOf(p)
    <2>1. s \in Seq(Messages) /\ t \in Seq(Messages) /\ Len(s) = n /\ Len(t) = n - 1
          /\ \A i \in 1..(n - 1) : t[i] = s[i + 1]
      BY <1>6, <1>7
    <2> HIDE DEF s, t
    <2>2. s # << >>
      BY <1>4, <1>5, <2>1
    <2>3. /\ Tail(s) \in Seq(Messages) /\ Len(Tail(s)) = n - 1
          /\ \A i \in 1..(n - 1) : Tail(s)[i] = s[i + 1]
      BY <2>1, <2>2, HeadTailProperties
    <2>4. t = Tail(s)
      BY <2>1, <2>3, SeqEqual
    <2> QED
      BY <2>2, <2>4 DEF s, t
  <1> QED
    BY <1>8 DEF p

----------------------------------------------------------------------------
(* Then the session: the buffer holds the head and every CF since, so what *)
(* it publishes is a whole N-SDU.                                          *)

InSequence(parts) ==
    /\ parts[1] \in Heads
    /\ \A i \in 2..Len(parts) : parts[i] = (i - 1) % SnModulus

\* So many parts have come, and the next sequence number follows them.
Reassembles(r) ==
    /\ Len(r.buffer) > 0
    /\ InSequence(r.buffer)
    /\ r.received = Offset(Len(r.buffer))
    /\ r.expectedSN = Len(r.buffer) % SnModulus

Assembly(r) == r.state # "IDLE" => Reassembles(r)

LEMMA WithFcKeeps ==
    ASSUME NEW r, r \in Rx, NEW status \in FlowStatus
    PROVE  /\ WithFc(r, status).buffer = r.buffer
           /\ WithFc(r, status).received = r.received
           /\ WithFc(r, status).expectedSN = r.expectedSN
  BY DEF WithFc, Rx

\* The first part of a segmented N-SDU.
LEMMA FfReassembles ==
    ASSUME NEW len \in FfMin..MaxNsdu, NEW head \in Heads
    PROVE  LET r == [ZeroRx EXCEPT !.total = len, !.received = FfPayload,
                         !.expectedSN = 1, !.queueSlotReserved = TRUE,
                         !.buffer = <<head>>]
           IN  r \in Rx /\ Reassembles(r)
  <1> DEFINE r == [ZeroRx EXCEPT !.total = len, !.received = FfPayload,
                       !.expectedSN = 1, !.queueSlotReserved = TRUE,
                       !.buffer = <<head>>]
  <1>1. /\ len \in 0..MaxNsdu /\ <<head>> \in Data /\ FfPayload \in 0..MaxNsdu
        /\ 1 \in SequenceNumbers
    BY WireConfig DEF Data, FfMin, SequenceNumbers
  <1>2. r \in Rx
    BY <1>1, ZeroRxType DEF Rx, Data
  <1>3. r.buffer = <<head>> /\ r.received = FfPayload /\ r.expectedSN = 1
    BY DEF ZeroRx
  <1> HIDE DEF r
  <1>4. Offset(1) = FfPayload
    BY WireConfig DEF Offset
  <1>5. 1 % SnModulus = 1
    <2>1. 1 \in 0..(SnModulus - 1) /\ 0 * SnModulus + 1 = 1
      BY WireConfig
    <2>2. (0 * SnModulus + 1) % SnModulus = 1
      BY <2>1, ModUnique, WireConfig
    <2> QED
      BY <2>1, <2>2
  <1>6. Len(<<head>>) = 1 /\ <<head>>[1] = head
    OBVIOUS
  <1>7. InSequence(<<head>>)
    BY <1>6 DEF InSequence
  <1>8. Reassembles(r)
    BY <1>3, <1>4, <1>5, <1>6, <1>7 DEF Reassembles
  <1> QED
    BY <1>2, <1>8 DEF r

LEMMA PartInSequence ==
    ASSUME NEW parts \in Data, Len(parts) > 0, InSequence(parts),
           NEW sn \in SequenceNumbers, sn = Len(parts) % SnModulus
    PROVE  /\ InSequence(Append(parts, sn))
           /\ Len(Append(parts, sn)) = Len(parts) + 1
  <1> DEFINE n == Len(parts)
             all == Append(parts, sn)
  <1>1. n \in Nat /\ n > 0
    BY DEF Data
  <1>2. /\ Len(all) = n + 1
        /\ \A i \in 1..n : all[i] = parts[i]
        /\ all[n + 1] = sn
    BY AppendProperties DEF Data
  <1> HIDE DEF n, all
  <1>3. 1 \in 1..n /\ all[1] \in Heads
    BY <1>1, <1>2 DEF InSequence
  <1>4. \A i \in 2..(n + 1) : all[i] = (i - 1) % SnModulus
    <2> TAKE i \in 2..(n + 1)
    <2>1. CASE i \in 2..n
      <3>1. i \in 1..n
        BY <1>1, <2>1
      <3> QED
        BY <1>2, <2>1, <3>1 DEF InSequence, n
    <2>2. CASE i = n + 1
      <3>1. i - 1 = n
        BY <1>1, <2>2
      <3> QED
        BY <1>2, <2>2, <3>1 DEF n
    <2> QED
      BY <1>1, <2>1, <2>2
  <1> QED
    BY <1>2, <1>3, <1>4 DEF InSequence, n, all

\* The expected CF goes on with the N-SDU or completes it.
LEMMA AppendedReassembles ==
    ASSUME RxOk(rx), Owned(rx, queue), Assembly(rx),
           NEW sn \in SequenceNumbers, CfExpected(sn)
    PROVE  LET r == Appended(sn) IN
           /\ InSequence(r.buffer)
           /\ r.received = r.total => Len(r.buffer) = SegmentCount(r.total)
           /\ r.received # r.total => Reassembles(r)
  <1> DEFINE r == Appended(sn)
             c == Len(rx.buffer)
             left == rx.total - rx.received
             received == rx.received + CfBytes(left)
             buffer == Append(rx.buffer, sn)
             next == (rx.expectedSN + 1) % SnModulus
  <1>1. /\ rx.state = "WAIT_CF" /\ rx \in Rx /\ rx.buffer \in Data
        /\ rx.total \in FfMin..MaxNsdu /\ rx.received < rx.total
        /\ rx.received \in 0..MaxNsdu /\ sn = rx.expectedSN
    BY DEF CfExpected, RxOk, FcOk, SessionOk, Rx, Data
  <1>2. /\ c \in Nat /\ c > 0 /\ InSequence(rx.buffer)
        /\ rx.received = Offset(c) /\ sn = c % SnModulus
    BY <1>1 DEF Assembly, Reassembles, Data
  <1>3. /\ r.total = rx.total /\ r.received = received /\ r.buffer = buffer
        /\ r.expectedSN = next
    <2>1. r.total = rx.total /\ r.received = received /\ r.buffer = buffer
      BY <1>1, AppendedOk
    <2>2. r.expectedSN = next
      BY <1>1 DEF Appended, Rx
    <2> QED
      BY <2>1, <2>2
  <1>4. InSequence(buffer) /\ Len(buffer) = c + 1
    BY <1>1, <1>2, PartInSequence
  <1>5. next = (c + 1) % SnModulus
    <2>1. rx.expectedSN = c % SnModulus
      BY <1>1, <1>2
    <2>2. next = ((c % SnModulus) + 1) % SnModulus
      BY <2>1
    <2> HIDE DEF c, next
    <2>3. SnModulus \in Nat /\ SnModulus > 1
      BY WireConfig
    <2>4. ((c % SnModulus) + 1) % SnModulus = (c + 1) % SnModulus
      BY <1>2, <2>3, ModSuccessor
    <2> QED
      BY <2>2, <2>4
  <1>6. /\ CfBytes(left) = IF left < CfPayload THEN left ELSE CfPayload
        /\ left \in Nat \ {0} /\ CfPayload \in Nat \ {0}
    BY <1>1, WireConfig DEF CfBytes, FfMin
  <1>7. rx.total \in 1..MaxNsdu /\ rx.total > SfMax /\ rx.total \in Nat
        /\ rx.received \in Nat
    BY <1>1, WireConfig DEF FfMin
  <1> HIDE DEF r, c, left, received, buffer, next
  <1>8. ASSUME received = rx.total PROVE c + 1 = SegmentCount(rx.total)
    <2>1. rx.total - Offset(c) <= CfPayload
      BY <1>2, <1>6, <1>7, <1>8 DEF left, received
    <2> QED
      BY <1>1, <1>2, <1>7, <2>1, CountExact, WireConfig
  <1>9. ASSUME received # rx.total PROVE received = Offset(c + 1)
    <2>1. received = rx.received + CfPayload
      BY <1>6, <1>7, <1>9 DEF left, received
    <2> QED
      BY <1>2, <2>1, OffsetNext
  <1>10. Len(buffer) > 0
    BY <1>2, <1>4
  <1> QED
    BY <1>3, <1>4, <1>5, <1>8, <1>9, <1>10 DEF r, Reassembles

LEMMA AssemblyFrames ==
    ASSUME RxOk(rx), Owned(rx, queue), Assembly(rx), nowMs \in Clock,
           SfReceived \/ FfReceived \/ CfReceived
    PROVE  Assembly(rx')
  <1>1. CASE SfReceived
    <2>1. PICK len \in Lengths, head \in Heads :
             SfIgnored(len) \/ SfNoSlot(len) \/ SfDelivered(len, head)
      BY <1>1 DEF SfReceived
    <2>2. CASE SfIgnored(len)
      BY <2>2 DEF SfIgnored
    <2>3. CASE SfNoSlot(len)
      BY <2>3, StartOk DEF SfNoSlot, Assembly
    <2>4. CASE SfDelivered(len, head)
      BY ZenonT(30), <2>4 DEF SfDelivered, Complete, Abort, ResetRxSession, ZeroRx, Assembly
    <2> QED
      BY <2>1, <2>2, <2>3, <2>4
  <1>2. CASE FfReceived
    <2>1. PICK len \in Lengths, head \in Heads :
             \/ FfIgnored(len) \/ FfTooLong(len) \/ FfNoSlot(len)
             \/ FfAccepted(len, head)
      BY <1>2 DEF FfReceived
    <2>2. CASE FfIgnored(len)
      BY <2>2 DEF FfIgnored
    <2>3. CASE FfTooLong(len)
      <3>1. rx' = WithFc(rx, "OVFLW") /\ rx.state = "IDLE" /\ ~FcBusy(rx)
        BY <2>3 DEF FfTooLong
      <3>2. rx'.state = "IDLE"
        BY <3>1, OverflowOk DEF RxOk, FcOk
      <3> QED
        BY <3>2 DEF Assembly
    <2>4. CASE FfNoSlot(len)
      <3>1. rx' = WithFc(RxForStart, "OVFLW") /\ ~StartBlocked
        BY <2>4 DEF FfNoSlot
      <3>2. rx'.state = "IDLE"
        BY <3>1, StartOk, OverflowOk DEF RxOk, FcOk
      <3> QED
        BY <3>2 DEF Assembly
    <2>5. CASE FfAccepted(len, head)
      <3> DEFINE r == [ZeroRx EXCEPT !.total = len, !.received = FfPayload,
                           !.expectedSN = 1, !.queueSlotReserved = TRUE,
                           !.buffer = <<head>>]
      <3>1. rx' = WithFc(r, "CTS") /\ len \in FfMin..MaxNsdu
        BY <2>5 DEF FfAccepted
      <3>2. r \in Rx /\ Reassembles(r)
        BY <3>1, FfReassembles
      <3> HIDE DEF r
      <3>3. Reassembles(rx')
        BY <3>1, <3>2, WithFcKeeps DEF Reassembles, FlowStatus
      <3> QED
        BY <3>3 DEF Assembly
    <2> QED
      BY <2>1, <2>2, <2>3, <2>4, <2>5
  <1>3. CASE CfReceived
    <2>1. PICK sn \in SequenceNumbers :
             \/ CfIgnored(sn) \/ CfWrongSn(sn)
             \/ CfLast(sn, sn) \/ CfBlockEnd(sn, sn) \/ CfInBlock(sn, sn)
      BY <1>3 DEF CfReceived
    <2> DEFINE r == Appended(sn)
    <2>2. CASE CfIgnored(sn)
      BY <2>2 DEF CfIgnored
    <2>3. CASE CfWrongSn(sn) \/ CfLast(sn, sn)
      BY <2>3 DEF CfWrongSn, CfLast, Complete, Abort, ResetRxSession, ZeroRx, Assembly
    <2>4. CASE CfBlockEnd(sn, sn)
      <3>1. CfExpected(sn) /\ r.received # rx.total /\ rx.state = "WAIT_CF"
        BY <2>4 DEF CfBlockEnd, CfExpected
      <3>2. r \in Rx /\ r.total = rx.total /\ ~FcBusy(r)
        BY <3>1, AppendedOk DEF FcOk
      <3>3. Reassembles(r)
        BY <3>1, <3>2, AppendedReassembles
      <3>4. rx' = WithFc(r, "CTS")
        BY <2>4, <3>2 DEF CfBlockEnd
      <3> HIDE DEF r
      <3>5. Reassembles(rx')
        BY <3>2, <3>3, <3>4, WithFcKeeps DEF Reassembles, FlowStatus
      <3> QED
        BY <3>5 DEF Assembly
    <2>5. CASE CfInBlock(sn, sn)
      <3>1. CfExpected(sn) /\ r.received # rx.total /\ rx.state = "WAIT_CF"
        BY <2>5 DEF CfInBlock, CfExpected
      <3>2. r \in Rx /\ r.total = rx.total
        BY <3>1, AppendedOk DEF FcOk
      <3>3. Reassembles(r)
        BY <3>1, <3>2, AppendedReassembles
      <3>4. rx' = [r EXCEPT !.nCrStartMs = nowMs, !.nCrActive = TRUE]
        BY <2>5 DEF CfInBlock
      <3> HIDE DEF r
      <3>5. Reassembles(rx')
        BY <3>2, <3>3, <3>4 DEF Reassembles, Rx
      <3> QED
        BY <3>5 DEF Assembly
    <2> QED
      BY <2>1, <2>2, <2>3, <2>4, <2>5
  <1> QED
    BY <1>1, <1>2, <1>3

LEMMA AssemblyNext ==
    ASSUME IInv, Assembly(rx), [Next]_vars
    PROVE  Assembly(rx')
  <1>1. RxOk(rx) /\ Owned(rx, queue) /\ rx \in Rx /\ nowMs \in Clock
    BY DEF IInv, RxOk, FcOk
  <1>2. CASE SfReceived \/ FfReceived \/ CfReceived
    BY <1>1, <1>2, AssemblyFrames
  <1>3. CASE MainTimeoutAr \/ MainTimeoutCr \/ MainFcExhausted
    <2>1. rx'.state = "IDLE"
      BY ZenonT(30), <1>3 DEF MainTimeoutAr, MainTimeoutCr, MainFcExhausted, Main, NArTimeout,
                  NCrTimeout, FcRequestExhausted, Abort, ResetRxSession, ZeroRx
    <2> QED
      BY <2>1 DEF Assembly
  <1>4. CASE MainFcRetried \/ MainFcAccepted \/ ConfirmFc
    <2>1. /\ rx'.buffer = rx.buffer /\ rx'.received = rx.received
          /\ rx'.expectedSN = rx.expectedSN
          /\ rx'.state # "IDLE" => rx.state # "IDLE"
      <3>1. CASE MainFcRetried \/ MainFcAccepted
        BY <1>1, <3>1 DEF MainFcRetried, MainFcAccepted, Main, FcRequestRetried,
                          FcRequestAccepted, Rx
      <3>2. CASE ConfirmFc
        <4>1. FcDone(rx) \in Rx /\ FcDone(rx).buffer = rx.buffer
              /\ FcDone(rx).received = rx.received /\ FcDone(rx).state = rx.state
              /\ FcDone(rx).expectedSN = rx.expectedSN
          BY <1>1 DEF FcDone, Rx
        <4>2. CASE FcConfirmedCts
          BY <4>1, <4>2 DEF FcConfirmedCts, OpensBlock, Rx
        <4>3. CASE FcConfirmedLate
          BY <4>1, <4>3 DEF FcConfirmedLate
        <4> QED
          BY <3>2, <4>2, <4>3 DEF ConfirmFc
      <3> QED
        BY <1>4, <3>1, <3>2
    <2> QED
      BY <2>1 DEF Assembly, Reassembles
  <1>5. CASE \/ MailboxBusy \/ NothingReceived \/ MainIdle
             \/ AppReceive \/ AppSetDataRx \/ AppDone \/ UNCHANGED vars
    BY <1>5 DEF MailboxBusy, NothingReceived, MainIdle, Main, RxNothingDue,
                AppReceive, AppSetDataRx, SetDataRxEnabled, AppDone, vars
  <1> QED
    BY <1>2, <1>3, <1>4, <1>5 DEF Next

----------------------------------------------------------------------------
(* Together: every step of the node is a step of NsduQueue or none.        *)

\* A whole N-SDU goes to the end of a queue that has room for it.
Grows(before, after) ==
    \E m \in Messages :
        /\ WholeNsdu(m)
        /\ before \in Seq(Messages) /\ Len(before) < QueueSize
        /\ after = Append(before, m)

LEMMA ReadyFifoIs ==
    /\ ReadyFifo = FifoOf(queue)
    /\ ReadyFifo' = FifoOf(queue')
  BY DEF ReadyFifo, ReadySlots, FifoOf, Message, Nth

LEMMA GrowsDelivers ==
    ASSUME Grows(FifoOf(queue), FifoOf(queue'))
    PROVE  Abstract!Deliver
  <1> DEFINE s == FifoOf(queue)
             t == FifoOf(queue')
  <1>1. PICK m \in Messages :
           /\ WholeNsdu(m) /\ s \in Seq(Messages) /\ Len(s) < QueueSize
           /\ t = Append(s, m)
    BY DEF Grows
  <1>2. ReadyFifo = s /\ ReadyFifo' = t
    BY ReadyFifoIs
  <1> HIDE DEF s, t
  <1>3. Len(s) \in Nat /\ Len(t) = Len(s) + 1 /\ t[Len(t)] = m
    BY <1>1, AppendProperties
  <1>4. SubSeq(t, 1, Len(s)) = s
    <2> DEFINE n == Len(s)
               u == SubSeq(t, 1, n)
    <2>1. \A i \in 1..n : t[i] = s[i] /\ s[i] \in Messages
      BY <1>1, AppendProperties
    <2>2. n \in Int /\ 1 \in Int /\ n - 1 + 1 = n /\ (1 <= n => n >= 1)
      BY <1>3
    <2>3. /\ u \in Seq(Messages)
          /\ Len(u) = IF 1 <= n THEN n - 1 + 1 ELSE 0
          /\ \A i \in 1..(n - 1 + 1) : u[i] = t[1 + i - 1]
      BY <2>1, <2>2, SubSeqProperties
    <2>4. Len(u) = n
      BY <1>3, <2>3
    <2>5. \A i \in 1..n : u[i] = s[i]
      <3> TAKE i \in 1..n
      <3>1. i \in 1..(n - 1 + 1) /\ 1 + i - 1 = i
        BY <1>3
      <3> QED
        BY <2>1, <2>3, <3>1
    <2> HIDE DEF u, n
    <2>6. Len(u) = Len(s) /\ \A i \in 1..Len(u) : u[i] = s[i]
      BY <2>4, <2>5 DEF n
    <2>7. u = s
      BY <1>1, <2>3, <2>6, SeqEqual
    <2> QED
      BY <2>7 DEF u, n
  <1> QED
    BY <1>1, <1>2, <1>3, <1>4 DEF Abstract!Deliver

LEMMA FifoAbort ==
    ASSUME NEW r, NEW q, Ring(q), ~r.resultReported, Abort(r, q),
           Holds(r, q) \/ ~r.queueSlotReserved
    PROVE  FifoOf(queue') = FifoOf(q)
  <1>1. CASE Holds(r, q)
    <2>1. queue' = Indicate(q, "E_NOT_OK") /\ QueueOk(q) /\ q.reservationActive
      BY <1>1 DEF Holds, Abort
    <2> QED
      BY <2>1, FifoGivenBack
  <1>2. CASE ~r.queueSlotReserved
    BY <1>2 DEF Abort
  <1> QED
    BY <1>1, <1>2

LEMMA FifoComplete ==
    ASSUME NEW r, NEW q, Ring(q), FcOk(r), Holds(r, q), Complete(r, q),
           Len(r.buffer) = SegmentCount(r.total), InSequence(r.buffer)
    PROVE  Grows(FifoOf(q), FifoOf(queue'))
  <1> DEFINE m == [length |-> r.total, data |-> r.buffer]
  <1>1. queue' = Indicate(CopyIn(q, r.buffer), "E_OK")
    BY CompleteOk
  <1>2. /\ r.buffer \in Data /\ QueueOk(q) /\ q.reservationActive
        /\ q.slots[q.reservedIndex].length = r.total
    BY DEF FcOk, Rx, Data, Holds
  <1>3. /\ m \in Messages /\ FifoOf(q) \in Seq(Messages)
        /\ Len(FifoOf(q)) < QueueSize
        /\ FifoOf(queue') = Append(FifoOf(q), m)
    BY <1>1, <1>2, FifoPublished
  <1>4. WholeNsdu(m)
    BY DEF WholeNsdu, InSequence
  <1> QED
    BY <1>3, <1>4 DEF Grows

LEMMA FifoStart ==
    ASSUME RxOk(rx), Owned(rx, queue), Ring(queue)
    PROVE  FifoOf(QueueForStart) = FifoOf(queue)
  BY FifoGivenBack DEF QueueForStart, Owned, Holds

FifoStep ==
    FifoOf(queue') = FifoOf(queue) \/ Grows(FifoOf(queue), FifoOf(queue'))

LEMMA FifoSf ==
    ASSUME RxOk(rx), Owned(rx, queue), Ring(queue),
           NEW len \in Nat, NEW head \in Heads,
           SfIgnored(len) \/ SfNoSlot(len) \/ SfDelivered(len, head)
    PROVE  FifoStep
  <1>1. CASE SfIgnored(len) \/ SfNoSlot(len)
    BY <1>1, FifoStart DEF SfIgnored, SfNoSlot, FifoStep
  <1>2. CASE SfDelivered(len, head)
    <2> DEFINE r == [ZeroRx EXCEPT !.total = len, !.received = len,
                         !.queueSlotReserved = TRUE, !.buffer = <<head>>]
               q == Reserve(QueueForStart, len)
    <2>1. /\ len \in 1..SfMax /\ ~StartBlocked
          /\ CanReserve(QueueForStart) /\ Complete(r, q)
      BY <1>2 DEF SfDelivered
    <2>2. len \in 0..MaxNsdu /\ <<head>> \in Data /\ len <= SfMax
      BY <2>1, WireConfig DEF Data
    <2>3. FcOk(r) /\ r.total = len /\ r.queueSlotReserved /\ r.buffer = <<head>>
      <3>1. r \in Rx
        BY <2>2, ZeroRxType DEF Rx, Data
      <3> QED
        BY <3>1 DEF FcOk, ZeroRx
    <2>4. /\ QueueOk(q) /\ q.reservationActive /\ Ring(q)
          /\ q.slots[q.reservedIndex].length = len
          /\ FifoOf(q) = FifoOf(queue)
      BY <2>1, <2>2, StartOk, RingStart, Reserved, RingReserved, FifoStart, FifoReserved
    <2> HIDE DEF r, q
    <2>5. Holds(r, q)
      BY <2>3, <2>4 DEF Holds
    <2>6. Len(r.buffer) = SegmentCount(r.total)
      BY <2>2, <2>3 DEF SegmentCount
    <2>7. InSequence(r.buffer)
      <3>1. Len(<<head>>) = 1 /\ <<head>>[1] = head
        OBVIOUS
      <3> QED
        BY <2>3, <3>1 DEF InSequence
    <2> QED
      BY <2>1, <2>3, <2>4, <2>5, <2>6, <2>7, FifoComplete DEF FifoStep
  <1> QED
    BY <1>1, <1>2

LEMMA FifoFf ==
    ASSUME RxOk(rx), Owned(rx, queue), Ring(queue),
           NEW len \in Nat, NEW head \in Heads,
           \/ FfIgnored(len) \/ FfTooLong(len) \/ FfNoSlot(len)
           \/ FfAccepted(len, head)
    PROVE  FifoStep
  <1>1. CASE FfIgnored(len) \/ FfTooLong(len) \/ FfNoSlot(len)
    BY <1>1, FifoStart DEF FfIgnored, FfTooLong, FfNoSlot, FifoStep
  <1>2. CASE FfAccepted(len, head)
    <2>1. /\ len \in FfMin..MaxNsdu /\ ~StartBlocked
          /\ CanReserve(QueueForStart) /\ queue' = Reserve(QueueForStart, len)
      BY <1>2 DEF FfAccepted
    <2>2. len \in 0..MaxNsdu
      BY <2>1, WireConfig DEF FfMin
    <2> QED
      BY <2>1, <2>2, StartOk, RingStart, FifoStart, FifoReserved DEF FifoStep
  <1> QED
    BY <1>1, <1>2

LEMMA FifoCf ==
    ASSUME RxOk(rx), Owned(rx, queue), Ring(queue), Assembly(rx),
           NEW sn \in SequenceNumbers,
           \/ CfIgnored(sn) \/ CfWrongSn(sn)
           \/ CfLast(sn, sn) \/ CfBlockEnd(sn, sn) \/ CfInBlock(sn, sn)
    PROVE  FifoStep
  <1> DEFINE r == Appended(sn)
  <1>1. CASE CfIgnored(sn) \/ CfInBlock(sn, sn)
    BY <1>1 DEF CfIgnored, CfInBlock, FifoStep
  <1>2. CASE CfWrongSn(sn)
    <2>1. rx.state = "WAIT_CF" /\ Abort(rx, queue)
      BY <1>2 DEF CfWrongSn
    <2> QED
      BY <2>1, FifoAbort DEF Owned, RxOk, FcOk, FifoStep
  <1>3. CASE CfLast(sn, sn)
    <2>1. /\ rx.state = "WAIT_CF" /\ CfExpected(sn)
          /\ r.received = rx.total /\ Complete(r, queue)
      BY <1>3 DEF CfLast, CfExpected
    <2>2. FcOk(r) /\ Holds(r, queue) /\ r.total = rx.total
      BY <2>1, AppendedOk
    <2>3. Len(r.buffer) = SegmentCount(r.total) /\ InSequence(r.buffer)
      BY <2>1, <2>2, AppendedReassembles
    <2> HIDE DEF r
    <2> QED
      BY <2>1, <2>2, <2>3, FifoComplete DEF FifoStep
  <1>4. CASE CfBlockEnd(sn, sn)
    <2>1. rx.state = "WAIT_CF"
      BY <1>4 DEF CfBlockEnd, CfExpected
    <2>2. ~FcBusy(r)
      BY <2>1, AppendedOk
    <2> QED
      BY <1>4, <2>2 DEF CfBlockEnd, FifoStep
  <1> QED
    BY <1>1, <1>2, <1>3, <1>4

\* Whatever is not the application taking a message.
LEMMA FifoNext ==
    ASSUME IInv, Ring(queue), Assembly(rx), [Next]_vars, ~AppReceive
    PROVE  FifoStep
  <1>1. RxOk(rx) /\ Owned(rx, queue) /\ FcOk(rx)
    BY DEF IInv, RxOk
  <1>2. Holds(rx, queue) \/ ~rx.queueSlotReserved
    BY <1>1 DEF Owned
  <1>3. CASE SfReceived \/ FfReceived \/ CfReceived
    <2>1. CASE SfReceived
      BY <1>1, <2>1, FifoSf, FramesConfig DEF SfReceived
    <2>2. CASE FfReceived
      BY <1>1, <2>2, FifoFf, FramesConfig DEF FfReceived
    <2>3. CASE CfReceived
      BY <1>1, <2>3, FifoCf DEF CfReceived
    <2> QED
      BY <1>3, <2>1, <2>2, <2>3
  <1>4. CASE MainTimeoutAr \/ MainTimeoutCr
    <2>1. Abort(rx, queue)
      BY <1>4 DEF MainTimeoutAr, MainTimeoutCr, Main, NArTimeout, NCrTimeout
    <2> QED
      BY <1>1, <1>2, <2>1, FifoAbort DEF FcOk, FifoStep
  <1>5. CASE MainFcExhausted
    <2> DEFINE r == Exhausted(rx)
    <2>1. Abort(r, queue)
      BY <1>5 DEF MainFcExhausted, Main, FcRequestExhausted
    <2>2. /\ r.resultReported = rx.resultReported /\ r.total = rx.total
          /\ r.queueSlotReserved = rx.queueSlotReserved
      BY <1>1 DEF Exhausted, FcOk, Rx
    <2> HIDE DEF r
    <2>3. Holds(r, queue) \/ ~r.queueSlotReserved
      BY <1>2, <2>2 DEF Holds
    <2> QED
      BY <1>1, <2>1, <2>2, <2>3, FifoAbort DEF FcOk, FifoStep
  <1>6. CASE \/ MailboxBusy \/ NothingReceived \/ AppDone \/ AppSetDataRx
             \/ UNCHANGED vars
    BY <1>6 DEF MailboxBusy, NothingReceived, Receiving, AppDone, AppSetDataRx,
                SetDataRxEnabled, vars, FifoStep
  <1>7. CASE MainFcRetried \/ MainFcAccepted \/ MainIdle \/ ConfirmFc
    BY <1>7 DEF MainFcRetried, MainFcAccepted, MainIdle, Main, ConfirmFc,
                FcRequestRetried, FcRequestAccepted, RxNothingDue,
                FcConfirmedCts, FcConfirmedLate, FifoStep
  <1> QED
    BY <1>3, <1>4, <1>5, <1>6, <1>7 DEF Next

LEMMA RefinedNext ==
    ASSUME IInv, Ring(queue), Assembly(rx), [Next]_vars
    PROVE  [Abstract!Next]_ReadyFifo
  <1>1. CASE AppReceive
    <2>1. QueueOk(queue) /\ CanReceive(queue) /\ queue' = Receive(queue)
      BY <1>1 DEF AppReceive, IInv, Owned, Holds
    <2>2. FifoOf(queue) # << >> /\ FifoOf(queue') = Tail(FifoOf(queue))
      BY <2>1, FifoConsumed
    <2>3. Abstract!Consume
      BY <2>2, ReadyFifoIs DEF Abstract!Consume
    <2> QED
      BY <2>3 DEF Abstract!Next
  <1>2. CASE FifoOf(queue') = FifoOf(queue)
    BY <1>2, ReadyFifoIs
  <1>3. CASE Grows(FifoOf(queue), FifoOf(queue'))
    BY <1>3, GrowsDelivers DEF Abstract!Next
  <1> QED
    BY <1>1, <1>2, <1>3, FifoNext DEF FifoStep

LEMMA InitRefined == Init => Abstract!Init /\ Assembly(rx)
  <1> SUFFICES ASSUME Init PROVE Abstract!Init /\ Assembly(rx)
    OBVIOUS
  <1>1. RingOf(queue, 0) /\ queue \in Queue
    BY InitIInv, QueueConfig
       DEF RingOf, Dist, Ready, Indices, Init, RxInit, EmptyQueue, FreeSlot,
           IInv, Owned, Holds, QueueOk
  <1>2. FifoOf(queue) \in Seq(Messages) /\ Len(FifoOf(queue)) = 0
    BY <1>1, FifoIs, QueueConfig
  <1>3. ReadyFifo = << >>
    BY <1>2, ReadyFifoIs
  <1>4. Assembly(rx)
    BY DEF Assembly, Init, RxInit, ZeroRx
  <1> QED
    BY <1>3, <1>4 DEF Abstract!Init

(* The slots, the indices, the reservation and the reassembly of Cantp.c   *)
(* and node_app.c together are a bounded FIFO of whole N-SDUs, for every   *)
(* geometry of the frames, every queue size and every order of frames,     *)
(* losses, timeouts and aborts: one that is delivered has all its parts,   *)
(* is never overwritten and is taken once, in its turn.                    *)
THEOREM NsduQueueImplemented == Spec => ImplementsNsduQueue
  <1>1. Spec => [](IInv /\ Ring(queue) /\ Assembly(rx))
    <2>1. Init => Ring(queue) /\ Assembly(rx)
      BY InitRing, InitRefined
    <2>2. /\ IInv /\ Ring(queue) /\ Assembly(rx) /\ [Next]_vars
          => (Ring(queue) /\ Assembly(rx))'
      BY RingNext, AssemblyNext
    <2> QED
      BY <2>1, <2>2, SpecIInv, PTL DEF Spec
  <1>2. Init => Abstract!Init
    BY InitRefined
  <1>3. IInv /\ Ring(queue) /\ Assembly(rx) /\ [Next]_vars => [Abstract!Next]_ReadyFifo
    BY RefinedNext
  <1> QED
    BY <1>1, <1>2, <1>3, PTL DEF Spec, ImplementsNsduQueue, Abstract!Spec

============================================================================
