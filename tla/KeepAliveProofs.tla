-------------------------- MODULE KeepAliveProofs --------------------------
(***************************************************************************)
(* Machine-checked proofs about the supervision of the two ECUs, for all   *)
(* periods, timeouts and numbers of retries.                               *)
(*                                                                         *)
(* COM's Update Bits tell the truth: a value that no frame has carried is  *)
(* still flagged, whatever was refused, coalesced or dropped.              *)
(*                                                                         *)
(* No false alarm: as long as nothing is lost, refused or changed, the     *)
(* Slave is NORMAL and the Master holds it online.  Here the periods of    *)
(* the application, COM's and the timeouts must fit together, which is     *)
(* TimingConfig: the counter changes in the application's period, the      *)
(* frame that tells leaves in COM's, before the counter comes round.       *)
(***************************************************************************)
EXTENDS KeepAlive, TLAPS

IPdus(values) ==
    [counter : Nat, pending : BOOLEAN, retryCount : 0..MaxRetries,
     value : values, updated : BOOLEAN]

Pairs == [alive : 0..(AliveModulus - 1), level : Levels]

Statuses == {"NORMAL", "MASTER_LOST"}

MasterRecords ==
    [level : Levels, alive : 0..(AliveModulus - 1), countdown : Nat,
     online : BOOLEAN, reported : Statuses,
     statusAge : 0..OfflineTimeout, monitorAge : 0..NetworkTicks]

SlaveRecords ==
    [status : Statuses, hasAlive : BOOLEAN, alive : 0..(AliveModulus - 1),
     level : Levels, aliveAge : 0..LostTimeout]

NodeType == master \in MasterRecords /\ slave \in SlaveRecords

Frames(values) == {Nothing} \cup {Frame(v) : v \in values}

ComType ==
    /\ keepAlive \in IPdus(Pairs) /\ status \in IPdus(Statuses)
    /\ keepAliveIn \in Frames(Pairs) /\ statusIn \in Frames(Statuses)
    /\ lastSent \in [keepAlive : Pairs, status : Statuses \cup {"NONE"}]

IInv == NodeType /\ ComType /\ UnflaggedIsRepeat

----------------------------------------------------------------------------
(* One I-PDU: what COM does to it, and what its Update Bit then says of    *)
(* the value "last" that was handed over before.                           *)

Truthful(p, last) == ~p.updated => p.value = last

LEMMA ConstantsAreNats ==
    /\ AliveModulus \in Nat \ {0} /\ MaxRetries \in Nat
    /\ KeepAlivePeriod \in Nat /\ StatusPeriod \in Nat
    /\ OfflineTimeout \in Nat /\ NetworkTicks \in Nat /\ LostTimeout \in Nat
    /\ 0 \in Levels /\ \A level \in Levels : Periods[level] \in Nat
  BY KeepAliveConfig

LEMMA SendSignalsTruthful ==
    ASSUME NEW values, NEW p, p \in IPdus(values), NEW v \in values, NEW last
    PROVE  SendSignals(p, v) \in IPdus(values) /\ Truthful(SendSignals(p, v), last)
  BY DEF IPdus, SendSignals, Truthful

LEMMA TimedTruthful ==
    ASSUME NEW values, NEW p, p \in IPdus(values), NEW period \in Nat,
           NEW last, Truthful(p, last)
    PROVE  Timed(p, period) \in IPdus(values) /\ Truthful(Timed(p, period), last)
  <1>1. CASE p.counter > 1
    <2>1. Timed(p, period) = [p EXCEPT !.counter = @ - 1] /\ p.counter - 1 \in Nat
      BY <1>1 DEF Timed, IPdus
    <2> QED
      BY <2>1 DEF IPdus, Truthful
  <1>2. CASE ~(p.counter > 1) /\ p.pending
    <2>1. Timed(p, period) = [p EXCEPT !.counter = period, !.pending = TRUE]
      BY <1>2 DEF Timed, IPdus
    <2> QED
      BY <2>1 DEF IPdus, Truthful
  <1>3. CASE ~(p.counter > 1) /\ ~p.pending
    <2> DEFINE q == [p EXCEPT !.counter = period]
               r == [q EXCEPT !.pending = TRUE]
    <2>1. Timed(p, period) = [r EXCEPT !.retryCount = 0]
      BY <1>3 DEF Timed, IPdus
    <2>2. q \in IPdus(values) /\ Truthful(q, last)
      BY DEF IPdus, Truthful
    <2> HIDE DEF q
    <2>3. r \in IPdus(values) /\ Truthful(r, last)
      BY <2>2 DEF IPdus, Truthful
    <2> HIDE DEF r
    <2> QED
      BY <2>1, <2>3, ConstantsAreNats DEF IPdus, Truthful
  <1> QED
    BY <1>1, <1>2, <1>3

LEMMA NoLongerPending ==
    ASSUME NEW values, NEW p, p \in IPdus(values)
    PROVE  [p EXCEPT !.pending = FALSE, !.retryCount = 0] \in IPdus(values)
  <1> DEFINE q == [p EXCEPT !.pending = FALSE]
  <1>1. q \in IPdus(values)
    BY DEF IPdus
  <1> HIDE DEF q
  <1>2. [q EXCEPT !.retryCount = 0] \in IPdus(values)
    BY <1>1, ConstantsAreNats DEF IPdus
  <1> QED
    BY <1>2 DEF q

LEMMA AcceptedTruthful ==
    ASSUME NEW values, NEW p, p \in IPdus(values)
    PROVE  Accepted(p) \in IPdus(values) /\ Truthful(Accepted(p), p.value)
  <1> DEFINE q == [p EXCEPT !.pending = FALSE, !.retryCount = 0]
  <1>1. q \in IPdus(values)
    BY NoLongerPending
  <1>2. q.value = p.value
    BY DEF IPdus
  <1>3. Accepted(p) = [q EXCEPT !.updated = FALSE]
    BY DEF Accepted
  <1> HIDE DEF q
  <1>4. Accepted(p) \in IPdus(values)
    BY <1>1, <1>3 DEF IPdus
  <1> QED
    BY <1>1, <1>2, <1>3, <1>4 DEF IPdus, Truthful

LEMMA RefusedTruthful ==
    ASSUME NEW values, NEW p, p \in IPdus(values), NEW last, Truthful(p, last)
    PROVE  /\ Refused(p, MaxRetries) \in IPdus(values)
           /\ Truthful(Refused(p, MaxRetries), last)
  <1>1. CASE p.retryCount < MaxRetries
    <2>1. /\ Refused(p, MaxRetries) = [p EXCEPT !.retryCount = @ + 1]
          /\ p.retryCount + 1 \in 0..MaxRetries
      BY <1>1, ConstantsAreNats DEF Refused, IPdus
    <2> QED
      BY <2>1 DEF IPdus, Truthful
  <1>2. CASE ~(p.retryCount < MaxRetries)
    <2> DEFINE q == [p EXCEPT !.pending = FALSE, !.retryCount = 0]
    <2>1. q \in IPdus(values)
      BY NoLongerPending
    <2>2. Truthful(q, last)
      BY DEF IPdus, Truthful
    <2>3. Refused(p, MaxRetries) = q
      BY <1>2 DEF Refused
    <2> QED
      BY <2>1, <2>2, <2>3
  <1> QED
    BY <1>1, <1>2

\* An outcome of the tick, and what has been handed over after it.
LEMMA ComSentTruthful ==
    ASSUME NEW values, NEW p, p \in IPdus(values), NEW outcome,
           NEW last, Truthful(p, last)
    PROVE  /\ ComSent(p, outcome) \in IPdus(values)
           /\ Truthful(ComSent(p, outcome), IF Sent(outcome) THEN p.value ELSE last)
  <1>1. outcome = "idle" => ~Sent(outcome)
    BY DEF Sent
  <1> QED
    BY <1>1, AcceptedTruthful, RefusedTruthful DEF ComSent

LEMMA DeliveredType ==
    ASSUME NEW values, NEW p, p \in IPdus(values), NEW outcome
    PROVE  Delivered(p, outcome) \in Frames(values)
  BY DEF Delivered, Frames, IPdus

LEMMA FrameValue ==
    ASSUME NEW values, NEW f \in Frames(values), f # Nothing
    PROVE  f.value \in values
  BY DEF Frames, Frame

----------------------------------------------------------------------------

LEMMA InitInv == Init => IInv
  <1> SUFFICES ASSUME Init PROVE IInv
    OBVIOUS
  <1>1. 0 \in 0..(AliveModulus - 1) /\ 0 \in 0..MaxRetries /\ 0 \in Levels
    BY ConstantsAreNats
  <1>2. FirstPair \in Pairs
    BY <1>1 DEF FirstPair, Pairs
  <1>3. NodeType
    BY <1>1, ConstantsAreNats DEF Init, NodeType, MasterRecords, SlaveRecords, Statuses
  <1>4. keepAlive \in IPdus(Pairs)
    BY <1>1, <1>2 DEF Init, IPdus, EnabledIPdu
  <1>5. status \in IPdus(Statuses)
    BY <1>1 DEF Init, IPdus, EnabledIPdu, SendSignals, Statuses
  <1>6. ComType
    BY <1>2, <1>4, <1>5 DEF Init, ComType, Frames
  <1>7. UnflaggedIsRepeat
    BY DEF Init, UnflaggedIsRepeat, EnabledIPdu, SendSignals
  <1> QED
    BY <1>3, <1>6, <1>7 DEF IInv

LEMMA BusCalmsStep == IInv /\ BusCalms => IInv'
  BY DEF BusCalms, IInv, NodeType, ComType, UnflaggedIsRepeat

LEMMA MasterTickStep ==
    ASSUME IInv, NEW level \in Levels, MasterTick(level)
    PROVE  IInv'
  <1> DEFINE m0   == AdcLevel(master, level)
             m    == CountedDown(m0)
             due  == m.countdown = 0
             m2   == IF due THEN NextAlive(m) ELSE m
             pair == [alive |-> m2.alive, level |-> m2.level]
             q    == IF due THEN SendSignals(keepAlive, pair) ELSE keepAlive
             p    == Timed(q, KeepAlivePeriod)
             m3   == StatusSeen(m2)
  <1>1. PICK outcome \in Outcomes(p) :
           /\ keepAlive' = ComSent(p, outcome)
           /\ keepAliveIn' = Delivered(p, outcome)
           /\ lastSent' = [lastSent EXCEPT !.keepAlive =
                              IF Sent(outcome) THEN p.value ELSE @]
    BY DEF MasterTick
  <1>2. /\ master' = Monitored(m3) /\ statusIn' = Nothing
        /\ UNCHANGED <<slave, status>>
    BY DEF MasterTick
  <1>3. m0 \in MasterRecords
    BY ConstantsAreNats DEF IInv, NodeType, MasterRecords, AdcLevel
  <1> HIDE DEF m0
  <1>4. m \in MasterRecords
    BY <1>3 DEF MasterRecords, CountedDown
  <1> HIDE DEF m
  <1>5. m2 \in MasterRecords
    <2>1. (m.alive + 1) % AliveModulus \in 0..(AliveModulus - 1)
      BY <1>4, ConstantsAreNats DEF MasterRecords
    <2>2. Periods[m.level] \in Nat
      BY <1>4, ConstantsAreNats DEF MasterRecords
    <2> QED
      BY <1>4, <2>1, <2>2 DEF MasterRecords, NextAlive
  <1>6. pair \in Pairs
    BY <1>5 DEF MasterRecords, Pairs
  <1> HIDE DEF m2
  <1>7. m3 \in MasterRecords
    <2>1. Older(m2.statusAge, OfflineTimeout) \in 0..OfflineTimeout
      BY <1>5, ConstantsAreNats DEF MasterRecords, Older
    <2>2. statusIn # Nothing => statusIn.value \in Statuses
      BY FrameValue DEF IInv, ComType
    <2>3. CASE statusIn = Nothing
      BY <1>5, <2>1, <2>3 DEF MasterRecords, StatusSeen
    <2>4. CASE statusIn # Nothing
      <3> DEFINE a == [m2 EXCEPT !.reported = statusIn.value]
                 b == [a EXCEPT !.statusAge = 0]
      <3>1. a \in MasterRecords
        BY <1>5, <2>2, <2>4 DEF MasterRecords
      <3> HIDE DEF a
      <3>2. b \in MasterRecords
        BY <3>1, ConstantsAreNats DEF MasterRecords
      <3> HIDE DEF b
      <3>3. [b EXCEPT !.online = TRUE] \in MasterRecords
        BY <3>2 DEF MasterRecords
      <3>4. StatusSeen(m2) = [b EXCEPT !.online = TRUE]
        BY <2>4 DEF StatusSeen, a, b
      <3> QED
        BY <3>3, <3>4
    <2> QED
      BY <2>3, <2>4
  <1> HIDE DEF m3
  <1>8. master' \in MasterRecords
    <2>1. CASE m3.monitorAge + 1 < NetworkTicks
      <3>1. m3.monitorAge + 1 \in 0..NetworkTicks
        BY <1>7, <2>1, ConstantsAreNats DEF MasterRecords
      <3> QED
        BY <1>2, <1>7, <2>1, <3>1 DEF MasterRecords, Monitored
    <2>2. CASE ~(m3.monitorAge + 1 < NetworkTicks)
      <3> DEFINE a  == [m3 EXCEPT !.monitorAge = 0]
                 on == m3.online /\ m3.statusAge < OfflineTimeout
      <3>1. a \in MasterRecords
        BY <1>7, ConstantsAreNats DEF MasterRecords
      <3>2. on \in BOOLEAN
        OBVIOUS
      <3>3. Monitored(m3) = [a EXCEPT !.online = on]
        BY <2>2 DEF Monitored
      <3> HIDE DEF a, on
      <3>4. [a EXCEPT !.online = on] \in MasterRecords
        BY <3>1, <3>2 DEF MasterRecords
      <3> QED
        BY <1>2, <3>3, <3>4
    <2> QED
      BY <2>1, <2>2
  <1>9. q \in IPdus(Pairs) /\ Truthful(q, lastSent.keepAlive)
    BY <1>6, SendSignalsTruthful
       DEF IInv, ComType, UnflaggedIsRepeat, Truthful
  <1> HIDE DEF q
  <1>10. p \in IPdus(Pairs) /\ Truthful(p, lastSent.keepAlive)
    BY <1>9, TimedTruthful, ConstantsAreNats
  <1> HIDE DEF p
  <1>11. /\ keepAlive' \in IPdus(Pairs) /\ keepAliveIn' \in Frames(Pairs)
         /\ Truthful(keepAlive', IF Sent(outcome) THEN p.value
                                 ELSE lastSent.keepAlive)
    BY <1>1, <1>10, ComSentTruthful, DeliveredType
  <1>12. p.value \in Pairs
    BY <1>10 DEF IPdus
  <1>13. /\ lastSent' \in [keepAlive : Pairs, status : Statuses \cup {"NONE"}]
         /\ lastSent'.keepAlive = IF Sent(outcome) THEN p.value
                                  ELSE lastSent.keepAlive
         /\ lastSent'.status = lastSent.status
    BY <1>1, <1>12 DEF IInv, ComType
  <1>14. ComType'
    BY <1>2, <1>11, <1>13 DEF IInv, ComType, Frames
  <1>15. UnflaggedIsRepeat'
    BY <1>2, <1>11, <1>13 DEF IInv, UnflaggedIsRepeat, Truthful
  <1> QED
    BY <1>2, <1>8, <1>14, <1>15 DEF IInv, NodeType

LEMMA SlaveTickStep == IInv /\ SlaveTick => IInv'
  <1> SUFFICES ASSUME IInv, SlaveTick PROVE IInv'
    OBVIOUS
  <1> DEFINE w    == Watched
             lost == Loses(w)
             s    == IF lost THEN [w EXCEPT !.status = "MASTER_LOST"] ELSE w
             q    == IF (News /\ WritesNormal) \/ lost
                     THEN SendSignals(status, s.status) ELSE status
             p    == Timed(q, StatusPeriod)
  <1>1. PICK outcome \in Outcomes(p) :
           /\ status' = ComSent(p, outcome)
           /\ statusIn' = Delivered(p, outcome)
           /\ lastSent' = [lastSent EXCEPT !.status =
                              IF Sent(outcome) THEN p.value ELSE @]
    BY DEF SlaveTick
  <1>2. /\ slave' = s /\ keepAliveIn' = Nothing
        /\ UNCHANGED <<master, keepAlive>>
    BY DEF SlaveTick
  <1>3. w \in SlaveRecords
    <2>1. Older(slave.aliveAge, LostTimeout) \in 0..LostTimeout
      BY ConstantsAreNats DEF IInv, NodeType, SlaveRecords, Older
    <2>2. News => keepAliveIn.value \in Pairs
      BY FrameValue DEF IInv, ComType, News
    <2>3. CASE News
      <3>1. /\ keepAliveIn.value.alive \in 0..(AliveModulus - 1)
            /\ keepAliveIn.value.level \in Levels
        BY <2>2, <2>3 DEF Pairs
      <3> DEFINE a == [slave EXCEPT !.status = "NORMAL"]
                 b == [a EXCEPT !.hasAlive = TRUE]
                 c == [b EXCEPT !.aliveAge = 0]
                 d == [c EXCEPT !.alive = keepAliveIn.value.alive]
      <3>2. a \in SlaveRecords
        BY DEF IInv, NodeType, SlaveRecords, Statuses
      <3> HIDE DEF a
      <3>3. b \in SlaveRecords
        BY <3>2 DEF SlaveRecords
      <3> HIDE DEF b
      <3>4. c \in SlaveRecords
        BY <3>3, ConstantsAreNats DEF SlaveRecords
      <3> HIDE DEF c
      <3>5. d \in SlaveRecords
        BY <3>1, <3>4 DEF SlaveRecords
      <3> HIDE DEF d
      <3>6. [d EXCEPT !.level = keepAliveIn.value.level] \in SlaveRecords
        BY <3>1, <3>5 DEF SlaveRecords
      <3>7. Watched = [d EXCEPT !.level = keepAliveIn.value.level]
        BY <2>3 DEF Watched, a, b, c, d
      <3> QED
        BY <3>6, <3>7
    <2>4. CASE ~News
      BY <2>1, <2>4 DEF IInv, NodeType, SlaveRecords, Watched
    <2> QED
      BY <2>3, <2>4
  <1> HIDE DEF w
  <1>4. s \in SlaveRecords /\ s.status \in Statuses
    BY <1>3 DEF SlaveRecords, Statuses
  <1> HIDE DEF s, lost
  <1>5. NodeType'
    BY <1>2, <1>4 DEF IInv, NodeType
  <1>6. q \in IPdus(Statuses) /\ Truthful(q, lastSent.status)
    BY <1>4, SendSignalsTruthful
       DEF IInv, ComType, UnflaggedIsRepeat, Truthful
  <1> HIDE DEF q
  <1>7. p \in IPdus(Statuses) /\ Truthful(p, lastSent.status)
    BY <1>6, TimedTruthful, ConstantsAreNats
  <1> HIDE DEF p
  <1>8. /\ status' \in IPdus(Statuses) /\ statusIn' \in Frames(Statuses)
        /\ Truthful(status', IF Sent(outcome) THEN p.value ELSE lastSent.status)
    BY <1>1, <1>7, ComSentTruthful, DeliveredType
  <1>9. p.value \in Statuses
    BY <1>7 DEF IPdus
  <1>10. /\ lastSent' \in [keepAlive : Pairs, status : Statuses \cup {"NONE"}]
         /\ lastSent'.status = IF Sent(outcome) THEN p.value ELSE lastSent.status
         /\ lastSent'.keepAlive = lastSent.keepAlive
    BY <1>1, <1>9 DEF IInv, ComType
  <1>11. ComType'
    BY <1>2, <1>8, <1>10 DEF IInv, ComType, Frames
  <1>12. UnflaggedIsRepeat'
    BY <1>2, <1>8, <1>10 DEF IInv, UnflaggedIsRepeat, Truthful
  <1> QED
    BY <1>5, <1>11, <1>12 DEF IInv

LEMMA StepInv == IInv /\ [Next]_vars => IInv'
  <1>1. IInv /\ UNCHANGED vars => IInv'
    BY DEF vars, IInv, NodeType, ComType, UnflaggedIsRepeat
  <1> QED
    BY <1>1, BusCalmsStep, MasterTickStep, SlaveTickStep DEF Next, MasterTicks

----------------------------------------------------------------------------
(* Timing.  What the two supervisions rest on, besides the types.          *)

\* The Master's side: a frame carries the alive counter of its own tick.
AliveInv ==
    /\ master.countdown \in 1..Periods[master.level]
    /\ keepAlive.counter \in 1..KeepAlivePeriod
    /\ keepAlive.value.alive = master.alive
    /\ turn = "master" => keepAliveIn = Nothing
    /\ keepAliveIn # Nothing =>
          ~keepAlive.pending /\ keepAliveIn.value.alive = master.alive

\* The Slave's side.
StatusInv ==
    /\ status.counter \in 1..StatusPeriod
    /\ turn = "slave" => statusIn = Nothing
    /\ statusIn # Nothing => ~status.pending

\* The ages when both ECUs have had the same number of ticks.
AliveAge == slave.aliveAge + (IF turn = "slave" THEN 1 ELSE 0)

StatusAge == master.statusAge + (IF turn = "master" THEN 1 ELSE 0)

\* The alive counter is d steps ahead of the one the Slave has seen.
Ahead(d) == master.alive \in {slave.alive + d, slave.alive + d - AliveModulus}

\* As long as nothing is disturbed, the counter changes before its period
\* ends; from then on the frame that tells is due before COM's period ends,
\* and the counter cannot come round until that frame.
LifeInv ==
    "keepAlive" \notin disturbed =>
        /\ ~keepAlive.pending /\ slave.hasAlive /\ slave.status = "NORMAL"
        /\ \E d \in 0..KeepAlivePeriod :
              /\ Ahead(d)
              /\ IF d = 0
                 THEN AliveAge + master.countdown <= Periods[master.level]
                 ELSE keepAliveIn = Nothing =>
                         /\ d + keepAlive.counter <= KeepAlivePeriod
                         /\ AliveAge + keepAlive.counter
                               < Periods[master.level] + KeepAlivePeriod

\* The next status is due before the period has passed since the last.
MonitorInv ==
    "status" \notin disturbed =>
        /\ ~status.pending /\ master.online
        /\ statusIn = Nothing => StatusAge + status.counter <= StatusPeriod

TimeInv == AliveInv /\ StatusInv /\ LifeInv /\ MonitorInv

LEMMA TimingFacts ==
    /\ KeepAlivePeriod \in Nat \ {0} /\ KeepAlivePeriod < AliveModulus
    /\ StatusPeriod \in Nat \ {0} /\ StatusPeriod <= OfflineTimeout
    /\ LostTimeout \in Nat \ {0} /\ OfflineTimeout \in Nat \ {0}
    /\ \A level \in Levels :
          /\ Periods[level] \in Nat \ {0}
          /\ Periods[level] + KeepAlivePeriod <= LostTimeout + 1
  BY KeepAliveConfig, TimingConfig

LEMMA Counted ==
    ASSUME NEW a \in 0..(AliveModulus - 1)
    PROVE  (a + 1) % AliveModulus = IF a + 1 = AliveModulus THEN 0 ELSE a + 1
  BY ConstantsAreNats

LEMMA TimedOutcome ==
    ASSUME NEW values, NEW p, p \in IPdus(values), NEW period \in Nat \ {0},
           p.counter \in 1..period
    PROVE  /\ Timed(p, period) \in IPdus(values)
           /\ Timed(p, period).counter \in 1..period
           /\ Timed(p, period).value = p.value
           /\ p.counter > 1 => /\ Timed(p, period).counter = p.counter - 1
                               /\ Timed(p, period).pending = p.pending
           /\ p.counter = 1 => /\ Timed(p, period).counter = period
                               /\ Timed(p, period).pending
  <1>0. Timed(p, period) \in IPdus(values)
    BY TimedTruthful DEF Truthful
  <1>1. CASE p.counter > 1
    <2>1. Timed(p, period) = [p EXCEPT !.counter = @ - 1] /\ p.counter - 1 \in 1..period
      BY <1>1 DEF Timed, IPdus
    <2> QED
      BY <1>0, <1>1, <2>1 DEF IPdus
  <1>2. CASE p.counter = 1
    <2>1. Timed(p, period) = [p EXCEPT !.counter = period, !.pending = TRUE,
                                       !.retryCount = IF p.pending THEN @ ELSE 0]
      BY <1>2 DEF Timed
    <2> QED
      BY <1>0, <1>2, <2>1 DEF IPdus
  <1> QED
    BY <1>1, <1>2

LEMMA ComSentOutcome ==
    ASSUME NEW values, NEW p, p \in IPdus(values), NEW outcome \in Outcomes(p)
    PROVE  /\ ComSent(p, outcome).counter = p.counter
           /\ ComSent(p, outcome).value = p.value
           /\ outcome = "idle" <=> ~p.pending
           /\ outcome = "idle" => ~ComSent(p, outcome).pending
           /\ outcome = "arrives" => ~ComSent(p, outcome).pending
           /\ outcome \in {"idle", "arrives", "overwritten", "refused"}
  <1>1. /\ outcome = "idle" <=> ~p.pending
        /\ outcome \in {"idle", "arrives", "overwritten", "refused"}
    BY DEF Outcomes
  <1>2. CASE outcome = "idle"
    BY <1>1, <1>2 DEF ComSent
  <1>3. CASE Sent(outcome)
    BY <1>1, <1>3 DEF ComSent, Sent, Accepted, IPdus
  <1>4. CASE outcome = "refused"
    BY <1>1, <1>4 DEF ComSent, Sent, Refused, IPdus
  <1> QED
    BY <1>1, <1>2, <1>3, <1>4 DEF Sent

LEMMA DeliveredOutcome ==
    ASSUME NEW p, NEW outcome
    PROVE  IF outcome = "arrives"
           THEN Delivered(p, outcome) # Nothing /\ Delivered(p, outcome).value = p.value
           ELSE Delivered(p, outcome) = Nothing
  BY DEF Delivered, Frame, Nothing

\* The tick of the Master, field by field.
LEMMA MasterTickFields ==
    ASSUME IInv, AliveInv, NEW level \in Levels, MasterTick(level)
    PROVE  LET c == IF level = master.level THEN master.countdown ELSE Periods[level]
           IN  /\ master'.level = level
               /\ c = 1 => /\ master'.alive = (master.alive + 1) % AliveModulus
                           /\ master'.countdown = Periods[level]
               /\ c # 1 => /\ master'.alive = master.alive
                           /\ master'.countdown = c - 1
               /\ statusIn = Nothing =>
                     /\ master'.statusAge = Older(master.statusAge, OfflineTimeout)
                     /\ master.online /\ master'.statusAge < OfflineTimeout => master'.online
               /\ statusIn # Nothing => master'.statusAge = 0 /\ master'.online
               /\ \E q \in IPdus(Pairs) :
                     /\ q.counter = keepAlive.counter /\ q.pending = keepAlive.pending
                     /\ q.value.alive = master'.alive
                     /\ \E outcome \in Outcomes(Timed(q, KeepAlivePeriod)) :
                           /\ keepAlive' = ComSent(Timed(q, KeepAlivePeriod), outcome)
                           /\ keepAliveIn' = Delivered(Timed(q, KeepAlivePeriod), outcome)
                           /\ "keepAlive" \notin disturbed' =>
                                 /\ "keepAlive" \notin disturbed /\ level = master.level
                                 /\ outcome \in {"idle", "arrives"}
               /\ "status" \notin disturbed' => "status" \notin disturbed \/ statusIn # Nothing
  <1> DEFINE m0   == AdcLevel(master, level)
             m    == CountedDown(m0)
             due  == m.countdown = 0
             m2   == IF due THEN NextAlive(m) ELSE m
             pair == [alive |-> m2.alive, level |-> m2.level]
             q    == IF due THEN SendSignals(keepAlive, pair) ELSE keepAlive
             p    == Timed(q, KeepAlivePeriod)
             m3   == StatusSeen(m2)
             c    == IF level = master.level THEN master.countdown ELSE Periods[level]
  <1>1. PICK outcome \in Outcomes(p) :
           /\ keepAlive' = ComSent(p, outcome)
           /\ keepAliveIn' = Delivered(p, outcome)
           /\ disturbed' =
                 (disturbed \ (IF statusIn = Nothing THEN {} ELSE {"status"}))
                 \cup (IF outcome \in {"idle", "arrives"} /\ level = master.level
                       THEN {} ELSE {"keepAlive"})
    BY DEF MasterTick
  <1>2. master' = Monitored(m3)
    BY DEF MasterTick
  <1>3. /\ master \in MasterRecords /\ keepAlive \in IPdus(Pairs)
        /\ keepAlive.value \in Pairs
    BY DEF IInv, NodeType, ComType, IPdus
  <1>4. /\ m0 \in MasterRecords /\ m0.level = level /\ m0.countdown = c
        /\ m0.alive = master.alive /\ m0.online = master.online
        /\ m0.statusAge = master.statusAge
    BY <1>3, ConstantsAreNats DEF MasterRecords, AdcLevel
  <1>5. c \in 1..Periods[level] /\ Periods[level] \in Nat
    BY ConstantsAreNats, TimingFacts DEF AliveInv
  <1> HIDE DEF m0, c
  <1>6. /\ m \in MasterRecords /\ m.level = level /\ m.countdown = c - 1
        /\ m.alive = master.alive /\ m.online = master.online
        /\ m.statusAge = master.statusAge
    BY <1>4, <1>5 DEF MasterRecords, CountedDown
  <1> HIDE DEF m
  <1>7. /\ m2 \in MasterRecords /\ m2.level = level /\ m2.online = master.online
        /\ m2.statusAge = master.statusAge
        /\ c = 1 => m2.alive = (master.alive + 1) % AliveModulus
                    /\ m2.countdown = Periods[level]
        /\ c # 1 => m2.alive = master.alive /\ m2.countdown = c - 1
    <2>1. CASE c = 1
      <3>1. (m.alive + 1) % AliveModulus \in 0..(AliveModulus - 1)
        BY <1>6, ConstantsAreNats DEF MasterRecords
      <3>2. m2 = NextAlive(m) /\ Periods[m.level] = Periods[level]
        BY <1>6, <2>1
      <3> QED
        BY <1>5, <1>6, <2>1, <3>1, <3>2 DEF MasterRecords, NextAlive
    <2>2. CASE c # 1
      <3>1. m2 = m
        BY <1>5, <1>6, <2>2
      <3> QED
        BY <1>6, <2>2, <3>1
    <2> QED
      BY <2>1, <2>2
  <1>8. q \in IPdus(Pairs) /\ q.counter = keepAlive.counter
        /\ q.pending = keepAlive.pending /\ q.value.alive = m2.alive
    <2>1. pair \in Pairs
      BY <1>7 DEF MasterRecords, Pairs
    <2>2. CASE due
      <3>1. q = SendSignals(keepAlive, pair)
        BY <2>2
      <3> HIDE DEF q, pair
      <3>2. q.value = pair /\ q.counter = keepAlive.counter
            /\ q.pending = keepAlive.pending /\ q \in IPdus(Pairs)
        BY <1>3, <2>1, <3>1 DEF SendSignals, IPdus
      <3> QED
        BY <3>2 DEF pair
    <2>3. CASE ~due
      BY <1>3, <1>6, <2>3 DEF AliveInv
    <2> QED
      BY <2>2, <2>3
  <1> HIDE DEF m2, q
  <1>9. /\ m3 \in MasterRecords /\ m3.level = m2.level /\ m3.alive = m2.alive
        /\ m3.countdown = m2.countdown
        /\ statusIn = Nothing =>
              /\ m3.statusAge = Older(m2.statusAge, OfflineTimeout)
              /\ m3.online = m2.online
        /\ statusIn # Nothing => m3.statusAge = 0 /\ m3.online
    <2>1. Older(m2.statusAge, OfflineTimeout) \in 0..OfflineTimeout
      BY <1>7, ConstantsAreNats DEF MasterRecords, Older
    <2>2. statusIn # Nothing => statusIn.value \in Statuses
      BY FrameValue DEF IInv, ComType
    <2>3. CASE statusIn = Nothing
      BY <1>7, <2>1, <2>3 DEF MasterRecords, StatusSeen
    <2>4. CASE statusIn # Nothing
      <3>1. m3 = [m2 EXCEPT !.reported = statusIn.value, !.statusAge = 0, !.online = TRUE]
        BY <2>4 DEF StatusSeen
      <3>2. 0 \in 0..OfflineTimeout
        BY ConstantsAreNats
      <3> HIDE DEF m3
      <3> QED
        BY <1>7, <2>2, <2>4, <3>1, <3>2 DEF MasterRecords
    <2> QED
      BY <2>3, <2>4
  <1> HIDE DEF m3
  <1>10. /\ master'.level = m3.level /\ master'.alive = m3.alive
         /\ master'.countdown = m3.countdown /\ master'.statusAge = m3.statusAge
         /\ m3.online /\ m3.statusAge < OfflineTimeout => master'.online
    <2>1. CASE m3.monitorAge + 1 < NetworkTicks
      BY <1>2, <1>9, <2>1 DEF MasterRecords, Monitored
    <2>2. CASE ~(m3.monitorAge + 1 < NetworkTicks)
      <3> DEFINE on == m3.online /\ m3.statusAge < OfflineTimeout
      <3>1. master' = [m3 EXCEPT !.monitorAge = 0, !.online = on]
        BY <1>2, <2>2 DEF Monitored
      <3>2. /\ master'.level = m3.level /\ master'.alive = m3.alive
            /\ master'.countdown = m3.countdown /\ master'.statusAge = m3.statusAge
            /\ master'.online = on
        <4> HIDE DEF on
        <4> QED
          BY <1>9, <3>1 DEF MasterRecords
      <3> QED
        BY <3>2
    <2> QED
      BY <2>1, <2>2
  <1>11. statusIn # Nothing => master'.statusAge < OfflineTimeout
    BY <1>9, <1>10, TimingFacts
  <1>12. /\ statusIn = Nothing =>
              /\ master'.statusAge = Older(master.statusAge, OfflineTimeout)
              /\ master.online /\ master'.statusAge < OfflineTimeout => master'.online
         /\ statusIn # Nothing => master'.statusAge = 0 /\ master'.online
    BY <1>7, <1>9, <1>10, <1>11
  <1>13. /\ "keepAlive" \notin disturbed' =>
              /\ "keepAlive" \notin disturbed /\ level = master.level
              /\ outcome \in {"idle", "arrives"}
         /\ "status" \notin disturbed' => "status" \notin disturbed \/ statusIn # Nothing
    BY <1>1
  <1>14. /\ master'.level = level
         /\ c = 1 => /\ master'.alive = (master.alive + 1) % AliveModulus
                     /\ master'.countdown = Periods[level]
         /\ c # 1 => /\ master'.alive = master.alive
                     /\ master'.countdown = c - 1
         /\ q.value.alive = master'.alive
    BY <1>7, <1>8, <1>9, <1>10
  <1> QED
    BY <1>1, <1>8, <1>12, <1>13, <1>14 DEF c

\* What one tick makes of an I-PDU and of the mailbox it goes to.
LEMMA IPduTick ==
    ASSUME NEW values, NEW q \in IPdus(values), NEW period \in Nat \ {0},
           q.counter \in 1..period,
           NEW outcome \in Outcomes(Timed(q, period)),
           NEW after, after = ComSent(Timed(q, period), outcome),
           NEW in, in = Delivered(Timed(q, period), outcome)
    PROVE  /\ after.counter \in 1..period /\ after.value = q.value
           /\ q.counter > 1 => after.counter = q.counter - 1
           /\ in # Nothing => ~after.pending /\ in.value = q.value
           /\ ~q.pending /\ outcome \in {"idle", "arrives"} =>
                 ~after.pending /\ (q.counter = 1 => in # Nothing)
  <1> DEFINE p == Timed(q, period)
  <1>1. /\ p \in IPdus(values) /\ p.counter \in 1..period /\ p.value = q.value
        /\ q.counter > 1 => p.counter = q.counter - 1
        /\ q.counter = 1 => p.pending
    BY TimedOutcome
  <1> HIDE DEF p
  <1>2. /\ after.counter = p.counter /\ after.value = p.value
        /\ outcome = "idle" <=> ~p.pending
        /\ outcome \in {"idle", "arrives"} => ~after.pending
    BY <1>1, ComSentOutcome DEF p
  <1>3. IF outcome = "arrives" THEN in # Nothing /\ in.value = p.value ELSE in = Nothing
    BY DeliveredOutcome DEF p
  <1> QED
    BY <1>1, <1>2, <1>3

\* The tick of the Slave, field by field.
LEMMA SlaveTickFields ==
    ASSUME IInv, StatusInv, SlaveTick
    PROVE  /\ News => /\ slave'.status = "NORMAL" /\ slave'.hasAlive
                      /\ slave'.aliveAge = 0
                      /\ slave'.alive = keepAliveIn.value.alive
           /\ ~News => /\ slave'.hasAlive = slave.hasAlive
                       /\ slave'.aliveAge = Older(slave.aliveAge, LostTimeout)
                       /\ slave'.alive = slave.alive
                       /\ slave'.aliveAge < LostTimeout => slave'.status = slave.status
           /\ \E q \in IPdus(Statuses) :
                 /\ q.counter = status.counter /\ q.pending = status.pending
                 /\ \E outcome \in Outcomes(Timed(q, StatusPeriod)) :
                       /\ status' = ComSent(Timed(q, StatusPeriod), outcome)
                       /\ statusIn' = Delivered(Timed(q, StatusPeriod), outcome)
                       /\ "status" \notin disturbed' =>
                             "status" \notin disturbed /\ outcome \in {"idle", "arrives"}
           /\ "keepAlive" \notin disturbed' => "keepAlive" \notin disturbed \/ News
  <1> DEFINE w    == Watched
             lost == Loses(w)
             s    == IF lost THEN [w EXCEPT !.status = "MASTER_LOST"] ELSE w
             q    == IF (News /\ WritesNormal) \/ lost
                     THEN SendSignals(status, s.status) ELSE status
             p    == Timed(q, StatusPeriod)
  <1>1. PICK outcome \in Outcomes(p) :
           /\ status' = ComSent(p, outcome)
           /\ statusIn' = Delivered(p, outcome)
           /\ disturbed' =
                 (disturbed \ (IF News THEN {"keepAlive"} ELSE {}))
                 \cup (IF outcome \in {"idle", "arrives"} THEN {} ELSE {"status"})
    BY DEF SlaveTick
  <1>2. slave' = s
    BY DEF SlaveTick
  <1>3. /\ slave \in SlaveRecords /\ status \in IPdus(Statuses)
        /\ News => /\ keepAliveIn.value.alive \in 0..(AliveModulus - 1)
                   /\ keepAliveIn.value.level \in Levels
    BY FrameValue DEF IInv, NodeType, ComType, News, Pairs
  <1>4. /\ w \in SlaveRecords
        /\ News => /\ w.status = "NORMAL" /\ w.hasAlive /\ w.aliveAge = 0
                   /\ w.alive = keepAliveIn.value.alive
        /\ ~News => /\ w.hasAlive = slave.hasAlive /\ w.alive = slave.alive
                    /\ w.aliveAge = Older(slave.aliveAge, LostTimeout)
                    /\ w.status = slave.status
    <2>1. Older(slave.aliveAge, LostTimeout) \in 0..LostTimeout /\ 0 \in 0..LostTimeout
      BY <1>3, ConstantsAreNats DEF SlaveRecords, Older
    <2>2. CASE News
      <3>1. w = [slave EXCEPT !.status = "NORMAL", !.hasAlive = TRUE, !.aliveAge = 0,
                              !.alive = keepAliveIn.value.alive,
                              !.level = keepAliveIn.value.level]
        BY <2>2 DEF Watched
      <3> HIDE DEF w
      <3> QED
        BY <1>3, <2>1, <2>2, <3>1 DEF SlaveRecords, Statuses
    <2>3. CASE ~News
      BY <1>3, <2>1, <2>3 DEF SlaveRecords, Watched
    <2> QED
      BY <2>2, <2>3
  <1> HIDE DEF w
  <1>5. /\ s \in SlaveRecords /\ s.hasAlive = w.hasAlive /\ s.alive = w.alive
        /\ s.aliveAge = w.aliveAge
        /\ w.aliveAge < LostTimeout => s.status = w.status
    <2>1. w.aliveAge < LostTimeout => ~lost
      BY <1>4, ConstantsAreNats DEF SlaveRecords, Loses
    <2>2. CASE lost
      <3>1. s = [w EXCEPT !.status = "MASTER_LOST"]
        BY <2>2
      <3> HIDE DEF s, lost
      <3> QED
        BY <1>4, <2>1, <2>2, <3>1 DEF SlaveRecords, Statuses
    <2>3. CASE ~lost
      BY <1>4, <2>3
    <2> QED
      BY <2>2, <2>3
  <1> HIDE DEF s, lost
  <1>6. q \in IPdus(Statuses) /\ q.counter = status.counter /\ q.pending = status.pending
    <2>1. s.status \in Statuses
      BY <1>5 DEF SlaveRecords
    <2> QED
      BY <1>3, <2>1 DEF SendSignals, IPdus
  <1> HIDE DEF q
  <1>7. News => w.aliveAge < LostTimeout
    BY <1>4, TimingFacts
  <1>8. /\ "status" \notin disturbed' =>
              "status" \notin disturbed /\ outcome \in {"idle", "arrives"}
        /\ "keepAlive" \notin disturbed' => "keepAlive" \notin disturbed \/ News
    BY <1>1
  <1>9. \E r \in IPdus(Statuses) :
           /\ r.counter = status.counter /\ r.pending = status.pending
           /\ \E o \in Outcomes(Timed(r, StatusPeriod)) :
                 /\ status' = ComSent(Timed(r, StatusPeriod), o)
                 /\ statusIn' = Delivered(Timed(r, StatusPeriod), o)
                 /\ "status" \notin disturbed' =>
                       "status" \notin disturbed /\ o \in {"idle", "arrives"}
    BY <1>1, <1>6, <1>8
  <1> QED
    BY <1>2, <1>4, <1>5, <1>7, <1>8, <1>9

LEMMA InitTime == Init => TimeInv
  <1> SUFFICES ASSUME Init PROVE TimeInv
    OBVIOUS
  <1>1. AliveInv
    BY TimingFacts, ConstantsAreNats DEF Init, AliveInv, EnabledIPdu, FirstPair
  <1>2. StatusInv
    BY TimingFacts DEF Init, StatusInv, EnabledIPdu, SendSignals
  <1> QED
    BY <1>1, <1>2 DEF Init, TimeInv, LifeInv, MonitorInv

LEMMA MasterTickTime ==
    ASSUME IInv, TimeInv, NEW level \in Levels, MasterTick(level)
    PROVE  TimeInv'
  <1> DEFINE c == IF level = master.level THEN master.countdown ELSE Periods[level]
             K == KeepAlivePeriod
             M == AliveModulus
  <1>1. /\ turn = "master" /\ turn' = "slave" /\ statusIn' = Nothing
        /\ UNCHANGED <<slave, status>>
    BY DEF MasterTick
  <1>2. /\ master'.level = level
        /\ c = 1 => /\ master'.alive = (master.alive + 1) % M
                    /\ master'.countdown = Periods[level]
        /\ c # 1 => /\ master'.alive = master.alive
                    /\ master'.countdown = c - 1
        /\ statusIn = Nothing =>
              /\ master'.statusAge = Older(master.statusAge, OfflineTimeout)
              /\ master.online /\ master'.statusAge < OfflineTimeout => master'.online
        /\ statusIn # Nothing => master'.statusAge = 0 /\ master'.online
        /\ "status" \notin disturbed' => "status" \notin disturbed \/ statusIn # Nothing
    BY MasterTickFields DEF TimeInv
  <1>3. PICK q \in IPdus(Pairs) :
           /\ q.counter = keepAlive.counter /\ q.pending = keepAlive.pending
           /\ q.value.alive = master'.alive
           /\ \E outcome \in Outcomes(Timed(q, K)) :
                 /\ keepAlive' = ComSent(Timed(q, K), outcome)
                 /\ keepAliveIn' = Delivered(Timed(q, K), outcome)
                 /\ "keepAlive" \notin disturbed' =>
                       /\ "keepAlive" \notin disturbed /\ level = master.level
                       /\ outcome \in {"idle", "arrives"}
    BY MasterTickFields DEF TimeInv
  <1>4. PICK outcome \in Outcomes(Timed(q, K)) :
           /\ keepAlive' = ComSent(Timed(q, K), outcome)
           /\ keepAliveIn' = Delivered(Timed(q, K), outcome)
           /\ "keepAlive" \notin disturbed' =>
                 /\ "keepAlive" \notin disturbed /\ level = master.level
                 /\ outcome \in {"idle", "arrives"}
    BY <1>3
  <1>5. K \in Nat \ {0} /\ keepAlive.counter \in 1..K /\ keepAliveIn = Nothing
    BY <1>1, TimingFacts DEF TimeInv, AliveInv
  <1>6. /\ keepAlive'.counter \in 1..K /\ keepAlive'.value = q.value
        /\ keepAlive.counter > 1 => keepAlive'.counter = keepAlive.counter - 1
        /\ keepAliveIn' # Nothing => ~keepAlive'.pending /\ keepAliveIn'.value = q.value
        /\ ~keepAlive.pending /\ outcome \in {"idle", "arrives"} =>
              ~keepAlive'.pending /\ (keepAlive.counter = 1 => keepAliveIn' # Nothing)
    BY <1>3, <1>4, <1>5, IPduTick
  <1>7. c \in 1..Periods[level] /\ Periods[level] \in Nat \ {0}
    BY TimingFacts DEF TimeInv, AliveInv
  <1>8. AliveInv'
    <2>1. master'.countdown \in 1..Periods[master'.level]
      BY <1>2, <1>7
    <2> QED
      BY <1>1, <1>3, <1>6, <2>1 DEF AliveInv
  <1>9. StatusInv'
    BY <1>1 DEF TimeInv, StatusInv
  <1>10. LifeInv'
    <2> SUFFICES ASSUME "keepAlive" \notin disturbed'
                 PROVE  /\ ~keepAlive'.pending /\ slave'.hasAlive
                        /\ slave'.status = "NORMAL"
                        /\ \E d \in 0..K :
                             /\ Ahead(d)'
                             /\ IF d = 0
                                THEN AliveAge' + master'.countdown <= Periods[master'.level]
                                ELSE keepAliveIn' = Nothing =>
                                        /\ d + keepAlive'.counter <= K
                                        /\ AliveAge' + keepAlive'.counter
                                              < Periods[master'.level] + K
      BY DEF LifeInv
    <2>1. /\ "keepAlive" \notin disturbed /\ level = master.level
          /\ outcome \in {"idle", "arrives"} /\ ~keepAlive.pending
          /\ slave.hasAlive /\ slave.status = "NORMAL"
      BY <1>4 DEF TimeInv, LifeInv
    <2>2. PICK d \in 0..K :
             /\ Ahead(d)
             /\ IF d = 0
                THEN AliveAge + master.countdown <= Periods[master.level]
                ELSE keepAliveIn = Nothing =>
                        /\ d + keepAlive.counter <= K
                        /\ AliveAge + keepAlive.counter < Periods[master.level] + K
      BY <2>1 DEF TimeInv, LifeInv
    <2> DEFINE e  == IF c = 1 THEN d + 1 ELSE d
               a  == slave.aliveAge
               sa == slave.alive
               ma == master.alive
               k  == keepAlive.counter
               P  == Periods[level]
    <2>3. /\ a \in Nat /\ sa \in 0..(M - 1) /\ ma \in 0..(M - 1)
          /\ M \in Nat \ {0} /\ K < M /\ P \in Nat \ {0} /\ k \in 1..K /\ c \in 1..P
      <3>1. slave \in SlaveRecords /\ master \in MasterRecords
        BY DEF IInv, NodeType
      <3>2. a \in Nat /\ sa \in 0..(M - 1) /\ ma \in 0..(M - 1)
        BY <3>1, ConstantsAreNats DEF SlaveRecords, MasterRecords
      <3> QED
        BY <1>5, <1>7, <3>2, TimingFacts, ConstantsAreNats
    <2>4. AliveAge = a /\ AliveAge' = a + 1 /\ c = master.countdown
      <3>1. AliveAge = a + 0 /\ AliveAge' = a + 1
        BY <1>1 DEF AliveAge
      <3>2. a + 0 = a
        BY <2>3
      <3> QED
        BY <2>1, <3>1, <3>2
    <2>5. /\ ma \in {sa + d, sa + d - M}
          /\ IF d = 0 THEN a + c <= P ELSE d + k <= K /\ a + k < P + K
      BY <1>5, <2>1, <2>2, <2>4 DEF Ahead
    <2>6. master'.alive = IF c = 1 THEN (IF ma + 1 = M THEN 0 ELSE ma + 1) ELSE ma
      BY <1>2, <2>3, Counted
    <2>7. /\ master'.countdown = IF c = 1 THEN P ELSE c - 1
          /\ Periods[master'.level] = P
      BY <1>2
    <2>8. /\ keepAliveIn' = Nothing => k > 1 /\ keepAlive'.counter = k - 1
          /\ ~keepAlive'.pending
      BY <1>6, <2>1, <2>3
    <2> HIDE DEF c, a, sa, ma, k, P
    <2>9. e \in 0..K /\ master'.alive \in {sa + e, sa + e - M}
      BY <1>5, <2>2, <2>3, <2>5, <2>6
    <2>10. e = 0 => a + 1 + master'.countdown <= P
      BY <2>2, <2>3, <2>5, <2>7
    <2>11. e # 0 /\ keepAliveIn' = Nothing =>
              e + (k - 1) <= K /\ a + 1 + (k - 1) < P + K
      <3> SUFFICES ASSUME e # 0, k > 1
                   PROVE  e + (k - 1) <= K /\ a + 1 + (k - 1) < P + K
        BY <2>8
      <3> QED
        BY <1>5, <2>2, <2>3, <2>5
    <2> HIDE DEF e
    <2>12. PICK x \in 0..K : x = e
      BY <2>9
    <2>13. Ahead(x)'
      <3>1. slave'.alive = sa
        BY <1>1 DEF sa
      <3> QED
        BY <2>9, <2>12, <3>1 DEF Ahead
    <2>14. IF x = 0
           THEN AliveAge' + master'.countdown <= Periods[master'.level]
           ELSE keepAliveIn' = Nothing =>
                   /\ x + keepAlive'.counter <= K
                   /\ AliveAge' + keepAlive'.counter < Periods[master'.level] + K
      BY <2>4, <2>7, <2>8, <2>10, <2>11, <2>12
    <2> QED
      BY <1>1, <2>1, <2>8, <2>13, <2>14
  <1>11. MonitorInv'
    <2> SUFFICES ASSUME "status" \notin disturbed'
                 PROVE  /\ ~status'.pending /\ master'.online
                        /\ StatusAge' + status'.counter <= StatusPeriod
      BY DEF MonitorInv
    <2> DEFINE a == master.statusAge
               b == master'.statusAge
               k == status.counter
    <2>1. /\ a \in 0..OfflineTimeout /\ k \in 1..StatusPeriod
          /\ StatusPeriod \in Nat /\ OfflineTimeout \in Nat
          /\ StatusPeriod <= OfflineTimeout
      BY TimingFacts DEF IInv, NodeType, MasterRecords, TimeInv, StatusInv
    <2>2. StatusAge = a + 1 /\ StatusAge' = b /\ status'.counter = k
          /\ status' = status
      <3>1. b \in Nat
        BY MasterTickStep, ConstantsAreNats DEF IInv, NodeType, MasterRecords
      <3>2. StatusAge' = b + 0
        BY <1>1 DEF StatusAge
      <3> QED
        BY <1>1, <3>1, <3>2 DEF StatusAge
    <2>3. CASE statusIn # Nothing
      BY <1>2, <2>1, <2>2, <2>3 DEF TimeInv, StatusInv
    <2>4. CASE statusIn = Nothing
      <3>1. ~status.pending /\ master.online /\ a + 1 + k <= StatusPeriod
        BY <1>2, <2>2, <2>4 DEF TimeInv, MonitorInv
      <3>2. b = IF a < OfflineTimeout THEN a + 1 ELSE OfflineTimeout
        BY <1>2, <2>4 DEF Older
      <3> HIDE DEF a, b, k
      <3>3. b = a + 1 /\ b < OfflineTimeout /\ b + k <= StatusPeriod
        BY <2>1, <3>1, <3>2
      <3> QED
        BY <1>2, <2>2, <2>4, <3>1, <3>3 DEF b
    <2> QED
      BY <2>3, <2>4
  <1> QED
    BY <1>8, <1>9, <1>10, <1>11 DEF TimeInv

LEMMA SlaveTickTime ==
    ASSUME IInv, TimeInv, SlaveTick
    PROVE  TimeInv'
  <1> DEFINE K == KeepAlivePeriod
             M == AliveModulus
  <1>1. /\ turn = "slave" /\ turn' = "master" /\ keepAliveIn' = Nothing
        /\ UNCHANGED <<master, keepAlive>>
    BY DEF SlaveTick
  <1>2. /\ News => /\ slave'.status = "NORMAL" /\ slave'.hasAlive
                   /\ slave'.aliveAge = 0
                   /\ slave'.alive = keepAliveIn.value.alive
        /\ ~News => /\ slave'.hasAlive = slave.hasAlive
                    /\ slave'.aliveAge = Older(slave.aliveAge, LostTimeout)
                    /\ slave'.alive = slave.alive
                    /\ slave'.aliveAge < LostTimeout => slave'.status = slave.status
        /\ "keepAlive" \notin disturbed' => "keepAlive" \notin disturbed \/ News
    BY SlaveTickFields DEF TimeInv
  <1>3. PICK q \in IPdus(Statuses) :
           /\ q.counter = status.counter /\ q.pending = status.pending
           /\ \E outcome \in Outcomes(Timed(q, StatusPeriod)) :
                 /\ status' = ComSent(Timed(q, StatusPeriod), outcome)
                 /\ statusIn' = Delivered(Timed(q, StatusPeriod), outcome)
                 /\ "status" \notin disturbed' =>
                       "status" \notin disturbed /\ outcome \in {"idle", "arrives"}
    BY SlaveTickFields DEF TimeInv
  <1>4. PICK outcome \in Outcomes(Timed(q, StatusPeriod)) :
           /\ status' = ComSent(Timed(q, StatusPeriod), outcome)
           /\ statusIn' = Delivered(Timed(q, StatusPeriod), outcome)
           /\ "status" \notin disturbed' =>
                 "status" \notin disturbed /\ outcome \in {"idle", "arrives"}
    BY <1>3
  <1>5. /\ StatusPeriod \in Nat \ {0} /\ status.counter \in 1..StatusPeriod
        /\ statusIn = Nothing
    BY <1>1, TimingFacts DEF TimeInv, StatusInv
  <1>6. /\ status'.counter \in 1..StatusPeriod
        /\ status.counter > 1 => status'.counter = status.counter - 1
        /\ statusIn' # Nothing => ~status'.pending
        /\ ~status.pending /\ outcome \in {"idle", "arrives"} =>
              ~status'.pending /\ (status.counter = 1 => statusIn' # Nothing)
    BY <1>3, <1>4, <1>5, IPduTick
  <1>7. AliveInv'
    BY <1>1 DEF TimeInv, AliveInv
  <1>8. StatusInv'
    BY <1>1, <1>6 DEF StatusInv
  <1>9. LifeInv'
    <2> DEFINE a  == slave.aliveAge
               sa == slave.alive
               ma == master.alive
               k  == keepAlive.counter
               c  == master.countdown
               P  == Periods[master.level]
    <2> SUFFICES ASSUME "keepAlive" \notin disturbed'
                 PROVE  /\ ~keepAlive.pending /\ slave'.hasAlive
                        /\ slave'.status = "NORMAL"
                        /\ \E d \in 0..K :
                             /\ Ahead(d)'
                             /\ IF d = 0
                                THEN AliveAge' + c <= P
                                ELSE d + k <= K /\ AliveAge' + k < P + K
      BY <1>1 DEF LifeInv
    <2>1. /\ a \in 0..LostTimeout /\ sa \in 0..(M - 1) /\ ma \in 0..(M - 1)
          /\ M \in Nat \ {0} /\ K \in Nat \ {0} /\ K < M /\ LostTimeout \in Nat
          /\ P \in Nat \ {0} /\ k \in 1..K /\ c \in 1..P /\ P + K <= LostTimeout + 1
      <3>1. slave \in SlaveRecords /\ master \in MasterRecords
        BY DEF IInv, NodeType
      <3>2. /\ a \in 0..LostTimeout /\ sa \in 0..(M - 1) /\ ma \in 0..(M - 1)
            /\ master.level \in Levels
        BY <3>1 DEF SlaveRecords, MasterRecords
      <3>3. k \in 1..K /\ c \in 1..P
        BY DEF TimeInv, AliveInv
      <3>4. P \in Nat \ {0} /\ P + K <= LostTimeout + 1
        BY <3>2, TimingFacts
      <3> HIDE DEF a, sa, ma, k, c, P
      <3> QED
        BY <3>2, <3>3, <3>4, TimingFacts, ConstantsAreNats
    <2>2. AliveAge = a + 1 /\ AliveAge' = slave'.aliveAge
      <3>1. slave'.aliveAge \in Nat
        BY SlaveTickStep, ConstantsAreNats DEF IInv, NodeType, SlaveRecords
      <3>2. AliveAge' = slave'.aliveAge + 0
        BY <1>1 DEF AliveAge
      <3> QED
        BY <1>1, <3>1, <3>2 DEF AliveAge
    <2>3. CASE News
      <3>1. keepAliveIn.value.alive = ma /\ ~keepAlive.pending
        BY <2>3 DEF TimeInv, AliveInv, News
      <3>2. Ahead(0)'
        <4>1. slave'.alive = ma /\ master'.alive = ma
          BY <1>1, <1>2, <2>3, <3>1
        <4> HIDE DEF ma
        <4>2. ma = ma + 0
          BY <2>1
        <4> QED
          BY <4>1, <4>2 DEF Ahead
      <3>3. AliveAge' + c <= P
        <4>1. AliveAge' = 0
          BY <1>2, <2>2, <2>3
        <4> HIDE DEF c, P
        <4> QED
          BY <2>1, <4>1
      <3>4. 0 \in 0..K
        BY <2>1
      <3> HIDE DEF c, P, k
      <3>5. \E d \in 0..K : /\ Ahead(d)'
                            /\ IF d = 0
                               THEN AliveAge' + c <= P
                               ELSE d + k <= K /\ AliveAge' + k < P + K
        BY <3>2, <3>3, <3>4
      <3> QED
        BY <1>2, <2>3, <3>1, <3>5
    <2>4. CASE ~News
      <3>1. /\ ~keepAlive.pending /\ slave.hasAlive /\ slave.status = "NORMAL"
            /\ "keepAlive" \notin disturbed
        BY <1>2, <2>4 DEF TimeInv, LifeInv
      <3>2. PICK d \in 0..K :
               /\ Ahead(d)
               /\ IF d = 0
                  THEN AliveAge + c <= P
                  ELSE keepAliveIn = Nothing => d + k <= K /\ AliveAge + k < P + K
        BY <3>1 DEF TimeInv, LifeInv
      <3>3. ma \in {sa + d, sa + d - M}
        BY <3>2 DEF Ahead
      <3>4. keepAliveIn # Nothing => ma = sa
        BY <2>4, <3>1 DEF News, TimeInv, AliveInv
      <3>5. slave'.aliveAge = IF a < LostTimeout THEN a + 1 ELSE LostTimeout
        BY <1>2, <2>4 DEF Older
      <3> HIDE DEF a, sa, ma, c, P, k
      <3>6. d # 0 => ma # sa
        BY <2>1, <3>2, <3>3
      <3>7. IF d = 0 THEN a + 1 + c <= P ELSE d + k <= K /\ a + 1 + k < P + K
        BY <2>2, <3>2, <3>4, <3>6
      <3>8. a + 1 < LostTimeout
        BY <2>1, <3>2, <3>7
      <3>9. slave'.aliveAge = a + 1 /\ slave'.aliveAge < LostTimeout
        BY <2>1, <3>5, <3>8
      <3>10. slave'.hasAlive /\ slave'.status = "NORMAL"
        BY <1>2, <2>4, <3>1, <3>9
      <3>11. Ahead(d)'
        BY <1>1, <1>2, <2>4, <3>3 DEF Ahead, sa, ma
      <3>12. IF d = 0
             THEN AliveAge' + c <= P
             ELSE d + k <= K /\ AliveAge' + k < P + K
        BY <2>2, <3>7, <3>9
      <3> QED
        BY <3>1, <3>10, <3>11, <3>12
    <2> QED
      BY <2>3, <2>4
  <1>10. MonitorInv'
    <2> SUFFICES ASSUME "status" \notin disturbed'
                 PROVE  /\ ~status'.pending /\ master.online
                        /\ statusIn' = Nothing =>
                              StatusAge' + status'.counter <= StatusPeriod
      BY <1>1 DEF MonitorInv
    <2> DEFINE a == master.statusAge
               k == status.counter
    <2>1. /\ ~status.pending /\ master.online /\ outcome \in {"idle", "arrives"}
          /\ StatusAge + k <= StatusPeriod
      BY <1>4, <1>5 DEF TimeInv, MonitorInv
    <2>2. StatusAge = a /\ StatusAge' = a + 1
      <3>1. a \in Nat
        BY ConstantsAreNats DEF IInv, NodeType, MasterRecords
      <3> QED
        BY <1>1, <3>1 DEF StatusAge
    <2>3. a \in Nat
      BY ConstantsAreNats DEF IInv, NodeType, MasterRecords
    <2>4. statusIn' = Nothing => k > 1 /\ status'.counter = k - 1
      BY <1>5, <1>6, <2>1
    <2>5. ~status'.pending
      BY <1>6, <2>1
    <2> HIDE DEF a, k
    <2> QED
      BY <1>5, <2>1, <2>2, <2>3, <2>4, <2>5 DEF k
  <1> QED
    BY <1>7, <1>8, <1>9, <1>10 DEF TimeInv

LEMMA StepTime == IInv /\ TimeInv /\ [Next]_vars => TimeInv'
  <1>1. TimeInv /\ (UNCHANGED vars \/ BusCalms) => TimeInv'
    BY DEF vars, BusCalms, TimeInv, AliveInv, StatusInv, LifeInv, MonitorInv,
           Ahead, AliveAge, StatusAge
  <1> QED
    BY <1>1, MasterTickTime, SlaveTickTime DEF Next, MasterTicks

LEMMA TimingAlways == Spec => [](IInv /\ TimeInv)
  BY InitInv, InitTime, StepInv, StepTime, PTL DEF Spec

----------------------------------------------------------------------------

(* COM never sends a value only without its Update Bit: a frame whose bit  *)
(* is clear repeats the frame before it.                                   *)
THEOREM UnflaggedIsRepeatAlways == Spec => []UnflaggedIsRepeat
  <1>1. IInv => UnflaggedIsRepeat
    BY DEF IInv
  <1> QED
    BY <1>1, InitInv, StepInv, PTL DEF Spec

(* A Slave that has not been cut off never declares its Master lost: until *)
(* a KeepAlive frame is lost or refused or the rate changes, it is NORMAL, *)
(* for all the periods and timeouts that fit together.                     *)
THEOREM UndisturbedMeansNormalAlways == Spec => []UndisturbedMeansNormal
  <1>1. TimeInv => UndisturbedMeansNormal
    BY DEF TimeInv, LifeInv, UndisturbedMeansNormal
  <1> QED
    BY <1>1, TimingAlways, PTL

(* The same for the Master: until a Status frame is lost or refused, it    *)
(* holds its Slave online.                                                 *)
THEOREM UndisturbedMeansOnlineAlways == Spec => []UndisturbedMeansOnline
  <1>1. TimeInv => UndisturbedMeansOnline
    BY DEF TimeInv, MonitorInv, UndisturbedMeansOnline
  <1> QED
    BY <1>1, TimingAlways, PTL

============================================================================
