----------------------------- MODULE KeepAlive -----------------------------
(***************************************************************************)
(* The supervision of Master and Slave by each other (app/app.c): the      *)
(* Master sends KeepAlive frames with an alive counter and a rate, the     *)
(* Slave its status, both through COM (ComIPdu), each in the tick of its   *)
(* own scheduler (System_RunTask).                                         *)
(*                                                                         *)
(* The two schedulers tick alternately.  A tick is one action: nothing in  *)
(* it waits.  A frame the CAN driver takes is in the receive mailbox of the *)
(* other ECU before that ECU's next tick, unless other traffic overwrites  *)
(* it there; while CanTp has the one transmit mailbox the driver takes     *)
(* none.  Times are kept as ages, which stop at the largest value the code *)
(* compares them with.  The two Slaves are alike: one is modelled.         *)
(***************************************************************************)
EXTENDS ComIPdu

CONSTANTS
    Levels,             \* 0..6, the rate levels
    Periods,            \* App_KeepAlivePeriods, ticks by level
    AliveModulus,       \* COM_ALIVE_COUNTER_MAX_VALUE + 1         (128)
    KeepAlivePeriod,    \* COM_KEEPALIVE_TX_PERIOD_TICKS           (10)
    StatusPeriod,       \* COM_SLAVE_STATUS_TX_PERIOD_TICKS        (500)
    MaxRetries,         \* maxRetries of both I-PDUs               (3)
    LostTimeout,        \* APP_MASTER_LOST_TIMEOUT_TICKS           (2000)
    OfflineTimeout,     \* APP_SLAVE_OFFLINE_TIMEOUT_TICKS         (2000)
    NetworkTicks        \* APP_NETWORK_TASK_TICKS                  (10)

ASSUME KeepAliveConfig ==
    /\ 0 \in Levels /\ Levels \subseteq Nat
    /\ Periods \in [Levels -> Nat \ {0}]
    /\ {AliveModulus, KeepAlivePeriod, StatusPeriod, LostTimeout,
        OfflineTimeout, NetworkTicks} \subseteq Nat \ {0}
    /\ MaxRetries \in Nat

(* How the periods and timeouts of app.h, app.c and Com_Cfg.h fit          *)
(* together: 10 < 128, 500 + 10 <= 2001 and 500 <= 2000.                   *)
ASSUME TimingConfig ==
    /\ KeepAlivePeriod < AliveModulus
    /\ \A level \in Levels : Periods[level] + KeepAlivePeriod <= LostTimeout + 1
    /\ StatusPeriod <= OfflineTimeout

VARIABLES
    master,         \* the KeepAlive and network monitor variables of app.c
    slave,          \* those of the Slave's app.c
    keepAlive,      \* COM's KeepAlive I-PDU, on the Master
    status,         \* COM's Status I-PDU, on the Slave
    keepAliveIn,    \* the Slave's receive mailbox
    statusIn,       \* the Master's
    turn,           \* whose scheduler ticks next
    lastSent,       \* history: the last value COM handed over, per I-PDU
    disturbed,      \* history: what has been disturbed since it last worked
    calm            \* the disturbances are over

vars == <<master, slave, keepAlive, status, keepAliveIn, statusIn, turn,
          lastSent, disturbed, calm>>

Nothing == [kind |-> "NONE"]
Frame(value) == [kind |-> "FRAME", value |-> value]

FirstPair == [alive |-> 0, level |-> 0]

Init ==
    /\ master = [level |-> 0, alive |-> 0, countdown |-> Periods[0],
                 online |-> FALSE, reported |-> "NORMAL",
                 statusAge |-> 0, monitorAge |-> 0]
    /\ slave = [status |-> "NORMAL", hasAlive |-> FALSE, alive |-> 0,
                level |-> 0, aliveAge |-> 0]
    /\ keepAlive = EnabledIPdu(FirstPair, 1)
    /\ status = SendSignals(EnabledIPdu("NORMAL", 1), "NORMAL")
    /\ keepAliveIn = Nothing /\ statusIn = Nothing
    /\ turn = "master"
    /\ lastSent = [keepAlive |-> FirstPair, status |-> "NONE"]
    /\ disturbed = {"keepAlive", "status"}
    /\ calm = FALSE

Older(age, limit) == IF age < limit THEN age + 1 ELSE limit

----------------------------------------------------------------------------
(* The bus                                                                 *)

\* What becomes of a pending I-PDU in a tick: the CAN driver takes the frame
\* and it arrives, or takes it and it is overwritten, or has no mailbox free.
Outcomes(p) ==
    IF ~p.pending THEN {"idle"}
    ELSE IF calm THEN {"arrives"} ELSE {"arrives", "overwritten", "refused"}

Sent(outcome) == outcome \in {"arrives", "overwritten"}

Delivered(p, outcome) ==
    IF outcome = "arrives" THEN Frame(p.value) ELSE Nothing

\* From here on no frame is lost or refused and the level stays.
BusCalms ==
    /\ ~calm /\ calm' = TRUE
    /\ UNCHANGED <<master, slave, keepAlive, status, keepAliveIn, statusIn,
                   turn, lastSent, disturbed>>

----------------------------------------------------------------------------
(* The Master's tick                                                       *)

\* App_ProcessAdc: a new level restarts the interval.
AdcLevel(m, level) ==
    IF level = m.level THEN m
    ELSE [m EXCEPT !.level = level, !.countdown = Periods[level]]

CountedDown(m) ==
    IF m.countdown = 0 THEN m ELSE [m EXCEPT !.countdown = @ - 1]

\* mutant: the counter stays at its largest value
NextAliveSaturates(m) ==
    [m EXCEPT !.alive = IF @ + 1 < AliveModulus THEN @ + 1 ELSE @,
              !.countdown = Periods[m.level]]

\* App_ProcessMasterKeepAlive, when the countdown has run out.
NextAlive(m) ==
    [m EXCEPT !.alive = (@ + 1) % AliveModulus, !.countdown = Periods[m.level]]

\* mutant: only the frame that brings the Slave online restarts its timer
StatusSeenOnce(m) ==
    IF statusIn = Nothing \/ m.online
    THEN [m EXCEPT !.statusAge = Older(@, OfflineTimeout)]
    ELSE [m EXCEPT !.reported = statusIn.value, !.statusAge = 0, !.online = TRUE]

\* App_ProcessOneSlaveStatus: any Status frame proves the Slave is there.
StatusSeen(m) ==
    IF statusIn = Nothing THEN [m EXCEPT !.statusAge = Older(@, OfflineTimeout)]
    ELSE [m EXCEPT !.reported = statusIn.value, !.statusAge = 0, !.online = TRUE]

\* App_ProcessMasterNetworkMonitor, the part that runs every NetworkTicks.
Monitored(m) ==
    IF m.monitorAge + 1 < NetworkTicks
    THEN [m EXCEPT !.monitorAge = @ + 1]
    ELSE [m EXCEPT !.monitorAge = 0,
                   !.online = @ /\ m.statusAge < OfflineTimeout]

\* Com_MainFunctionTx after the timer.
ComSent(p, outcome) ==
    IF outcome = "idle" THEN p
    ELSE IF Sent(outcome) THEN Accepted(p) ELSE Refused(p, MaxRetries)

MasterTick(level) ==
    LET m    == CountedDown(AdcLevel(master, level))
        due  == m.countdown = 0
        m2   == IF due THEN NextAlive(m) ELSE m
        pair == [alive |-> m2.alive, level |-> m2.level]
        p    == Timed(IF due THEN SendSignals(keepAlive, pair) ELSE keepAlive,
                      KeepAlivePeriod)
    IN  /\ turn = "master" /\ turn' = "slave"
        /\ calm => level = master.level
        /\ master' = Monitored(StatusSeen(m2))
        /\ statusIn' = Nothing
        /\ \E outcome \in Outcomes(p) :
              /\ keepAlive' = ComSent(p, outcome)
              /\ keepAliveIn' = Delivered(p, outcome)
              /\ lastSent' = [lastSent EXCEPT !.keepAlive =
                                 IF Sent(outcome) THEN p.value ELSE @]
              /\ disturbed' =
                    (disturbed \ (IF statusIn = Nothing THEN {} ELSE {"status"}))
                    \cup (IF outcome \in {"idle", "arrives"}
                             /\ level = master.level
                          THEN {} ELSE {"keepAlive"})
        /\ UNCHANGED <<slave, status, calm>>

----------------------------------------------------------------------------
(* The Slave's tick                                                        *)

\* Only a counter that has changed is a sign of life.
News ==
    /\ keepAliveIn # Nothing
    /\ slave.hasAlive => keepAliveIn.value.alive # slave.alive

\* mutant: the Slave comes back in silence: its new status is not written
WritesIfRateChanged == ~slave.hasAlive \/ keepAliveIn.value.level # slave.level

\* App_ProcessSlaveKeepAlive writes the status when it may have changed.
WritesNormal ==
    \/ slave.status = "MASTER_LOST" \/ ~slave.hasAlive
    \/ keepAliveIn.value.level # slave.level

Watched ==
    IF News
    THEN [slave EXCEPT !.status = "NORMAL", !.hasAlive = TRUE, !.aliveAge = 0,
                       !.alive = keepAliveIn.value.alive,
                       !.level = keepAliveIn.value.level]
    ELSE [slave EXCEPT !.aliveAge = Older(@, LostTimeout)]

Loses(s) == s.status = "NORMAL" /\ s.aliveAge >= LostTimeout

SlaveTick ==
    LET w    == Watched
        lost == Loses(w)
        s    == IF lost THEN [w EXCEPT !.status = "MASTER_LOST"] ELSE w
        p    == Timed(IF (News /\ WritesNormal) \/ lost
                      THEN SendSignals(status, s.status) ELSE status,
                      StatusPeriod)
    IN  /\ turn = "slave" /\ turn' = "master"
        /\ slave' = s
        /\ keepAliveIn' = Nothing
        /\ \E outcome \in Outcomes(p) :
              /\ status' = ComSent(p, outcome)
              /\ statusIn' = Delivered(p, outcome)
              /\ lastSent' = [lastSent EXCEPT !.status =
                                 IF Sent(outcome) THEN p.value ELSE @]
              /\ disturbed' =
                    (disturbed \ (IF News THEN {"keepAlive"} ELSE {}))
                    \cup (IF outcome \in {"idle", "arrives"}
                          THEN {} ELSE {"status"})
        /\ UNCHANGED <<master, keepAlive, calm>>

MasterTicks == \E level \in Levels : MasterTick(level)

Next == BusCalms \/ MasterTicks \/ SlaveTick

Spec == Init /\ [][Next]_vars

\* The tick interrupts keep coming, in turn.
FairSpec == Spec /\ WF_vars(MasterTicks \/ SlaveTick)

----------------------------------------------------------------------------
(* Properties.                                                             *)

(* Update Bits tell the truth: a frame whose bit is clear repeats the one  *)
(* before it, so no value is ever sent only without its bit, though        *)
(* occurrences are refused, retried, coalesced and dropped.                *)
UnflaggedIsRepeat ==
    /\ ~keepAlive.updated => keepAlive.value = lastSent.keepAlive
    /\ ~status.updated => status.value = lastSent.status

(* The Slave declares its Master lost only after something went wrong      *)
(* since it last heard a new counter: a lost or refused frame or a changed *)
(* rate.  The periods of the application and of COM and the timeout fit    *)
(* together (TimingConfig), and the counter never comes round unnoticed.   *)
UndisturbedMeansNormal ==
    "keepAlive" \notin disturbed => slave.status = "NORMAL"

(* The same for the Master and the Slave it supervises.                    *)
UndisturbedMeansOnline ==
    "status" \notin disturbed => master.online

(* When disturbances end, the two ECUs come to agree for good: the Slave   *)
(* is NORMAL at the Master's rate, and the Master holds it online and      *)
(* knows its status, whatever either believed before.                      *)
Agreed ==
    /\ slave.status = "NORMAL" /\ slave.level = master.level
    /\ master.online /\ master.reported = "NORMAL"

EventuallyAgreed == <>[](calm => Agreed)

(* While the Master runs its alive counter keeps changing, in the period   *)
(* of the rate level (Architecture.md 9).                                  *)
CounterAdvances == []<><<master'.alive # master.alive>>_vars

============================================================================
