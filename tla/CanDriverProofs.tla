-------------------------- MODULE CanDriverProofs --------------------------
(***************************************************************************)
(* Machine-checked proofs about the CAN driver, for every set of handles   *)
(* and any number of frames on the bus.                                    *)
(***************************************************************************)
EXTENDS CanDriver, TLAPS

----------------------------------------------------------------------------
(* The inductive invariant.                                                *)

Enabled == {"FREEZE_ENTRY", "RESET_COMPLETE", "RESET_FREEZE_ACK", "FREEZE_EXIT", "READY_ACK"}

Ready == drv.state = "READY"

\* What each stage of Can_Init may rely on, and READY after the last: the
\* acknowledgements the stages before it have waited for still stand.
StageInv ==
    /\ pc \in InitStages => ~Ready
    /\ pc = "ENABLE_ACK" => ~mcr.mdis
    /\ pc \in Enabled \/ Ready => ~mcr.mdis /\ ~mcr.lpmack
    /\ pc \in {"RESET_FREEZE_ACK", "FREEZE_EXIT", "READY_ACK"} \/ Ready
          => ~mcr.softrst
    /\ pc \in {"FREEZE_EXIT", "READY_ACK"} \/ Ready => ~mcr.halt
    /\ pc = "READY_ACK" \/ Ready => ~mcr.frzack
    /\ Ready /\ mcr.notrdy => "notrdy" \in faults

\* A controller that has been configured, and has not stopped since.
Configured == pc \in {"FREEZE_EXIT", "READY_ACK"} \/ Ready

\* Bus-off stays latched until Can_Init configures the controller again.
LatchInv == Configured /\ "busoff" \in faults => esr.boffint

\* MailboxOwned, and the empty mailbox it starts from.
MailboxInv ==
    /\ MailboxOwned
    /\ pc \in {"FREEZE_EXIT", "READY_ACK"} => mb8 = [code |-> "INACTIVE", flag |-> FALSE]

\* The last frame taken out of MB9, and the newest one that has been in it.
LastTaken == IF pc = "unlocked" THEN snapshot.frame ELSE seen

Newest == IF mb9.unread THEN mb9.frame ELSE LastTaken

\* The frames the bus has brought are those taken, one unread in MB9 and one
\* behind its lock; those missing in between have set OVERRUN.
ReceiveInv ==
    /\ mb9.locked <=> pc = "locked"
    /\ pc # "unlocked" /\ mb9.flag => mb9.unread
    /\ pc = "locked" => mb9.unread /\ snapshot.frame = mb9.frame /\ snapshot.code = mb9.code
    /\ mb9.unread => /\ mb9.frame > LastTaken
                     /\ mb9.frame > LastTaken + 1 <=> mb9.code = "OVERRUN"
    /\ pc = "unlocked" => /\ snapshot.frame > seen
                          /\ snapshot.frame > seen + 1 <=> snapshot.code = "OVERRUN"
    /\ mb9.behind # 0 => mb9.behind = Newest + 1
    /\ arrived = IF mb9.behind # 0 THEN mb9.behind ELSE Newest

IInv == TypeOK /\ StageInv /\ LatchInv /\ MailboxInv /\ ReceiveInv

----------------------------------------------------------------------------
(* The registers as records.                                               *)

LEMMA BitsUpdate ==
    ASSUME NEW m \in Bits, NEW a \in BOOLEAN, NEW b \in BOOLEAN, NEW c \in BOOLEAN
    PROVE  /\ [m EXCEPT !.halt = a] \in Bits
           /\ [m EXCEPT !.mdis = a] \in Bits
           /\ [m EXCEPT !.softrst = a] \in Bits
           /\ [m EXCEPT !.notrdy = a] \in Bits
           /\ [m EXCEPT !.mdis = a, !.halt = b] \in Bits
           /\ [m EXCEPT !.softrst = a, !.halt = b] \in Bits
           /\ [m EXCEPT !.frzack = a, !.notrdy = b] \in Bits
           /\ [m EXCEPT !.lpmack = a, !.frzack = b, !.notrdy = c] \in Bits
  BY DEF Bits

Mb9s ==
    [code : Codes, frame : 0..MaxFrames, unread : BOOLEAN,
     flag : BOOLEAN, locked : BOOLEAN, behind : 0..MaxFrames]

LEMMA Mb9Update ==
    ASSUME NEW mb \in Mb9s, NEW a \in BOOLEAN, NEW b \in BOOLEAN, NEW n \in 0..MaxFrames
    PROVE  /\ [mb EXCEPT !.flag = a] \in Mb9s
           /\ [mb EXCEPT !.locked = a] \in Mb9s
           /\ [mb EXCEPT !.locked = a, !.unread = b] \in Mb9s
           /\ [mb EXCEPT !.behind = n] \in Mb9s
           /\ MovedIn(mb, n) \in Mb9s
  <1>1. /\ [mb EXCEPT !.flag = a] \in Mb9s
        /\ [mb EXCEPT !.locked = a] \in Mb9s
        /\ [mb EXCEPT !.locked = a, !.unread = b] \in Mb9s
        /\ [mb EXCEPT !.behind = n] \in Mb9s
    BY DEF Mb9s, Codes
  <1>2. ASSUME NEW c \in Codes
        PROVE  [mb EXCEPT !.code = c, !.frame = n, !.unread = TRUE, !.flag = TRUE] \in Mb9s
    BY DEF Mb9s
  <1> QED
    BY <1>1, <1>2 DEF MovedIn, Codes

Esrs == [boffint : BOOLEAN, busoff : BOOLEAN]

LEMMA EsrUpdate ==
    ASSUME NEW e \in Esrs, NEW b \in BOOLEAN
    PROVE  [e EXCEPT !.boffint = b] \in Esrs /\ [e EXCEPT !.busoff = b] \in Esrs
  BY DEF Esrs

LEMMA EmptyMb9Type == EmptyMb9 \in Mb9s
  BY DriverConfig DEF EmptyMb9, Mb9s, Codes

----------------------------------------------------------------------------
(* Types.                                                                  *)

\* Can_Init, Can_Stop and the hardware write MCR.
LEMMA McrType ==
    ASSUME mcr \in Bits, [Next]_vars
    PROVE  mcr' \in Bits
  <1> USE DEF Bits
  <1>1. CASE HwAcknowledge
    BY <1>1 DEF HwAcknowledge, DriverSame
  <1>2. CASE HwNotReady
    BY <1>2 DEF HwNotReady, DriverSame
  <1>3. CASE InitStart
    BY <1>3 DEF InitStart, InitSame
  <1>4. CASE InitDisable
    BY <1>4 DEF InitDisable, InitSame, Goto, InitStage
  <1>5. CASE InitEnable
    BY <1>5 DEF InitEnable, InitSame, Goto, InitStage
  <1>6. CASE InitFreeze
    BY <1>6 DEF InitFreeze, InitSame, Goto, InitStage
  <1>7. CASE InitReset
    BY <1>7 DEF InitReset, InitSame, Goto, InitStage
  <1>8. CASE InitConfigure
    BY <1>8 DEF InitConfigure, InitSame, Goto
  <1>9. CASE InitTimeout
    BY <1>9 DEF InitTimeout, InitSame, Stop
  <1>10. CASE WriteStops
    BY <1>10 DEF WriteStops, Writing, Stop, ClearErrors
  <1>11. CASE PollStops
    BY <1>11 DEF PollStops, Goto, PollSame, Stop, ClearErrors
  <1>12. CASE ReadStops
    BY <1>12 DEF ReadStops, Goto, ReadSame, Stop, ClearErrors
  <1>13. CASE HwTransmit \/ HwTxAbnormal \/ HwReceive \/ HwMoveIn \/
            HwBusOff \/ HwRecover \/ InitIsReset \/ InitExited \/
            InitReady \/ UpperDone \/ PollNothing \/ PollConfirms \/
            CallbackDone \/ ReadNothing \/ ReadLocks \/ ReadUnlocks \/
            ReadReports \/ (\E h \in Handles : WriteAccepted(h)) \/
            UNCHANGED vars
    BY <1>13 DEF HwTransmit, DriverSame, HwTxAbnormal, HwReceive, HwMoveIn,
       HwBusOff, HwRecover, InitIsReset, InitSame, Goto, InitStage,
       InitExited, InitReady, UpperDone, PollNothing, PollSame,
       PollConfirms, CallbackDone, ReadNothing, ReadSame, ReadLocks,
       ReadUnlocks, ReadReports, WriteAccepted, Writing, ClearErrors, vars
  <1> HIDE DEF Bits
  <1> QED
    BY <1>1, <1>2, <1>3, <1>4, <1>5, <1>6, <1>7, <1>8, <1>9, <1>10, <1>11,
       <1>12, <1>13 DEF Next, Hardware, MainLoop, InitStep

\* BOFFINT is written with the status, and set by the hardware.
LEMMA EsrType ==
    ASSUME esr \in Esrs, [Next]_vars
    PROVE  esr' \in Esrs
  <1> USE DEF Esrs
  <1>1. CASE HwBusOff
    BY <1>1 DEF HwBusOff, DriverSame
  <1>2. CASE HwRecover
    BY <1>2 DEF HwRecover, DriverSame
  <1>3. CASE InitConfigure
    BY <1>3 DEF InitConfigure, InitSame, Goto
  <1>4. ASSUME NEW h \in Handles, WriteAccepted(h) PROVE esr' \in Esrs
    BY <1>4 DEF WriteAccepted, Writing, ClearErrors
  <1>5. CASE WriteStops
    BY <1>5 DEF WriteStops, Writing, Stop, ClearErrors
  <1>6. CASE PollStops
    BY <1>6 DEF PollStops, Goto, PollSame, Stop, ClearErrors
  <1>7. CASE ReadStops
    BY <1>7 DEF ReadStops, Goto, ReadSame, Stop, ClearErrors
  <1>8. CASE HwAcknowledge \/ HwTransmit \/ HwTxAbnormal \/ HwReceive \/
            HwMoveIn \/ HwNotReady \/ InitStart \/ InitDisable \/
            InitEnable \/ InitFreeze \/ InitReset \/ InitIsReset \/
            InitExited \/ InitReady \/ InitTimeout \/ UpperDone \/
            PollNothing \/ PollConfirms \/ CallbackDone \/ ReadNothing
            \/ ReadLocks \/ ReadUnlocks \/ ReadReports \/ UNCHANGED vars
    BY <1>8 DEF HwAcknowledge, DriverSame, HwTransmit, HwTxAbnormal,
       HwReceive, HwMoveIn, HwNotReady, InitStart, InitSame, InitDisable,
       Goto, InitStage, InitEnable, InitFreeze, InitReset, InitIsReset,
       InitExited, InitReady, InitTimeout, Stop, UpperDone, PollNothing,
       PollSame, PollConfirms, CallbackDone, ReadNothing, ReadSame,
       ReadLocks, ReadUnlocks, ReadReports, vars
  <1> HIDE DEF Esrs
  <1> QED
    BY <1>1, <1>2, <1>3, <1>4, <1>5, <1>6, <1>7, <1>8 DEF Next, Hardware,
       MainLoop, InitStep

\* MB9 is filled by the bus and emptied by Can_MainFunction_Read.
LEMMA Mb9Type ==
    ASSUME mb9 \in Mb9s, arrived \in 0..MaxFrames, [Next]_vars
    PROVE  mb9' \in Mb9s
  <1>1. CASE HwReceive
    <2>1. arrived + 1 \in 0..MaxFrames
      BY <1>1, DriverConfig DEF HwReceive
    <2> QED
      BY <1>1, <2>1, Mb9Update DEF HwReceive
  <1>2. CASE HwMoveIn
    <2>1. mb9.behind \in 0..MaxFrames /\ 0 \in 0..MaxFrames
      BY DriverConfig DEF Mb9s
    <2>2. MovedIn(mb9, mb9.behind) \in Mb9s
      BY <2>1, Mb9Update
    <2>3. [MovedIn(mb9, mb9.behind) EXCEPT !.behind = 0] \in Mb9s
      BY <2>1, <2>2, Mb9Update
    <2> QED
      BY <1>2, <2>3 DEF HwMoveIn
  <1>3. CASE InitConfigure
    BY <1>3, EmptyMb9Type DEF InitConfigure, InitSame, Goto
  <1>4. CASE ReadLocks
    BY <1>4, Mb9Update DEF ReadLocks, Goto, ReadSame
  <1>5. CASE ReadUnlocks
    BY <1>5, Mb9Update DEF ReadUnlocks, Goto, ReadSame
  <1>6. CASE ReadReports
    BY <1>6, Mb9Update DEF ReadReports, Goto, ReadSame
  <1>7. CASE HwAcknowledge \/ HwTransmit \/ HwTxAbnormal \/ HwBusOff \/
            HwRecover \/ HwNotReady \/ InitStart \/ InitDisable \/
            InitEnable \/ InitFreeze \/ InitReset \/ InitIsReset \/
            InitExited \/ InitReady \/ InitTimeout \/ WriteStops \/
            UpperDone \/ PollNothing \/ PollStops \/ PollConfirms \/
            CallbackDone \/ ReadNothing \/ ReadStops \/ (\E h \in
            Handles : WriteAccepted(h)) \/ UNCHANGED vars
    BY <1>7 DEF HwAcknowledge, DriverSame, HwTransmit, HwTxAbnormal,
       HwBusOff, HwRecover, HwNotReady, InitStart, InitSame, InitDisable,
       Goto, InitStage, InitEnable, InitFreeze, InitReset, InitIsReset,
       InitExited, InitReady, InitTimeout, Stop, WriteStops, Writing,
       ClearErrors, UpperDone, PollNothing, PollSame, PollStops,
       PollConfirms, CallbackDone, ReadNothing, ReadSame, ReadStops,
       WriteAccepted, vars
  <1> QED
    BY <1>1, <1>2, <1>3, <1>4, <1>5, <1>6, <1>7 DEF Next, Hardware,
       MainLoop, InitStep

Places ==
    InitStages \cup {"upper", "write", "callback", "read", "locked", "unlocked"}

Drivers ==
    [state : {"UNINIT", "READY", "ERROR"}, txBusy : BOOLEAN,
     handle : Handles \cup {0}]

Requests ==
    [handle : Handles \cup {0},
     status : {"none", "queued", "sent", "confirmed"}]

Others ==
    /\ pc \in Places /\ drv \in Drivers
    /\ snapshot \in [code : Codes, frame : 0..MaxFrames]
    /\ mb8 \in [code : {"INACTIVE", "DATA", "OTHER"}, flag : BOOLEAN]
    /\ arrived \in 0..MaxFrames /\ seen \in 0..arrived
    /\ req \in Requests
    /\ faults \subseteq {"tx", "busoff", "notrdy"}

\* What the rest of the state ranges over.
LEMMA OtherTypes ==
    ASSUME IInv, [Next]_vars
    PROVE  Others'
  <1> USE DriverConfig DEF IInv, TypeOK, InitStages, Places, Drivers,
          Requests, Others
  <1>1. CASE HwAcknowledge
    BY <1>1 DEF HwAcknowledge, DriverSame
  <1>2. CASE HwTransmit
    BY <1>2 DEF HwTransmit, DriverSame
  <1>3. CASE HwTxAbnormal
    BY <1>3 DEF HwTxAbnormal, DriverSame
  <1>4. CASE HwReceive
    BY <1>4 DEF HwReceive, DriverSame
  <1>5. CASE HwMoveIn
    BY <1>5 DEF HwMoveIn, DriverSame
  <1>6. CASE HwBusOff
    BY <1>6 DEF HwBusOff, DriverSame
  <1>7. CASE HwRecover
    BY <1>7 DEF HwRecover, DriverSame
  <1>8. CASE HwNotReady
    BY <1>8 DEF HwNotReady, DriverSame
  <1>9. CASE InitStart
    BY <1>9 DEF InitStart, InitSame
  <1>10. CASE InitDisable
    BY <1>10 DEF InitDisable, InitSame, Goto, InitStage
  <1>11. CASE InitEnable
    BY <1>11 DEF InitEnable, InitSame, Goto, InitStage
  <1>12. CASE InitFreeze
    BY <1>12 DEF InitFreeze, InitSame, Goto, InitStage
  <1>13. CASE InitReset
    BY <1>13 DEF InitReset, InitSame, Goto, InitStage
  <1>14. CASE InitIsReset
    BY <1>14 DEF InitIsReset, InitSame, Goto, InitStage
  <1>15. CASE InitConfigure
    BY <1>15 DEF InitConfigure, InitSame, Goto
  <1>16. CASE InitExited
    BY <1>16 DEF InitExited, InitSame, Goto, InitStage
  <1>17. CASE InitReady
    BY <1>17 DEF InitReady, InitSame, Goto
  <1>18. CASE InitTimeout
    BY <1>18 DEF InitTimeout, InitSame, Stop
  <1>19. CASE WriteStops
    BY <1>19 DEF WriteStops, Writing, Stop, ClearErrors
  <1>20. CASE UpperDone
    BY <1>20 DEF UpperDone, Goto
  <1>21. CASE PollNothing
    BY <1>21 DEF PollNothing, Goto, PollSame
  <1>22. CASE PollStops
    BY <1>22 DEF PollStops, Goto, PollSame, Stop, ClearErrors
  <1>23. CASE PollConfirms
    BY <1>23 DEF PollConfirms, Goto, PollSame
  <1>24. CASE CallbackDone
    BY <1>24 DEF CallbackDone, Goto, PollSame
  <1>25. CASE ReadNothing
    BY <1>25 DEF ReadNothing, Goto, ReadSame
  <1>26. CASE ReadStops
    BY <1>26 DEF ReadStops, Goto, ReadSame, Stop, ClearErrors
  <1>27. CASE ReadLocks
    BY <1>27 DEF ReadLocks, Goto, ReadSame
  <1>28. CASE ReadUnlocks
    BY <1>28 DEF ReadUnlocks, Goto, ReadSame
  <1>29. CASE ReadReports
    BY <1>29 DEF ReadReports, Goto, ReadSame, ReceiveInv, Newest, LastTaken
  <1>30. ASSUME NEW h \in Handles, WriteAccepted(h) PROVE Others'
    BY <1>30 DEF WriteAccepted, Writing, ClearErrors
  <1>31. CASE UNCHANGED vars
    BY <1>31 DEF vars
  <1> HIDE DriverConfig DEF IInv, TypeOK, InitStages, Places, Drivers,
          Requests, Others
  <1> QED
    BY <1>1, <1>2, <1>3, <1>4, <1>5, <1>6, <1>7, <1>8, <1>9, <1>10, <1>11,
       <1>12, <1>13, <1>14, <1>15, <1>16, <1>17, <1>18, <1>19, <1>20, <1>21,
       <1>22, <1>23, <1>24, <1>25, <1>26, <1>27, <1>28, <1>29, <1>30, <1>31
       DEF Next, Hardware, MainLoop, InitStep

LEMMA TypeStep ==
    ASSUME IInv, [Next]_vars
    PROVE  TypeOK'
  <1>1. mcr \in Bits /\ esr \in Esrs /\ mb9 \in Mb9s /\ arrived \in 0..MaxFrames
    BY DEF IInv, TypeOK, Esrs, Mb9s
  <1>2. mcr' \in Bits /\ esr' \in Esrs /\ mb9' \in Mb9s
    BY <1>1, McrType, EsrType, Mb9Type
  <1> QED
    BY <1>2, OtherTypes
       DEF TypeOK, Esrs, Mb9s, Places, Drivers, Requests, Others

----------------------------------------------------------------------------
(* The invariant, step by step.                                            *)

\* Can_Init goes from stage to stage only on an acknowledgement; no hardware
\* move takes back one that a stage relies on, but for a fault.
LEMMA StageStep ==
    ASSUME IInv, [Next]_vars
    PROVE  StageInv'
  <1> USE DEF IInv, TypeOK, Bits, StageInv, Enabled, Ready, InitStages
  <1>1. CASE HwAcknowledge
    <2>1. UNCHANGED <<pc, drv, faults>>
      BY <1>1 DEF HwAcknowledge, DriverSame
    <2>2. CASE /\ mcr.softrst
              /\ mcr' = [mcr EXCEPT !.softrst = FALSE, !.halt = TRUE]
      BY <2>1, <2>2 DEF Bits
    <2>3. CASE /\ mcr.mdis # mcr.lpmack
              /\ mcr' = [mcr EXCEPT !.lpmack = mcr.mdis, !.frzack = FALSE,
                                    !.notrdy = TRUE]
      BY <2>1, <2>3 DEF Bits
    <2>4. CASE /\ ~mcr.mdis /\ ~mcr.lpmack /\ mcr.halt # mcr.frzack
              /\ mcr' = [mcr EXCEPT !.frzack = mcr.halt, !.notrdy = TRUE]
      BY <2>1, <2>4 DEF Bits
    <2>5. CASE mcr' = [mcr EXCEPT !.notrdy = FALSE]
      BY <2>1, <2>5 DEF Bits
    <2> QED
      BY <1>1, <2>2, <2>3, <2>4, <2>5 DEF HwAcknowledge
  <1>2. CASE HwBusOff
    BY <1>2 DEF HwBusOff, DriverSame
  <1>3. CASE HwNotReady
    BY <1>3 DEF HwNotReady, DriverSame
  <1>4. CASE InitStart
    BY <1>4 DEF InitStart, InitSame
  <1>5. CASE InitDisable
    BY <1>5 DEF InitDisable, InitSame, Goto, InitStage, StageDone
  <1>6. CASE InitEnable
    BY <1>6 DEF InitEnable, InitSame, Goto, InitStage, StageDone
  <1>7. CASE InitFreeze
    BY <1>7 DEF InitFreeze, InitSame, Goto, InitStage, StageDone
  <1>8. CASE InitReset
    BY <1>8 DEF InitReset, InitSame, Goto, InitStage, StageDone
  <1>9. CASE InitIsReset
    BY <1>9 DEF InitIsReset, InitSame, Goto, InitStage, StageDone
  <1>10. CASE InitConfigure
    BY <1>10 DEF InitConfigure, InitSame, Goto, StageDone
  <1>11. CASE InitExited
    BY <1>11 DEF InitExited, InitSame, Goto, InitStage, StageDone
  <1>12. CASE InitReady
    BY <1>12 DEF InitReady, InitSame, Goto, StageDone
  <1>13. CASE InitTimeout
    BY <1>13 DEF InitTimeout, InitSame, Stop, StageDone
  <1>14. CASE WriteStops
    BY <1>14 DEF WriteStops, Writing, Stop, ClearErrors
  <1>15. CASE UpperDone
    BY <1>15 DEF UpperDone, Goto
  <1>16. CASE PollNothing
    BY <1>16 DEF PollNothing, Goto, PollSame
  <1>17. CASE PollStops
    BY <1>17 DEF PollStops, Goto, PollSame, Stop, ClearErrors
  <1>18. CASE PollConfirms
    BY <1>18 DEF PollConfirms, Goto, PollSame
  <1>19. CASE CallbackDone
    BY <1>19 DEF CallbackDone, Goto, PollSame
  <1>20. CASE ReadNothing
    BY <1>20 DEF ReadNothing, Goto, ReadSame
  <1>21. CASE ReadStops
    BY <1>21 DEF ReadStops, Goto, ReadSame, Stop, ClearErrors
  <1>22. CASE ReadLocks
    BY <1>22 DEF ReadLocks, Goto, ReadSame
  <1>23. CASE ReadUnlocks
    BY <1>23 DEF ReadUnlocks, Goto, ReadSame
  <1>24. CASE ReadReports
    BY <1>24 DEF ReadReports, Goto, ReadSame
  <1>25. CASE HwTransmit \/ HwTxAbnormal \/ HwReceive \/ HwMoveIn \/
            HwRecover \/ (\E h \in Handles : WriteAccepted(h)) \/
            UNCHANGED vars
    BY ZenonT(30), <1>25 DEF HwTransmit, DriverSame, HwTxAbnormal, HwReceive, HwMoveIn,
       HwRecover, WriteAccepted, Writing, ClearErrors, vars
  <1> HIDE DEF IInv, TypeOK, Bits, StageInv, Enabled, Ready, InitStages
  <1> QED
    BY <1>1, <1>2, <1>3, <1>4, <1>5, <1>6, <1>7, <1>8, <1>9, <1>10, <1>11,
       <1>12, <1>13, <1>14, <1>15, <1>16, <1>17, <1>18, <1>19, <1>20, <1>21,
       <1>22, <1>23, <1>24, <1>25 DEF Next, Hardware, MainLoop, InitStep

\* BOFFINT is written back to zero only where the controller was healthy, where
\* it is stopped, or where Can_Init configures it.
LEMMA LatchStep ==
    ASSUME IInv, [Next]_vars
    PROVE  LatchInv'
  <1> USE DEF IInv, TypeOK, StageInv, LatchInv, Configured, Ready, Enabled,
          InitStages
  <1>1. CASE HwTxAbnormal
    BY <1>1 DEF HwTxAbnormal, DriverSame
  <1>2. CASE HwBusOff
    BY <1>2 DEF HwBusOff, DriverSame
  <1>3. CASE HwRecover
    BY <1>3 DEF HwRecover, DriverSame
  <1>4. CASE HwNotReady
    BY <1>4 DEF HwNotReady, DriverSame
  <1>5. CASE InitStart
    BY <1>5 DEF InitStart, InitSame
  <1>6. CASE InitDisable
    BY <1>6 DEF InitDisable, InitSame, Goto, InitStage
  <1>7. CASE InitEnable
    BY <1>7 DEF InitEnable, InitSame, Goto, InitStage
  <1>8. CASE InitFreeze
    BY <1>8 DEF InitFreeze, InitSame, Goto, InitStage
  <1>9. CASE InitReset
    BY <1>9 DEF InitReset, InitSame, Goto, InitStage
  <1>10. CASE InitIsReset
    BY <1>10 DEF InitIsReset, InitSame, Goto, InitStage
  <1>11. CASE InitConfigure
    BY <1>11 DEF InitConfigure, InitSame, Goto, EmptyMb9
  <1>12. CASE InitExited
    BY <1>12 DEF InitExited, InitSame, Goto, InitStage
  <1>13. CASE InitReady
    BY <1>13 DEF InitReady, InitSame, Goto
  <1>14. CASE InitTimeout
    BY <1>14 DEF InitTimeout, InitSame, Stop
  <1>15. ASSUME NEW h \in Handles, WriteAccepted(h) PROVE LatchInv'
    BY <1>15 DEF WriteAccepted, Writing, ClearErrors, Healthy
  <1>16. CASE WriteStops
    BY <1>16 DEF WriteStops, Writing, Stop, ClearErrors, Healthy
  <1>17. CASE UpperDone
    BY <1>17 DEF UpperDone, Goto
  <1>18. CASE PollNothing
    BY <1>18 DEF PollNothing, Goto, PollSame, Healthy
  <1>19. CASE PollStops
    BY <1>19 DEF PollStops, Goto, PollSame, Stop, ClearErrors, Healthy
  <1>20. CASE PollConfirms
    BY <1>20 DEF PollConfirms, Goto, PollSame, Healthy
  <1>21. CASE CallbackDone
    BY <1>21 DEF CallbackDone, Goto, PollSame, Healthy
  <1>22. CASE ReadNothing
    BY <1>22 DEF ReadNothing, Goto, ReadSame, Healthy
  <1>23. CASE ReadStops
    BY <1>23 DEF ReadStops, Goto, ReadSame, Stop, ClearErrors, Healthy
  <1>24. CASE ReadLocks
    BY <1>24 DEF ReadLocks, Goto, ReadSame, Healthy
  <1>25. CASE ReadUnlocks
    BY <1>25 DEF ReadUnlocks, Goto, ReadSame, Healthy
  <1>26. CASE ReadReports
    BY <1>26 DEF ReadReports, Goto, ReadSame, Healthy
  <1>27. CASE HwAcknowledge \/ HwTransmit \/ HwReceive \/ HwMoveIn \/
            UNCHANGED vars
    BY <1>27 DEF HwAcknowledge, DriverSame, HwTransmit, HwReceive, HwMoveIn,
       vars
  <1> HIDE DEF IInv, TypeOK, StageInv, LatchInv, Configured, Ready, Enabled,
          InitStages
  <1> QED
    BY <1>1, <1>2, <1>3, <1>4, <1>5, <1>6, <1>7, <1>8, <1>9, <1>10, <1>11,
       <1>12, <1>13, <1>14, <1>15, <1>16, <1>17, <1>18, <1>19, <1>20, <1>21,
       <1>22, <1>23, <1>24, <1>25, <1>26, <1>27 DEF Next, Hardware,
       MainLoop, InitStep

\* MB8 is loaded only by Can_Write and released only by the confirmation.
LEMMA MailboxStep ==
    ASSUME IInv, [Next]_vars
    PROVE  MailboxInv'
  <1> USE DEF IInv, TypeOK, StageInv, MailboxInv, MailboxOwned, Ready,
          Enabled, InitStages
  <1>1. CASE HwTransmit
    BY <1>1 DEF HwTransmit, DriverSame
  <1>2. CASE HwTxAbnormal
    BY <1>2 DEF HwTxAbnormal, DriverSame
  <1>3. CASE InitStart
    BY <1>3 DEF InitStart, InitSame
  <1>4. CASE InitDisable
    BY <1>4 DEF InitDisable, InitSame, Goto, InitStage
  <1>5. CASE InitEnable
    BY <1>5 DEF InitEnable, InitSame, Goto, InitStage
  <1>6. CASE InitFreeze
    BY <1>6 DEF InitFreeze, InitSame, Goto, InitStage
  <1>7. CASE InitReset
    BY <1>7 DEF InitReset, InitSame, Goto, InitStage
  <1>8. CASE InitIsReset
    BY <1>8 DEF InitIsReset, InitSame, Goto, InitStage
  <1>9. CASE InitConfigure
    BY <1>9 DEF InitConfigure, InitSame, Goto
  <1>10. CASE InitExited
    BY <1>10 DEF InitExited, InitSame, Goto, InitStage
  <1>11. CASE InitReady
    BY <1>11 DEF InitReady, InitSame, Goto
  <1>12. CASE InitTimeout
    BY <1>12 DEF InitTimeout, InitSame, Stop
  <1>13. ASSUME NEW h \in Handles, WriteAccepted(h) PROVE MailboxInv'
    BY <1>13 DEF WriteAccepted, Writing, ClearErrors, Healthy
  <1>14. CASE WriteStops
    BY <1>14 DEF WriteStops, Writing, Stop, ClearErrors, Healthy
  <1>15. CASE UpperDone
    BY <1>15 DEF UpperDone, Goto
  <1>16. CASE PollNothing
    BY <1>16 DEF PollNothing, Goto, PollSame, CompletionSeen, Healthy
  <1>17. CASE PollStops
    BY <1>17 DEF PollStops, Goto, PollSame, Stop, ClearErrors,
       CompletionSeen, Healthy
  <1>18. CASE PollConfirms
    BY <1>18 DEF PollConfirms, Goto, PollSame, CompletionSeen, Healthy
  <1>19. CASE CallbackDone
    BY <1>19 DEF CallbackDone, Goto, PollSame, CompletionSeen, Healthy
  <1>20. CASE ReadNothing
    BY <1>20 DEF ReadNothing, Goto, ReadSame, Healthy
  <1>21. CASE ReadStops
    BY <1>21 DEF ReadStops, Goto, ReadSame, Stop, ClearErrors, Healthy
  <1>22. CASE ReadLocks
    BY <1>22 DEF ReadLocks, Goto, ReadSame, Healthy
  <1>23. CASE ReadUnlocks
    BY <1>23 DEF ReadUnlocks, Goto, ReadSame, Healthy
  <1>24. CASE ReadReports
    BY <1>24 DEF ReadReports, Goto, ReadSame, Healthy
  <1>25. CASE HwAcknowledge \/ HwReceive \/ HwMoveIn \/ HwBusOff \/
            HwRecover \/ HwNotReady \/ UNCHANGED vars
    BY <1>25 DEF HwAcknowledge, DriverSame, HwReceive, HwMoveIn, HwBusOff,
       HwRecover, HwNotReady, vars
  <1> HIDE DEF IInv, TypeOK, StageInv, MailboxInv, MailboxOwned, Ready,
          Enabled, InitStages
  <1> QED
    BY <1>1, <1>2, <1>3, <1>4, <1>5, <1>6, <1>7, <1>8, <1>9, <1>10, <1>11,
       <1>12, <1>13, <1>14, <1>15, <1>16, <1>17, <1>18, <1>19, <1>20, <1>21,
       <1>22, <1>23, <1>24, <1>25 DEF Next, Hardware, MainLoop, InitStep

\* A frame moves into MB9 with OVERRUN exactly when the one before is unread.
LEMMA ReceiveStep ==
    ASSUME IInv, [Next]_vars
    PROVE  ReceiveInv'
  <1> USE DEF IInv, TypeOK, Codes, ReceiveInv, Newest, LastTaken, InitStages
  <1>1. CASE HwReceive
    BY <1>1 DEF HwReceive, DriverSame, MovedIn
  <1>2. CASE HwMoveIn
    BY <1>2 DEF HwMoveIn, DriverSame, MovedIn
  <1>3. CASE InitStart
    BY <1>3 DEF InitStart, InitSame
  <1>4. CASE InitDisable
    BY <1>4 DEF InitDisable, InitSame, Goto, InitStage
  <1>5. CASE InitEnable
    BY <1>5 DEF InitEnable, InitSame, Goto, InitStage
  <1>6. CASE InitFreeze
    BY <1>6 DEF InitFreeze, InitSame, Goto, InitStage
  <1>7. CASE InitReset
    BY <1>7 DEF InitReset, InitSame, Goto, InitStage
  <1>8. CASE InitIsReset
    BY <1>8 DEF InitIsReset, InitSame, Goto, InitStage
  <1>9. CASE InitConfigure
    BY <1>9 DEF InitConfigure, InitSame, Goto, EmptyMb9
  <1>10. CASE InitExited
    BY <1>10 DEF InitExited, InitSame, Goto, InitStage
  <1>11. CASE InitReady
    BY <1>11 DEF InitReady, InitSame, Goto
  <1>12. CASE InitTimeout
    BY <1>12 DEF InitTimeout, InitSame, Stop
  <1>13. ASSUME NEW h \in Handles, WriteAccepted(h) PROVE ReceiveInv'
    BY <1>13 DEF WriteAccepted, Writing, ClearErrors
  <1>14. CASE WriteStops
    BY <1>14 DEF WriteStops, Writing, Stop, ClearErrors
  <1>15. CASE UpperDone
    BY <1>15 DEF UpperDone, Goto
  <1>16. CASE PollNothing
    BY <1>16 DEF PollNothing, Goto, PollSame
  <1>17. CASE PollStops
    BY <1>17 DEF PollStops, Goto, PollSame, Stop, ClearErrors
  <1>18. CASE PollConfirms
    BY <1>18 DEF PollConfirms, Goto, PollSame
  <1>19. CASE CallbackDone
    BY <1>19 DEF CallbackDone, Goto, PollSame
  <1>20. CASE ReadNothing
    BY <1>20 DEF ReadNothing, Goto, ReadSame
  <1>21. CASE ReadStops
    BY <1>21 DEF ReadStops, Goto, ReadSame, Stop, ClearErrors
  <1>22. CASE ReadLocks
    BY <1>22 DEF ReadLocks, Goto, ReadSame
  <1>23. CASE ReadUnlocks
    BY <1>23 DEF ReadUnlocks, Goto, ReadSame
  <1>24. CASE ReadReports
    BY <1>24 DEF ReadReports, Goto, ReadSame
  <1>25. CASE HwAcknowledge \/ HwTransmit \/ HwTxAbnormal \/ HwBusOff \/
            HwRecover \/ HwNotReady \/ UNCHANGED vars
    BY <1>25 DEF HwAcknowledge, DriverSame, HwTransmit, HwTxAbnormal,
       HwBusOff, HwRecover, HwNotReady, vars
  <1> HIDE DEF IInv, TypeOK, Codes, ReceiveInv, Newest, LastTaken,
          InitStages
  <1> QED
    BY <1>1, <1>2, <1>3, <1>4, <1>5, <1>6, <1>7, <1>8, <1>9, <1>10, <1>11,
       <1>12, <1>13, <1>14, <1>15, <1>16, <1>17, <1>18, <1>19, <1>20, <1>21,
       <1>22, <1>23, <1>24, <1>25 DEF Next, Hardware, MainLoop, InitStep

----------------------------------------------------------------------------

LEMMA InitInv == Init => IInv
  <1> SUFFICES ASSUME Init PROVE IInv
    OBVIOUS
  <1>1. TypeOK
    <2>1. mcr \in Bits
      <3>1. PowerOn \in Bits /\ Running \in Bits
        BY DEF Bits, PowerOn, Running
      <3> QED
        BY <3>1 DEF Init
    <2>2. mb9 \in Mb9s
      BY EmptyMb9Type DEF Init
    <2>3. 0 \in 0..MaxFrames
      BY DriverConfig
    <2> QED
      BY <2>1, <2>2, <2>3 DEF Init, TypeOK, Mb9s, Codes, NoSnapshot
  <1>2. StageInv /\ LatchInv /\ MailboxInv
    BY DEF Init, StageInv, LatchInv, MailboxInv, MailboxOwned, Configured,
           Ready, Enabled, InitStages
  <1>3. ReceiveInv
    BY DEF Init, ReceiveInv, Newest, LastTaken, EmptyMb9
  <1> QED
    BY <1>1, <1>2, <1>3 DEF IInv

LEMMA StepInv == IInv /\ [Next]_vars => IInv'
  BY TypeStep, StageStep, LatchStep, MailboxStep, ReceiveStep DEF IInv

LEMMA IInvAlways == Spec => []IInv
  BY InitInv, StepInv, PTL DEF Spec

(* Every reachable state of the driver and of the registers it programs    *)
(* has its declared type.                                                  *)
THEOREM TypeCorrect == Spec => []TypeOK
  <1>1. IInv => TypeOK
    BY DEF IInv
  <1> QED
    BY <1>1, IInvAlways, PTL

(* READY means on the bus: whichever stages of Can_Init timed out before   *)
(* and whatever the hardware did between them, Can_Init sets READY only on *)
(* a controller in normal operation, and only a fault takes it out of it.  *)
THEOREM ReadyIsOnBusAlways == Spec => []ReadyIsOnBus
  <1>1. IInv => ReadyIsOnBus
    <2> SUFFICES ASSUME IInv, Ready, faults = {} PROVE mcr = Running
      BY DEF ReadyIsOnBus, Ready
    <2>1. /\ mcr.mdis = FALSE /\ mcr.halt = FALSE /\ mcr.softrst = FALSE
          /\ mcr.lpmack = FALSE /\ mcr.frzack = FALSE /\ mcr.notrdy = FALSE
      BY DEF IInv, StageInv, TypeOK, Bits
    <2> QED
      BY <2>1 DEF IInv, TypeOK, Bits, Running
  <1> QED
    BY <1>1, IInvAlways, PTL

(* The driver is busy exactly while MB8 holds a frame or its completion,   *)
(* and the two agree on the request in flight, also when the confirmation  *)
(* callback sends the next one.                                            *)
THEOREM MailboxOwnedAlways == Spec => []MailboxOwned
  <1>1. IInv => MailboxOwned
    BY DEF IInv, MailboxInv
  <1> QED
    BY <1>1, IInvAlways, PTL

----------------------------------------------------------------------------
(* Action properties.                                                      *)

LEMMA OnlyPollConfirms ==
    ASSUME IInv, [Next]_vars, Confirms
    PROVE  PollConfirms
  <1>1. pc = "write" /\ pc' = "callback"
    BY DEF Confirms
  <1>2. CASE Hardware
    BY <1>1, <1>2
       DEF Hardware, HwAcknowledge, HwTransmit, HwTxAbnormal, HwReceive,
           HwMoveIn, HwBusOff, HwRecover, HwNotReady, DriverSame
  <1>3. CASE InitStart \/ InitStep
    BY <1>1, <1>3
       DEF InitStart, InitStep, InitDisable, InitEnable, InitFreeze, InitReset,
           InitIsReset, InitConfigure, InitExited, InitReady, InitTimeout,
           InitStage, InitStages, Goto
  <1>4. CASE (\E h \in Handles : WriteAccepted(h)) \/ WriteStops
    BY <1>1, <1>4 DEF WriteAccepted, WriteStops, Writing
  <1>5. CASE UpperDone \/ PollNothing \/ PollStops \/ CallbackDone
             \/ ReadNothing \/ ReadStops \/ ReadLocks \/ ReadUnlocks
             \/ ReadReports \/ UNCHANGED vars
    BY <1>1, <1>5
       DEF UpperDone, PollNothing, PollStops, CallbackDone, ReadNothing,
           ReadStops, ReadLocks, ReadUnlocks, ReadReports, Goto, vars
  <1> QED
    BY <1>2, <1>3, <1>4, <1>5 DEF Next, MainLoop

(* Can_MainFunction_Write confirms only a frame that has been on the bus,  *)
(* under the handle it was accepted with.                                  *)
THEOREM ConfirmedWasSentAlways == Spec => ConfirmedWasSent
  <1>1. IInv /\ [Next]_vars
           => [Confirms => req.status = "sent" /\ req.handle = drv.handle]_vars
    BY OnlyPollConfirms
       DEF PollConfirms, CompletionSeen, IInv, MailboxInv, MailboxOwned
  <1> QED
    BY <1>1, IInvAlways, PTL DEF Spec, ConfirmedWasSent

\* A request is accepted by Can_Write and by nothing else.
LEMMA OnlyWriteAccepts ==
    ASSUME IInv, [Next]_vars, Accepts
    PROVE  \E h \in Handles : WriteAccepted(h)
  <1>1. req'.status = "queued" /\ req.status # "queued"
    BY DEF Accepts
  <1>2. CASE Hardware
    BY <1>1, <1>2
       DEF Hardware, HwAcknowledge, HwTransmit, HwTxAbnormal, HwReceive,
           HwMoveIn, HwBusOff, HwRecover, HwNotReady, IInv, TypeOK
  <1>3. CASE InitStart \/ InitStep
    BY <1>1, <1>3
       DEF InitStart, InitStep, InitDisable, InitEnable, InitFreeze, InitReset,
           InitIsReset, InitConfigure, InitExited, InitReady, InitTimeout,
           InitStage
  <1>4. CASE PollConfirms
    BY <1>1, <1>4 DEF PollConfirms, IInv, TypeOK
  <1>5. CASE WriteStops \/ UpperDone \/ PollNothing \/ PollStops
             \/ CallbackDone \/ UNCHANGED vars
    BY <1>1, <1>5
       DEF WriteStops, UpperDone, PollNothing, PollStops, CallbackDone,
           PollSame, vars
  <1>6. CASE ReadNothing \/ ReadStops \/ ReadLocks \/ ReadUnlocks \/ ReadReports
    BY <1>1, <1>6
       DEF ReadNothing, ReadStops, ReadLocks, ReadUnlocks, ReadReports, ReadSame
  <1> QED
    BY <1>2, <1>3, <1>4, <1>5, <1>6 DEF Next, MainLoop

(* Bus-off latches ERROR even if the controller has recovered before the   *)
(* next poll: from then on nothing is accepted or confirmed until Can_Init *)
(* has configured the controller again.                                    *)
THEOREM BusOffLatchesAlways == Spec => BusOffLatches
  <1>1. IInv /\ [Next]_vars
           => [Confirms \/ Accepts => "busoff" \notin faults]_vars
    <2> SUFFICES ASSUME IInv, [Next]_vars, Confirms \/ Accepts
                 PROVE  "busoff" \notin faults
      OBVIOUS
    <2>1. drv.state = "READY" /\ ~esr.boffint
      BY OnlyPollConfirms, OnlyWriteAccepts
         DEF PollConfirms, CompletionSeen, WriteAccepted, Writing, Healthy
    <2> QED
      BY <2>1 DEF IInv, LatchInv, Configured, Ready
  <1> QED
    BY <1>1, IInvAlways, PTL DEF Spec, BusOffLatches

(* Frames are reported in the order they came and never twice, and a       *)
(* report says OVERRUN exactly when a frame before it was lost.            *)
THEOREM LossIsReportedAlways == Spec => LossIsReported
  <1>1. IInv /\ [Next]_vars
           => [pc = "unlocked" => /\ snapshot.frame > seen
                                  /\ snapshot.frame > seen + 1 <=>
                                        snapshot.code = "OVERRUN"]_<<pc, seen>>
    BY DEF IInv, ReceiveInv
  <1> QED
    BY <1>1, IInvAlways, PTL DEF Spec, LossIsReported

============================================================================
