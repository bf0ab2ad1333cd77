----------------------------- MODULE CanDriver -----------------------------
(***************************************************************************)
(* The CAN driver (can_driver/Can.c) over its FlexCAN hardware: the staged *)
(* initialisation with its bounded waits, one transmit mailbox (MB8) and   *)
(* one receive mailbox (MB9), both polled from the main loop, and the      *)
(* faults that latch the driver in ERROR.                                  *)
(*                                                                         *)
(* The hardware moves between any two register accesses of the driver, so  *)
(* a driver function is one action only when no such move can be told from *)
(* a move before or after it; Can_Init and Can_MainFunction_Read are split *)
(* where it can.  "pc" is where the one thread of the ECU stands: in the   *)
(* upper layers, in the confirmation callback, in a poll, or in the wait   *)
(* of an initialisation stage.                                             *)
(***************************************************************************)
EXTENDS Integers

CONSTANTS
    Handles,    \* the software PDU handles the upper layers send with
    MaxFrames   \* bound: how many frames the bus brings in a behaviour

ASSUME DriverConfig == Handles # {} /\ MaxFrames \in Nat

VARIABLES
    pc,         \* where the main loop stands
    drv,        \* Can_State, Can_TxBusy, Can_TxHandle
    snapshot,   \* the locals of Can_MainFunction_Read
    mcr,        \* CAN0->MCR: requests and acknowledgements
    esr,        \* CAN0->ESR1: the latched BOFFINT and the current FLTCONF
    mb8,        \* transmit mailbox: its code and its IFLAG bit
    mb9,        \* receive mailbox, with the frame waiting behind its lock
    arrived,    \* history: frames the bus has brought so far
    seen,       \* history: the last of them the driver reported
    req,        \* history: the last accepted request and what became of it
    faults      \* history: the hardware faults since the last initialisation

vars == <<pc, drv, snapshot, mcr, esr, mb8, mb9, arrived, seen, req, faults>>

InitStages ==
    {"PRE_DISABLE_FREEZE", "DISABLE_ACK", "ENABLE_ACK", "FREEZE_ENTRY",
     "RESET_COMPLETE", "RESET_FREEZE_ACK", "FREEZE_EXIT", "READY_ACK"}

Running == [mdis |-> FALSE, halt |-> FALSE, softrst |-> FALSE,
            lpmack |-> FALSE, frzack |-> FALSE, notrdy |-> FALSE]

PowerOn == [mdis |-> TRUE, halt |-> TRUE, softrst |-> FALSE,
            lpmack |-> TRUE, frzack |-> FALSE, notrdy |-> TRUE]

EmptyMb9 == [code |-> "EMPTY", frame |-> 0, unread |-> FALSE,
             flag |-> FALSE, locked |-> FALSE, behind |-> 0]

NoSnapshot == [code |-> "EMPTY", frame |-> 0]

\* Power-on, or a warm start over a controller that still runs (Can.c:319).
Init ==
    /\ pc = "upper"
    /\ drv = [state |-> "UNINIT", txBusy |-> FALSE, handle |-> 0]
    /\ snapshot = NoSnapshot
    /\ mcr \in {PowerOn, Running}
    /\ esr = [boffint |-> FALSE, busoff |-> FALSE]
    /\ mb8 = [code |-> "INACTIVE", flag |-> FALSE]
    /\ mb9 = EmptyMb9
    /\ arrived = 0 /\ seen = 0
    /\ req = [handle |-> 0, status |-> "none"]
    /\ faults = {}

----------------------------------------------------------------------------
(* The hardware.  OnBus: the controller takes part in bus traffic.         *)

OnBus ==
    ~mcr.mdis /\ ~mcr.lpmack /\ ~mcr.frzack /\ ~mcr.notrdy /\ ~esr.busoff

DriverSame == UNCHANGED <<pc, drv, snapshot, seen>>

\* Each acknowledgement follows its request, in its own time.
HwAcknowledge ==
    /\ \/ /\ mcr.softrst
          /\ mcr' = [mcr EXCEPT !.softrst = FALSE, !.halt = TRUE]
       \/ /\ mcr.mdis # mcr.lpmack
          /\ mcr' = [mcr EXCEPT !.lpmack = mcr.mdis, !.frzack = FALSE, !.notrdy = TRUE]
       \/ /\ ~mcr.mdis /\ ~mcr.lpmack /\ mcr.halt # mcr.frzack
          /\ mcr' = [mcr EXCEPT !.frzack = mcr.halt, !.notrdy = TRUE]
       \/ /\ ~mcr.mdis /\ ~mcr.lpmack /\ ~mcr.halt /\ ~mcr.frzack /\ mcr.notrdy
          /\ mcr' = [mcr EXCEPT !.notrdy = FALSE]
    /\ DriverSame
    /\ UNCHANGED <<esr, mb8, mb9, arrived, req, faults>>

HwTransmit ==
    /\ OnBus /\ mb8.code = "DATA"
    /\ mb8' = [code |-> "INACTIVE", flag |-> TRUE]
    /\ req' = [req EXCEPT !.status = "sent"]
    /\ DriverSame
    /\ UNCHANGED <<mcr, esr, mb9, arrived, faults>>

\* MB8 completes with a code the driver does not expect.
HwTxAbnormal ==
    /\ OnBus /\ mb8.code = "DATA"
    /\ mb8' = [code |-> "OTHER", flag |-> TRUE]
    /\ faults' = faults \cup {"tx"}
    /\ DriverSame
    /\ UNCHANGED <<mcr, esr, mb9, arrived, req>>

\* A frame enters MB9; one nobody has serviced is overwritten.
MovedIn(mb, n) ==
    [mb EXCEPT !.code = IF mb.unread THEN "OVERRUN" ELSE "FULL",
               !.frame = n, !.unread = TRUE, !.flag = TRUE]

\* While the CPU holds the lock the frame waits behind the mailbox; the few
\* reads of the driver are too short for a second one (a frame takes 94 us).
HwReceive ==
    /\ OnBus /\ arrived < MaxFrames
    /\ mb9.behind = 0
    /\ arrived' = arrived + 1
    /\ mb9' = IF mb9.locked THEN [mb9 EXCEPT !.behind = arrived + 1]
              ELSE MovedIn(mb9, arrived + 1)
    /\ DriverSame
    /\ UNCHANGED <<mcr, esr, mb8, req, faults>>

HwMoveIn ==
    /\ mb9.behind # 0 /\ ~mb9.locked
    /\ mb9' = [MovedIn(mb9, mb9.behind) EXCEPT !.behind = 0]
    /\ DriverSame
    /\ UNCHANGED <<mcr, esr, mb8, arrived, req, faults>>

HwBusOff ==
    /\ OnBus
    /\ esr' = [boffint |-> TRUE, busoff |-> TRUE]
    /\ faults' = faults \cup {"busoff"}
    /\ DriverSame
    /\ UNCHANGED <<mcr, mb8, mb9, arrived, req>>

\* FlexCAN leaves bus-off by itself; BOFFINT stays until it is written.
HwRecover ==
    /\ esr.busoff
    /\ esr' = [esr EXCEPT !.busoff = FALSE]
    /\ DriverSame
    /\ UNCHANGED <<mcr, mb8, mb9, arrived, req, faults>>

\* Readiness lost without a request: a debugger or a clock failure.
HwNotReady ==
    /\ OnBus
    /\ mcr' = [mcr EXCEPT !.notrdy = TRUE]
    /\ faults' = faults \cup {"notrdy"}
    /\ DriverSame
    /\ UNCHANGED <<esr, mb8, mb9, arrived, req>>

Hardware ==
    HwAcknowledge \/ HwTransmit \/ HwTxAbnormal \/ HwReceive \/ HwMoveIn
    \/ HwBusOff \/ HwRecover \/ HwNotReady

----------------------------------------------------------------------------
(* Can_CheckController, Can_Stop                                           *)

\* mutant: a bus-off the controller has left again is not noticed
HealthyNow ==
    ~esr.busoff /\ ~mcr.mdis /\ ~mcr.halt /\ ~mcr.frzack /\ ~mcr.notrdy

Healthy ==
    /\ ~esr.boffint /\ ~esr.busoff
    /\ ~mcr.mdis /\ ~mcr.halt /\ ~mcr.frzack /\ ~mcr.notrdy

ClearErrors == esr' = [esr EXCEPT !.boffint = FALSE]

Stop == drv' = [drv EXCEPT !.state = "ERROR"] /\ mcr' = [mcr EXCEPT !.halt = TRUE]

Goto(p, q) == pc = p /\ pc' = q

----------------------------------------------------------------------------
(* Can_Init: each wait ends in its acknowledgement or in a timeout.        *)

StageDone(stage) ==
    CASE stage \in {"PRE_DISABLE_FREEZE", "FREEZE_ENTRY", "RESET_FREEZE_ACK"} -> mcr.frzack
      [] stage = "DISABLE_ACK"    -> mcr.lpmack
      [] stage = "ENABLE_ACK"     -> ~mcr.lpmack
      [] stage = "RESET_COMPLETE" -> ~mcr.softrst
      [] stage = "FREEZE_EXIT"    -> ~mcr.frzack
      [] stage = "READY_ACK"      -> ~mcr.notrdy

InitSame == UNCHANGED <<snapshot, arrived>>

\* A call in READY, with a bad configuration or without the oscillator
\* changes nothing.
InitStart ==
    /\ pc = "upper" /\ drv.state # "READY"
    /\ pc' = IF mcr.mdis THEN "DISABLE_ACK" ELSE "PRE_DISABLE_FREEZE"
    /\ mcr' = IF mcr.mdis THEN mcr ELSE [mcr EXCEPT !.halt = TRUE]
    /\ InitSame /\ UNCHANGED <<drv, esr, mb8, mb9, seen, req, faults>>

InitStage(from, to, next) ==
    /\ Goto(from, to) /\ StageDone(from)
    /\ mcr' = next
    /\ InitSame /\ UNCHANGED <<drv, esr, mb8, mb9, seen, req, faults>>

InitDisable == InitStage("PRE_DISABLE_FREEZE", "DISABLE_ACK", [mcr EXCEPT !.mdis = TRUE])
InitEnable  == InitStage("DISABLE_ACK", "ENABLE_ACK",
                         [mcr EXCEPT !.mdis = FALSE, !.halt = TRUE])
InitFreeze  == InitStage("ENABLE_ACK", "FREEZE_ENTRY", [mcr EXCEPT !.halt = TRUE])
InitReset   == InitStage("FREEZE_ENTRY", "RESET_COMPLETE", [mcr EXCEPT !.softrst = TRUE])
InitIsReset == InitStage("RESET_COMPLETE", "RESET_FREEZE_ACK", mcr)

\* mutant: MB9 is armed with a code of a transmit mailbox
InitArmsMb9Inactive ==
    /\ Goto("RESET_FREEZE_ACK", "FREEZE_EXIT") /\ StageDone("RESET_FREEZE_ACK")
    /\ mb8' = [code |-> "INACTIVE", flag |-> FALSE]
    /\ mb9' = [EmptyMb9 EXCEPT !.code = "INACTIVE"]
    /\ esr' = [esr EXCEPT !.boffint = FALSE]
    /\ mcr' = [mcr EXCEPT !.halt = FALSE]
    /\ seen' = arrived
    /\ req' = [handle |-> 0, status |-> "none"]
    /\ faults' = {}
    /\ InitSame /\ UNCHANGED drv

\* Can_ConfigureController, Can_InitMessageBuffers, and the exit request.
InitConfigure ==
    /\ Goto("RESET_FREEZE_ACK", "FREEZE_EXIT") /\ StageDone("RESET_FREEZE_ACK")
    /\ mb8' = [code |-> "INACTIVE", flag |-> FALSE]
    /\ mb9' = EmptyMb9
    /\ esr' = [esr EXCEPT !.boffint = FALSE]
    /\ mcr' = [mcr EXCEPT !.halt = FALSE]
    /\ seen' = arrived
    /\ req' = [handle |-> 0, status |-> "none"]
    /\ faults' = {}
    /\ InitSame /\ UNCHANGED drv

InitExited == InitStage("FREEZE_EXIT", "READY_ACK", mcr)

\* mutant: initialisation ends without waiting for NOTRDY to clear
InitReadyEarly ==
    /\ Goto("READY_ACK", "upper")
    /\ drv' = [state |-> "READY", txBusy |-> FALSE, handle |-> 0]
    /\ InitSame /\ UNCHANGED <<mcr, esr, mb8, mb9, seen, req, faults>>

InitReady ==
    /\ Goto("READY_ACK", "upper") /\ StageDone("READY_ACK")
    /\ drv' = [state |-> "READY", txBusy |-> FALSE, handle |-> 0]
    /\ InitSame /\ UNCHANGED <<mcr, esr, mb8, mb9, seen, req, faults>>

InitTimeout ==
    /\ pc \in InitStages /\ ~StageDone(pc)
    /\ pc' = "upper"
    /\ Stop
    /\ InitSame /\ UNCHANGED <<esr, mb8, mb9, seen, req, faults>>

InitStep ==
    InitDisable \/ InitEnable \/ InitFreeze \/ InitReset \/ InitIsReset
    \/ InitConfigure \/ InitExited \/ InitReady \/ InitTimeout

----------------------------------------------------------------------------
(* Can_Write, from the upper layers or from inside the confirmation.  A    *)
(* rejected or busy request changes nothing.                               *)

Writing ==
    /\ pc \in {"upper", "callback"} /\ drv.state = "READY"
    /\ UNCHANGED <<pc, snapshot, mb9, arrived, seen, faults>>

WriteAccepted(h) ==
    /\ Writing
    /\ Healthy /\ ~drv.txBusy /\ mb8.code = "INACTIVE"
    /\ drv' = [drv EXCEPT !.txBusy = TRUE, !.handle = h]
    /\ mb8' = [code |-> "DATA", flag |-> FALSE]
    /\ req' = [handle |-> h, status |-> "queued"]
    /\ ClearErrors /\ UNCHANGED mcr

WriteStops ==
    /\ Writing
    /\ ~Healthy \/ (~drv.txBusy /\ mb8.code # "INACTIVE")
    /\ Stop /\ ClearErrors /\ UNCHANGED <<mb8, req>>

UpperDone ==
    /\ Goto("upper", "write")
    /\ UNCHANGED <<drv, snapshot, mcr, esr, mb8, mb9, arrived, seen, req, faults>>

----------------------------------------------------------------------------
(* Can_MainFunction_Write                                                  *)

PollSame == UNCHANGED <<snapshot, mb9, arrived, seen, faults>>

CompletionSeen == drv.state = "READY" /\ Healthy /\ drv.txBusy /\ mb8.flag

PollNothing ==
    /\ Goto("write", "read")
    /\ drv.state # "READY" \/ (Healthy /\ ~CompletionSeen)
    /\ PollSame /\ UNCHANGED <<drv, mcr, esr, mb8, req>>

PollStops ==
    /\ Goto("write", "read")
    /\ drv.state = "READY"
    /\ ~Healthy \/ (CompletionSeen /\ mb8.code # "INACTIVE")
    /\ Stop /\ ClearErrors
    /\ PollSame /\ UNCHANGED <<mb8, req>>

\* mutant: the code of the completed mailbox is not looked at
PollAnyCompletion ==
    /\ Goto("write", "callback")
    /\ CompletionSeen
    /\ drv' = [drv EXCEPT !.txBusy = FALSE]
    /\ mb8' = [mb8 EXCEPT !.flag = FALSE]
    /\ req' = [req EXCEPT !.status = "confirmed"]
    /\ PollSame /\ UNCHANGED <<mcr, esr>>

\* mutant: Can_TxBusy is not cleared when the frame is confirmed
PollStaysBusy ==
    /\ Goto("write", "callback")
    /\ CompletionSeen /\ mb8.code = "INACTIVE"
    /\ mb8' = [mb8 EXCEPT !.flag = FALSE]
    /\ req' = [req EXCEPT !.status = "confirmed"]
    /\ PollSame /\ UNCHANGED <<drv, mcr, esr>>

\* The mailbox is released, then CanIf_TxConfirmation(drv.handle) is called.
PollConfirms ==
    /\ Goto("write", "callback")
    /\ CompletionSeen /\ mb8.code = "INACTIVE"
    /\ drv' = [drv EXCEPT !.txBusy = FALSE]
    /\ mb8' = [mb8 EXCEPT !.flag = FALSE]
    /\ req' = [req EXCEPT !.status = "confirmed"]
    /\ PollSame /\ UNCHANGED <<mcr, esr>>

CallbackDone ==
    /\ Goto("callback", "read")
    /\ PollSame /\ UNCHANGED <<drv, mcr, esr, mb8, req>>

----------------------------------------------------------------------------
(* Can_MainFunction_Read                                                   *)

ReadSame == UNCHANGED <<arrived, req, faults, mb8>>

\* Nothing to read, or the move-in outlasts CAN_RX_BUSY_LIMIT polls.
ReadNothing ==
    /\ Goto("read", "upper")
    /\ drv.state # "READY" \/ Healthy
    /\ ReadSame /\ UNCHANGED <<drv, snapshot, mcr, esr, mb9, seen>>

ReadStops ==
    /\ Goto("read", "upper")
    /\ drv.state = "READY" /\ ~Healthy
    /\ Stop /\ ClearErrors
    /\ ReadSame /\ UNCHANGED <<snapshot, mb9, seen>>

\* Reading CS locks MB9; what is read until TIMER is one frame.
ReadLocks ==
    /\ Goto("read", "locked")
    /\ drv.state = "READY" /\ Healthy /\ mb9.flag
    /\ snapshot' = [code |-> mb9.code, frame |-> mb9.frame]
    /\ mb9' = [mb9 EXCEPT !.locked = TRUE]
    /\ ReadSame /\ UNCHANGED <<drv, mcr, esr, seen>>

ReadUnlocks ==
    /\ Goto("locked", "unlocked")
    /\ mb9' = [mb9 EXCEPT !.locked = FALSE, !.unread = FALSE]
    /\ ReadSame /\ UNCHANGED <<drv, snapshot, mcr, esr, seen>>

\* mutant: IFLAG1 is written back whole, which clears the flag of MB8 too
ReadClearsAllFlags ==
    /\ Goto("unlocked", "upper")
    /\ mb9' = [mb9 EXCEPT !.flag = FALSE]
    /\ mb8' = [mb8 EXCEPT !.flag = FALSE]
    /\ seen' = snapshot.frame
    /\ UNCHANGED <<arrived, req, faults, drv, snapshot, mcr, esr>>

\* mutant: the notification flag of the frame that was read is kept
ReadKeepsFlag ==
    /\ Goto("unlocked", "upper")
    /\ seen' = snapshot.frame
    /\ ReadSame /\ UNCHANGED <<drv, snapshot, mcr, esr, mb9>>

\* IFLAG is cleared, then a standard data frame goes to CanIf_RxIndication
\* and any other to the log.
ReadReports ==
    /\ Goto("unlocked", "upper")
    /\ mb9' = [mb9 EXCEPT !.flag = FALSE]
    /\ seen' = snapshot.frame
    /\ ReadSame /\ UNCHANGED <<drv, snapshot, mcr, esr>>

----------------------------------------------------------------------------

MainLoop ==
    \/ InitStep
    \/ UpperDone \/ PollNothing \/ PollStops \/ PollConfirms \/ CallbackDone
    \/ ReadNothing \/ ReadStops \/ ReadLocks \/ ReadUnlocks \/ ReadReports

Next ==
    \/ Hardware
    \/ InitStart \/ (\E h \in Handles : WriteAccepted(h)) \/ WriteStops
    \/ MainLoop

Spec == Init /\ [][Next]_vars

\* The main loop keeps running and every wait of Can_Init is bounded; the
\* bus and the hardware owe nothing.
FairSpec == Spec /\ WF_vars(MainLoop)

----------------------------------------------------------------------------
(* Properties.                                                             *)

Bits == [mdis : BOOLEAN, halt : BOOLEAN, softrst : BOOLEAN,
         lpmack : BOOLEAN, frzack : BOOLEAN, notrdy : BOOLEAN]

Codes == {"EMPTY", "FULL", "OVERRUN"}

TypeOK ==
    /\ pc \in InitStages \cup
             {"upper", "write", "callback", "read", "locked", "unlocked"}
    /\ drv \in [state : {"UNINIT", "READY", "ERROR"}, txBusy : BOOLEAN,
                handle : Handles \cup {0}]
    /\ snapshot \in [code : Codes, frame : 0..MaxFrames]
    /\ mcr \in Bits
    /\ esr \in [boffint : BOOLEAN, busoff : BOOLEAN]
    /\ mb8 \in [code : {"INACTIVE", "DATA", "OTHER"}, flag : BOOLEAN]
    /\ mb9 \in [code : Codes, frame : 0..MaxFrames, unread : BOOLEAN,
                flag : BOOLEAN, locked : BOOLEAN, behind : 0..MaxFrames]
    /\ arrived \in 0..MaxFrames /\ seen \in 0..arrived
    /\ req \in [handle : Handles \cup {0},
                status : {"none", "queued", "sent", "confirmed"}]
    /\ faults \subseteq {"tx", "busoff", "notrdy"}

(* READY means on the bus: whatever the stages of Can_Init raced with, and *)
(* whichever of them had timed out before, only a fault takes a READY      *)
(* controller out of normal operation.                                     *)
ReadyIsOnBus == drv.state = "READY" /\ faults = {} => mcr = Running

(* The driver and the mailbox agree on the request in flight: MB8 holds a  *)
(* frame or its completion exactly while the driver is busy with it.  So   *)
(* no request is written over another, no completion goes unowned and the  *)
(* driver is never left busy over an empty mailbox, where every later      *)
(* request would be refused; also when the confirmation callback sends the *)
(* next frame, and after a re-initialisation.                              *)
MailboxOwned ==
    drv.state = "READY" =>
        /\ drv.txBusy <=> mb8.code # "INACTIVE" \/ mb8.flag
        /\ drv.txBusy =>
              /\ drv.handle = req.handle
              /\ req.status = "queued" <=> mb8.code # "INACTIVE"
              /\ req.status = "sent" <=> mb8.code = "INACTIVE" /\ mb8.flag

Confirms == pc = "write" /\ pc' = "callback"

Accepts == req'.status = "queued" /\ req.status # "queued"

(* Can_MainFunction_Write confirms only a frame that has been on the bus,  *)
(* once, and under the handle it was accepted with: an abnormal completion *)
(* or a request lost to a re-initialisation is never confirmed.            *)
ConfirmedWasSent ==
    [][Confirms => req.status = "sent" /\ req.handle = drv.handle]_vars

(* Bus-off latches ERROR even if the controller has recovered before the   *)
(* next poll: nothing is accepted or confirmed until Can_Init succeeds.    *)
BusOffLatches == [][Confirms \/ Accepts => "busoff" \notin faults]_vars

(* Frames are reported in the order they came and never twice, and the     *)
(* report of a frame says OVERRUN exactly when one before it was lost.     *)
LossIsReported ==
    [][pc = "unlocked" => /\ snapshot.frame > seen
                          /\ snapshot.frame > seen + 1 <=>
                                snapshot.code = "OVERRUN"]_<<pc, seen>>

(* A frame in MB9 nobody has read has its flag set, or no poll will look:  *)
(* every valid frame is handed on (docs/can-driver-design.md:117).         *)
NoForgottenFrame ==
    drv.state = "READY" /\ mb9.unread /\ pc \notin {"locked", "unlocked"}
        => mb9.flag

(* A frame that went out is confirmed to its sender, unless the driver     *)
(* stops first: no completion is lost between the two polls.               *)
SentIsConfirmed ==
    req.status = "sent" /\ drv.state = "READY"
        ~> req.status = "confirmed" \/ drv.state = "ERROR"

============================================================================
