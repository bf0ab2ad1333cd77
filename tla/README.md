# Verification of the Mock MCU CAN stack

TLA+ models, model-checking runs and machine-checked proofs for the firmware of
`src/`: three S32K144 ECUs (Master, Slave 1, Slave 2) that exchange signals and
large messages over an AUTOSAR-like CAN stack. The firmware polls everything
from one 1 ms scheduler; only the UART, SysTick and RTC drivers use interrupts.

## 1. The system

One tick of `System_RunTask` (`src/system/System.c:96`) calls

    Can_MainFunction_Write    one confirmation from the transmit mailbox, upwards
    Can_MainFunction_Read     at most one received frame, upwards
    CanTp_MainFunction        CanTp's clock, timeouts, STmin gate, requests
    App_MainFunction          roles, receive queue, image chunks (failure halts)
    Com_MainFunctionTx        periodic signal frames

| Component | State | Operations | Talks to | What is hard | Correct means |
| --- | --- | --- | --- | --- | --- |
| CanTp transmit (`drivers/can/cantp/Cantp.c`) | `CanTp_TxRuntime`, `CanTp_NowMs` | `Transmit`, Data confirmation, Flow Control, `MainFunction` | PduR up, CanIf down | bounded retries, late confirmations, N_As/N_Bs, STmin across blocks, clock wrap | segments in order, quota kept, one result for every N-SDU |
| CanTp receive (same file) | `CanTp_RxRuntime`, `CanTp_DataRxEnabled` | SF, FF, CF, FC confirmation, `MainFunction`, `SetDataRxEnabled` | the same | session replacement, FC locked after an abort, N_Ar/N_Cr | whole messages only, no leaked slot, one FC at a time |
| NodeApp (`app/node_app.c`) | transmit snapshot, two receive slots, three indices | `Transmit`, `Receive`, five PduR callbacks | PduR, application | reserve, fill and publish in separate calls | source locked during a session, FIFO of unread messages |
| PduR (`drivers/can/pdur`) | routing tables | route up and down | all | none of its own | every frame reaches its module |
| CanIf (`drivers/can/canif`) | tables | transmit, confirmation, indication | driver, PduR | configuration consistency | id and handle agree |
| CAN driver (`drivers/can/can_driver/Can.c`) | one transmit and one receive mailbox, mode | `Write`, two poll functions, init | CanIf, hardware | mailbox busy, overrun, fault stop | a PDU is confirmed once; a busy mailbox is refused |
| COM (`drivers/can/com/Com.c`) | per-I-PDU timer, pending, retry, update bits | send and receive signal, `MainFunctionTx` | PduR, application | coalesced periods, drops, starvation | update bits describe what was sent |
| Application (`app/app.c`) | role, KeepAlive, network monitor, image transfer | `MainFunction`, UART callbacks | COM, NodeApp, UART | timeouts, chunk retry, every failure halts | status follows reception |
| Ring buffers, UART | ring indices, transmit interrupt | push and pop from loop and interrupt | application | loop against interrupt | no byte lost silently |
| System | tick counter | `RunTask` | all | catch-up of missed ticks | order of calls |
| Homework stack (`can_task`) | PDU status and data flags | transmit, interrupts | its own driver | confirmation races with the caller | a PDU never stays pending |

Register drivers, start-up code, device headers, on-target self tests and host
tests carry no protocol state and are not modelled. `PROJECT.json` lists every
component with its status, and every hazard at its line.

## 2. What is modelled

| Module | Models |
| --- | --- |
| `CanTpClock` | `CanTp_NowMs`, an unsigned counter that wraps, and the two comparisons made on it |
| `CanTpSegments` | the wire format's sizes, and the segmentation it prescribes, written independently of the code |
| `CanTpTx` | the handlers of the transmit session and NodeApp's source lock |
| `CanTpTxNode` | a sending ECU: those handlers under the scheduler, above one transmit mailbox; the transmit properties |
| `NodeAppQueue` | NodeApp's receive ring as functions of the queue |
| `CanTpRx` | the handlers of the receive session above that ring |
| `CanTpRxNode` | a receiving ECU: those handlers under the scheduler, any frame at any tick, the application loop; the receive properties |
| `NsduQueue` | the abstract promise of the receive path: a bounded FIFO of whole N-SDUs |
| `CanTpLink` | a sending and a receiving ECU, instances of `CanTpTx` and `CanTpRx`, over one bus |
| `CanDriver` | `Can.c` over the FlexCAN hardware: staged initialisation, MB8 and MB9, latched faults |
| `ComIPdu` | one periodic transmit I-PDU of COM as functions of its runtime entry |
| `KeepAlive` | Master and Slave supervising each other through COM, in the ticks of their schedulers |
| `AppImage` | the Master's image transfer: headers, chunks, submissions, retries, drops |
| `RingBuffer` | the byte ring as functions of the ring, the two stores of a push and of a pop apart |
| `UartTx`, `UartRx` | the two directions of the serial port: main loop against LPUART1 interrupt |
| `MC...` | instances for TLC |
| `CanTpSegmentProofs` | lemmas: arithmetic of sequence numbers and segments |
| `CanTpTxProofs`, `CanTpRxProofs`, `CanTpLinkProofs` | proofs about `CanTpTxNode`, `CanTpRxNode` and `CanTpLink` |
| `CanDriverProofs`, `KeepAliveProofs`, `AppImageProofs` | proofs about these modules |
| `UartProofs` | proofs about `RingBuffer`, `UartTx` and `UartRx` |

**CanTp, one node.** `tx` and `rx` are records with the fields of the runtime
structures; `app` and `queue` the NodeApp variables; `phase` the next call of
`System_RunTask`; `mailbox` and `fcMailbox` what the driver holds. An action is
one call of the tick with one outcome. A handler's early returns are alternatives
of their own (`LateConfirmation`, `FcIgnored`, `SubmitRejected`, `SfNoSlot`,
`FfTooLong`), so every return path of `CanTp_Transmit`, `CanTp_RxIndication`,
`CanTp_TxConfirmation` and `CanTp_MainFunction` appears. In `CanTp_MainFunction`
the clock's increment, the timeout test, the STmin gate and the request happen
in one action, in that order; the alternatives of the transmit and the receive
side are disjoint. Payload bytes are the range of N-SDU offsets a frame carries
(sender) or one part per frame (receiver); the PduR look-ups have one row and
are inlined. `CanIf_Transmit` may refuse at any time (the mailbox is shared with
COM and FC frames, the controller may be stopped), and can accept only when the
model's mailbox is free. The driver may confirm at any later tick or never. The
bus may bring any frame at any tick, which covers loss, duplication, reordering
and a failing peer. A node is modelled as sender or as receiver: the two halves
of CanTp share no field but the clock. The copy from NodeApp's snapshot
(`CanTp_Transmit`) cannot fail, because the length is the one NodeApp has just
stored.

**CanTp, two nodes.** In `CanTpLink` frames are what the sender sends, with
the N-SDU they were cut from. A transmit mailbox keeps its frame for as long as
the bus is busy; a receive mailbox holds one frame and any other traffic may
overwrite it. The two schedulers run at one rate and not in step: `lead` bounds
how far one is ahead of the other.

**CAN driver.** `mcr`, `esr`, `mb8` and `mb9` are the registers the driver
reads and writes, `drv` its static variables, `pc` where the main loop stands.
The hardware acknowledges mode requests, transmits, receives, goes bus-off,
recovers, completes abnormally or loses readiness between any two steps.
`Can_Init` is one action for each wait and `Can_MainFunction_Read` one for each
access that the lock of MB9 can tell from the next; elsewhere a hardware step
between two accesses of one function has the same effect before or after it.

**COM and KeepAlive.** A tick of one ECU is one action (nothing in it waits);
the two tick alternately. A frame the driver takes arrives before the other's
next tick, or is overwritten there, or the driver takes none (`Outcomes`).
Timestamps are kept as ages, which stop at the largest value the code compares
them with. The Signals of an I-PDU are one value with one Update Bit: their
owner writes them together. `calm` says that disturbances are over; it is set
at most once and at any time.

**Application and UART.** In `AppImage` a byte is its place in the PC's
stream, which is given by the bytes before each image's header (`Before`), so that
where a chunk was cut can be told; after an overflow any length may be read from
two bytes. CanTp is what the application sees of it: rejections,
one result per accepted request, and a request blocked after N_As. In `UartTx`
and `UartRx` the main loop's stores are separate actions and the interrupt may
come between any two; the receive interrupt samples the status first and handles
what it sampled, and bytes may arrive between.

`sent`, `grants`, `sinceCf`, `arrived`, `submits`, `seen`, `req`, `faults`,
`lastSent`, `disturbed`, `queued`, `pushed`, `resolved` and `attempts` are history
variables: they record what happened for the properties, and no guard that
models code reads them (`arrived` and `submits` also carry a bound).
Logging and counters are left out everywhere.

## 3. Properties and runs

| Run | Checks | Shows | States |
| --- | --- | --- | --- |
| `cantp_tx` | `TypeOK`, `SourceLocked`, `OwnConfirmation`, `SegmentsInOrder`, `BlockQuota`, `SuccessMeansAllSent`, `StMinGapLessOneTick`, `EveryNsduConcludes` | the sender's safety, and that every accepted N-SDU gets its result | 91,600 |
| `cantp_stmin` | `StMinGap` | expected violation | |
| `cantp_rx` | `TypeOK`, `ReservationOwned`, `FcResource`, `ReadyAtReadIndex`, `DisabledIsQuiet`, `ImplementsNsduQueue`, `ReservationResolved` | the receiver's safety, its refinement of `NsduQueue`, and that no session keeps its slot for ever | 46,104 |
| `cantp_link` | `PartsInPlace`, `FramesOnceInOrder` | end to end: every part published stands where it was cut from, in the order sent, never twice | 867,618 |
| `cantp_mixed` | `WholeMessages` | expected violation | |
| `can_driver` | `TypeOK`, `ReadyIsOnBus`, `MailboxOwned`, `ConfirmedWasSent`, `BusOffLatches`, `LossIsReported`, `SentIsConfirmed` | the driver over hardware that moves between its register accesses | 207,598 |
| `can_lost` | `NoForgottenFrame` | expected violation | |
| `keepalive` | `UnflaggedIsRepeat`, `UndisturbedMeansNormal`, `UndisturbedMeansOnline`, `EventuallyAgreed` | neither ECU gives the other up without a cause; when the bus is calm they come to agree | 221,918 |
| `keepalive_noise` | `CounterAdvances` | expected violation | |
| `image` | `TypeOK`, `ChunksTileImages`, `ReleasedRightly`, `ChunkResolves` | chunks cut the images exactly; no pending submission is given up before its own result, and a chunk goes for that or for the failure of all its attempts | 40,468 |
| `uart_tx` | `TxTypeOK`, `TxRingIsFifo`, `BlockFits`, `NoLostWakeup`, `OutputDrains` | serial output: nothing lost, no lost wake-up | 7,680 |
| `uart_rx` | `RxRingIsFifo`, `PopIsOldest`, `PopsSucceed` | serial input against the interrupt, also during a clear | 16,656 |

`ImplementsNsduQueue` maps the ring to a sequence (`ReadyFifo`: the READY slots
from the read index on) and requires each step to be a delivery of a *whole*
N-SDU (head, then every CF in sequence), a consumption of the oldest, or
nothing. "Whole" is what one receiver can see; that the frames may be of two
N-SDUs needs both nodes (`cantp_mixed`).

**Bounds.** The instances shrink sizes and keep their order.

- CanTp, one node: SF 2 bytes, FF 2, CF 3, maximum N-SDU 17, so that `MaxNsdu =
  FfPayload + 5 * CfPayload` as 62 = 6 + 8 * 7. With a block size of 2 the
  longest message takes three blocks, the last one a single CF. Sequence numbers
  wrap (modulo 3 at the sender, 4 at the receiver) within one message. The clock
  wraps every 10 ticks (sender) or 6 (receiver); it needs only more than twice
  the longest timer. One or two retries reach both the retry and its exhaustion.
  Lengths include those NodeApp refuses (0, 18), a SF, a message of one short CF,
  one that ends with its block, and the longest. No counter is capped but
  `sinceCf`, at `StMin`, beyond which no property tells values apart.
- `CanTpLink`: messages of one frame, one block and two blocks; two submissions
  (`MaxSubmits`), so that a frame of the first can meet the second; a lead of one
  tick (`MaxLead`); timeouts of one tick for safety, of two for the mix.
- `CanDriver`: three frames (`MaxFrames`): one read, one overwritten, one behind
  the lock.
- `KeepAlive`: a rate level slower and one faster than COM's period, an alive
  counter that wraps at 3, timeouts that hold just more than one period of
  what they watch, a monitor that runs every second tick.
- `AppImage`: images of 5, 0 and 2 bytes, chunks of at most 2, a ring of 4 that
  overflows when the PC is fast, two retries, a result counter that wraps at 3.
- UART: a ring of 4 slots; the indices wrap within one block.

**Fairness.** `FairSpec` of the nodes, the driver and the application adds weak
fairness of the main loop only: it keeps calling, and each bounded wait of
`Can_Init` ends. Nothing is assumed of driver, bus or peer, so
`EveryNsduConcludes` rests on the timers alone. `ReservationResolved` is
conditional on new first frames not replacing sessions for ever, which the code
permits; `SentIsConfirmed` on the driver not stopping. `AppImage` assumes in
addition that CanTp gives its result, which is `EveryNsduConcludes`; it assumes
neither that a late confirmation comes nor that the PC goes on. `UartTx` assumes
that a pending interrupt is taken and the UART shifts out. `KeepAlive` assumes
only that the two tick interrupts keep coming; `EventuallyAgreed` concerns the
behaviours in which the disturbances end.

**Findings.**

- `cantp_stmin`: `Architecture.md:518` requires 5 ms between a CF's local
  confirmation and the next CF request. `System_RunTask` polls the confirmation
  before `CanTp_MainFunction` advances CanTp's clock in the same tick, so the
  timestamp is the previous tick's and the gate opens four scheduler ticks after
  the tick that handled the confirmation. `StMinGapLessOneTick` is what
  does hold, and is proved.
- `cantp_mixed`: `Architecture.md:459` says that the application never receives
  a partial N-SDU. Flow Control frames carry no session: a CTS that was held up
  in its mailbox is taken by the next session waiting for one, whose CFs continue
  the message the receiver is still assembling. The message it publishes has the
  right length and sequence numbers, and parts of two N-SDUs.
- `can_lost`: `docs/can-driver-design.md:117` says that a valid frame is handed
  on once. The driver unlocks MB9 and then clears its flag; a frame that moves in
  between loses its notification.
- `keepalive_noise`: a rate level that flickers restarts the KeepAlive interval
  at each change, so that the alive counter of a running Master may stop and
  the Slaves report MASTER_LOST.

**Sensitivity.** Definitions whose comment begins with `mutant:` are deliberate
faults (a dropped guard, a missing reset, a wrong count). No specification uses
them; `PROJECT.json` says which definition each replaces and which property
must then fail. They show that every property can fail.

## 4. What is proved

Every safety property that a passing run checks is also a theorem, for every
value of the constants that satisfies the named assumptions, and so is the
refinement of `NsduQueue`:

| Module | Theorem | Property |
| --- | --- | --- |
| `CanTpTxProofs` | `TypeCorrect` | `TypeOK` |
| | `SourceLockedAlways` | `SourceLocked` |
| | `OwnConfirmationAlways` | `OwnConfirmation` |
| | `SegmentsInOrderAlways` | `SegmentsInOrder` |
| | `BlockQuotaAlways` | `BlockQuota` |
| | `SuccessMeansAllSentAlways` | `SuccessMeansAllSent` |
| | `StMinGapLessOneTickAlways` | `StMinGapLessOneTick` |
| `CanTpRxProofs` | `TypeCorrect` | `TypeOK` |
| | `ReservationOwnedAlways` | `ReservationOwned` |
| | `FcResourceAlways` | `FcResource` |
| | `DisabledIsQuietAlways` | `DisabledIsQuiet` |
| | `ReadyAtReadIndexAlways` | `ReadyAtReadIndex` |
| | `NsduQueueImplemented` | `ImplementsNsduQueue` |
| `CanTpLinkProofs` | `PartsInPlaceAlways` | `PartsInPlace` |
| | `FramesOnceInOrderAlways` | `FramesOnceInOrder` |
| `CanDriverProofs` | `TypeCorrect` | `TypeOK` |
| | `ReadyIsOnBusAlways` | `ReadyIsOnBus` |
| | `MailboxOwnedAlways` | `MailboxOwned` |
| | `ConfirmedWasSentAlways` | `ConfirmedWasSent` |
| | `BusOffLatchesAlways` | `BusOffLatches` |
| | `LossIsReportedAlways` | `LossIsReported` |
| `KeepAliveProofs` | `UnflaggedIsRepeatAlways` | `UnflaggedIsRepeat` |
| | `UndisturbedMeansNormalAlways` | `UndisturbedMeansNormal` |
| | `UndisturbedMeansOnlineAlways` | `UndisturbedMeansOnline` |
| `AppImageProofs` | `TypeCorrect` | `TypeOK` |
| | `ChunksTileImagesAlways` | `ChunksTileImages` |
| | `ReleasedRightlyAlways` | `ReleasedRightly` |
| `UartProofs` | `TxTypeCorrect` | `TxTypeOK` |
| | `TxRingIsFifoAlways` | `TxRingIsFifo` |
| | `BlockFitsAlways` | `BlockFits` |
| | `NoLostWakeupAlways` | `NoLostWakeup` |
| | `RxRingIsFifoAlways` | `RxRingIsFifo` |
| | `PopIsOldestAlways` | `PopIsOldest` |
| | `PopsSucceedAlways` | `PopsSucceed` |

**Assumptions.** They say what the firmware's headers and `CanTp_ValidateConfig`
fix. Sizes and timers are positive, FF is no longer than SF and SF shorter than
the longest N-SDU (`WireConfig`, `QueueConfig`, `ImageConfig`, `RingConfig`,
`ChunkConfig`, `DriverConfig`, `KeepAliveConfig`); every CanTp timer is below
half the clock's range (`ClockConfig`, `TxConfig`, `RxConfig`); lengths are
natural numbers and a CF's payload is told from an FF's (`LengthsNat`,
`FramesConfig`); the PC's stream is images and nothing else (`StreamConfig`). Two
relate numbers of different headers:

- `LinkConfig`: the sequence numbers of one N-SDU do not come round. 62 bytes
  make nine segments and there are sixteen numbers.
- `TimingConfig`: COM sends the KeepAlive before the alive counter comes round
  (10 < 128 ticks), the application's longest period and COM's together fit into
  the Slave's timeout (500 + 10 <= 2001), and the Status period into the Master's
  (500 <= 2000).

TLC evaluates all of them in the runs.

**Arithmetic.** `CanTpSegmentProofs` says where a segment starts (`Offset`), that
there is a next segment exactly while the N-SDU is not exhausted (`CountLower`,
`CountExact`), and that counting modulo `SnModulus` commutes with adding one. The
three modules about CanTp rest on it.

**Sender.** Three inductive invariants, each resting on the one before:

1. `IInv = TypeOK /\ SessionInv /\ FrameInv`. That `txOffset` and `blockCount`
   stay in range is not inductive: it takes what the prepared frame is
   (`FrameInv`: it is the next frame of the session, unconfirmed) and in
   which states what is true (`SessionInv`: the source lock, the pending bit
   against the mailbox, no result reported while a session runs).
2. `OrderInv` adds `PositionInv`, which relates the number of frames
   sent to `txOffset` and `nextSN`: a frame is repeated or skipped exactly when
   the two disagree; and `QuotaInv`, which counts CFs of the current block
   against the blocks granted.
3. `PacedInv` adds `TimingInv`, which relates the ticks since the last
   confirmation (`sinceCf`) to the wrapped difference of the clock and
   `lastCfConfirmedMs`, one more than it during the part of the tick before
   the increment: this is where the lost tick comes from.

**Receiver.** Three invariants and the refinement they give:

1. `IInv`. `Owned` adds to the agreement on the slot that
   the reserved slot carries the session's length: without it the copy in
   `CanTp_CompleteRx` might be refused, and the session would end
   in an abort. `SessionOk` bounds each state (`received < total`,
   `blockCount < BlockSize` while waiting for CFs): only with both is a CF
   taken in sequence sure not to pass the message or the block. `MailboxOk` ties
   `fcTxPending` and `fcFrame` to what the driver holds, also after N_Ar has
   aborted the session whose frame it is. The proof follows the code: one lemma
   for each function of the queue, for reset, abort, completion and Flow Control,
   then one for each handler.
2. `Ring`: the READY slots are the `n` next ones in
   reading order and the write index is the one after them (the read index
   itself when the ring is full). `ReadyAtReadIndex` follows; by itself it is
   not inductive, since it does not say where the second READY slot is.
3. `Assembly`: a session's buffer holds the head and every CF since, `received`
   is where the next segment starts and `expectedSN` the number of parts modulo
   `SnModulus`. So a session that has received its total has all its segments.
4. The refinement. `FifoIs` reads a ring with `n` READY slots as a sequence
   of `n` messages, and one lemma for each function of the queue says what it
   does to that sequence: `FifoPublished` appends (and there was room),
   `FifoConsumed` takes the first, reserving and giving back change nothing. A
   completion is a `Deliver` because of `Assembly`, `AppReceive` is a `Consume`,
   and every other step leaves the sequence alone.

**Connection.** `LinkInv` follows a part from the sender's buffer to the
application. On the sending side the offset of a session only grows within its
N-SDU (`SenderInv`); on the bus a frame's sequence number says where its part was
cut (`GoodFrame` in `BusInv`); on the receiving side the length of the buffer is
the sequence number expected next (`ReceiverInv`), so a part taken in sequence
goes where it was cut from, even when it belongs to another N-SDU: this is why
`PartsInPlace` holds although `WholeMessages` does not. `OrderInv` gives the
order: published messages, buffer, receive mailbox, transmit mailbox and what the
session will cut next each hold parts older than the place after them, and a
step moves a part only to the next place.

**CAN driver.** Each conjunct of `IInv` is about one resource. `StageInv` says
what a stage of `Can_Init` may rely on: the acknowledgements that the stages
before it have waited for still stand, whichever of them had timed out in an
earlier call. `LatchInv` keeps the bus-off flag set from the fault until
`Can_Init` configures the controller again, so the next poll sees it.
`MailboxInv` adds to `MailboxOwned` (busy exactly while MB8 holds a frame or its
completion) that MB8 is empty between its configuration and READY. `ReceiveInv` counts the frames the bus has brought: those taken, one
unread in MB9, one behind its lock, and those whose absence the OVERRUN code
tells; it says so separately for the time between unlock and report, when the
frame is in the driver's snapshot only.

**COM and KeepAlive.** Each function on an I-PDU keeps it `Truthful`: without the
Update Bit its value is the last one handed over. For the supervision `LifeInv`
bounds the Slave's age in each phase of a period: until the counter changes by
what is left of the application's period, from then on by what is left of COM's;
`Ahead(d)` counts the changes the Slave has not seen, and stays below
`AliveModulus` because the frame that tells leaves within COM's period.
`MonitorInv` does the same for the Status frames. These are the two places where
`TimingConfig` is needed, and its bound on the Slave's timeout is tight: with
one tick less TLC finds a Slave that reports MASTER_LOST though no frame was lost.

**Image transfer.** `TileInv`: as long as nothing overflowed, the ring holds the
stream's next bytes, and what has been resolved and the chunk in hand are
exactly the payload bytes up to there (`Tiled`), with the transfer inside an image
whose `remaining` bytes end where the next header begins, or in a header
(`Place`). `SessionInv` relates a submission to the result counter: not reported
and the counter at the baseline, or reported once and one further. This makes
`ReleasedRightly` independent of the counter's wrap, and with `AttemptInv`, which
counts attempts, it follows that a drop comes after the last attempt's own failure
and not while its result is outstanding.

**Serial port.** `UartProofs` first says what storing a byte, advancing the
head, pushing and advancing the tail do to `Contents`, wherever the indices
wrap. The output invariant adds `RoomInv` (in the middle of a block there is
room for the rest of it, and the byte being published is the one stored):
`NoLostWakeup` then needs only that the interrupt disables itself on an empty
ring. The input invariant adds `PopInv` (the interrupt only adds to the count the
main loop relies on) and `ClearInv`: in the middle of `RingBuffer_Clear` the ring
seems to hold old bytes, but what the interrupt pushes meanwhile is what will
be left, since the head cannot come round to slot 0 before the tail is there. It
also means that the ring may seem full there: with the tail still at 1 the byte
that comes is dropped, though the ring is about to be empty, and counted as an
overflow. The firmware clears the ring only where input is being discarded, and
`RxRingIsFifo` says nothing about bytes that were not pushed.

Each invariant was checked by TLC, on the instance of the component's run, before
it was proved (`Ring` also with three slots). Every leaf is checked by tlapm with
SMT, Zenon and LS4; nothing is omitted.

**Only model-checked.** The liveness properties (`EveryNsduConcludes`,
`ReservationResolved`, `SentIsConfirmed`, `ChunkResolves`, `OutputDrains`,
`EventuallyAgreed`): fairness and `ENABLED` are outside the prover. The four
expected violations are counterexamples and have nothing to prove. `CanTpLink`
has no theorem about its fields' ranges beyond what `LinkInv` needs: the one-node
modules prove those of the handlers.

## 5. Not modelled

- Vendor code: `S32K144.h`, `S32K144_features.h` and the start-up code. The two
  headers are 13,590 of the repository's 22,760 lines of implementation and hold
  register layouts only.
- The register drivers (GPIO, NVIC, ADC, LPIT, RTC, SysTick), the board support
  and the LEDs: no state that a second party sees.
- The homework stack in `can_task`: `main.c` does not start it, and its races
  need `CAN_USE_INTERRUPT`, which no build defines.
- The configuration checks of CanIf, PduR and COM and the packing of Signals:
  constant tables, checked once at start-up.
- The catch-up loop of `System_RunTask` after a stall, and `System_Fail`, which
  stops the ECU. The runs count ticks; wall-clock time during a catch-up is not
  stated.
- The second Slave: it is the first one with other identifiers.
- Whether serial reception goes on after an overrun (hazard at
  `Driver_UART.c:347`): `UartRx` has the race, and no property is stated.

## 6. Plan

1. An abstract specification of the transmit path (accepted N-SDUs get one
   result each, in order) and the proof that `CanTpTxNode` implements it.
2. The promise `CanTpLink` makes to both applications as one specification over
   `NsduQueue`, with the mixed messages as what it allows.
3. `SystemTask`: the catch-up loop over `CanTpTxNode`, with wall-clock time.
4. The configuration checks of CanIf and COM, if they become dynamic.
