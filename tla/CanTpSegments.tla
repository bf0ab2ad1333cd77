--------------------------- MODULE CanTpSegments ---------------------------
(***************************************************************************)
(* The wire format of one N-SDU (drivers/can/cantp/Cantp_Cfg.h) and the    *)
(* segmentation it prescribes, written down independently of the code that *)
(* builds and takes apart the frames: one SF, or an FF and CFs numbered    *)
(* from 1, each starting where the frame before it ended, all full but the *)
(* last.                                                                   *)
(***************************************************************************)
EXTENDS Integers

CONSTANTS
    SfMax,          \* CANTP_SF_MAX_LENGTH          (6)
    FfPayload,      \* CANTP_FF_PAYLOAD_LENGTH      (6)
    CfPayload,      \* CANTP_CF_PAYLOAD_LENGTH      (7)
    MaxNsdu,        \* CANTP_MAX_NSDU_LENGTH        (62)
    BlockSize,      \* CANTP_BLOCK_SIZE             (4)
    SnModulus       \* CANTP_PCI_SN_MASK + 1        (16)

(* What CanTp_ValidateConfig and Cantp_Cfg.h fix about them. *)
ASSUME WireConfig ==
    /\ SfMax \in Nat \ {0}
    /\ FfPayload \in 1..SfMax
    /\ CfPayload \in Nat \ {0}
    /\ MaxNsdu \in Nat /\ SfMax < MaxNsdu
    /\ BlockSize \in Nat \ {0}
    /\ SnModulus \in Nat /\ SnModulus > 1

SequenceNumbers == 0..(SnModulus - 1)

\* mutant: the padding of a short CF counts as payload
CfBytesPadded(left) == CfPayload

\* The real bytes of a CF when "left" bytes remain.
CfBytes(left) == IF left < CfPayload THEN left ELSE CfPayload

SegmentCount(n) ==
    IF n <= SfMax THEN 1
    ELSE 1 + (n - FfPayload + CfPayload - 1) \div CfPayload

Segment(n, i) ==
    LET from == FfPayload + (i - 2) * CfPayload
        rest == n - from
    IN  IF n <= SfMax THEN [kind |-> "SF", sn |-> 0, from |-> 0, bytes |-> n]
        ELSE IF i = 1
             THEN [kind |-> "FF", sn |-> 0, from |-> 0, bytes |-> FfPayload]
             ELSE [kind |-> "CF", sn |-> (i - 1) % SnModulus, from |-> from,
                   bytes |-> IF rest < CfPayload THEN rest ELSE CfPayload]

============================================================================
