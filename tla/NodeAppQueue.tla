--------------------------- MODULE NodeAppQueue ----------------------------
(***************************************************************************)
(* NodeApp's receive queue (app/node_app.c): a ring of slots that CanTp    *)
(* reserves, fills and publishes, and that the application empties.        *)
(*                                                                         *)
(* A queue q is the NodeApp_Rx* group of variables.  The operators are the *)
(* four functions as functions of q; "data" stands for the copied bytes.   *)
(***************************************************************************)
EXTENDS Integers

CONSTANT QueueSize          \* NODE_APP_RX_QUEUE_SIZE (2)

ASSUME QueueConfig == QueueSize \in Nat \ {0}

Indices == 0..(QueueSize - 1)

NextIndex(i) == (i + 1) % QueueSize

SlotStates == {"FREE", "RESERVED", "READY"}

FreeSlot == [state |-> "FREE", length |-> 0, data |-> << >>]

EmptyQueue ==
    [slots |-> [i \in Indices |-> FreeSlot], readIndex |-> 0,
     writeIndex |-> 0, reservedIndex |-> 0, reservationActive |-> FALSE]

----------------------------------------------------------------------------
(* NodeApp_CanTpStartOfReception                                           *)

CanReserve(q) ==
    ~q.reservationActive /\ q.slots[q.writeIndex].state = "FREE"

Reserve(q, len) ==
    [q EXCEPT !.slots[q.writeIndex].state = "RESERVED",
              !.slots[q.writeIndex].length = len,
              !.reservedIndex = q.writeIndex,
              !.reservationActive = TRUE]

(* NodeApp_CanTpCopyRxData                                                 *)

CanCopy(q, len) ==
    /\ q.reservationActive
    /\ q.slots[q.reservedIndex].state = "RESERVED"
    /\ q.slots[q.reservedIndex].length = len

CopyIn(q, data) ==
    [q EXCEPT !.slots[q.reservedIndex].state = "READY",
              !.slots[q.reservedIndex].data = data]

(* NodeApp_CanTpRxIndication                                               *)

\* mutant: a failed reception moves the write index on as well
IndicateAlwaysAdvance(q, result) ==
    IF ~q.reservationActive THEN q
    ELSE [q EXCEPT !.slots[q.reservedIndex] = IF result = "E_OK" THEN @ ELSE FreeSlot,
                   !.reservationActive = FALSE,
                   !.writeIndex = NextIndex(q.reservedIndex)]

Indicate(q, result) ==
    IF ~q.reservationActive THEN q
    ELSE IF result = "E_OK" /\ q.slots[q.reservedIndex].state = "READY"
         THEN [q EXCEPT !.reservationActive = FALSE,
                        !.writeIndex = NextIndex(q.reservedIndex)]
         ELSE [q EXCEPT !.reservationActive = FALSE,
                        !.slots[q.reservedIndex] = FreeSlot]

(* NodeApp_Receive, with a buffer that is large enough.  The bytes left in *)
(* a FREE slot are never read again; the model drops them.                 *)

CanReceive(q) == q.slots[q.readIndex].state = "READY"

Receive(q) ==
    [q EXCEPT !.slots[q.readIndex] = FreeSlot,
              !.readIndex = NextIndex(q.readIndex)]

============================================================================
