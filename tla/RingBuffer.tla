----------------------------- MODULE RingBuffer ----------------------------
(***************************************************************************)
(* The byte ring of middlewares/ring_buffer.c, as operators on a ring r.   *)
(* One slot stays empty, so that head = tail means empty.  The two stores  *)
(* of a push and of a pop are separate operators: an interrupt may come    *)
(* between them.                                                           *)
(***************************************************************************)
EXTENDS Integers, Sequences

CONSTANTS
    Capacity,   \* size of the storage (17 * 1024 and 256)
    Bytes       \* the byte values

ASSUME RingConfig == Capacity \in Nat /\ Capacity >= 2 /\ Bytes # {}

Slots == 0..(Capacity - 1)

\* RingBuffer_Init; the storage is never read before it is written.
EmptyRing(byte) == [buffer |-> [i \in Slots |-> byte], head |-> 0, tail |-> 0]

\* mutant: the index does not wrap
AdvanceFlat(i) == i + 1

Advance(i) == (i + 1) % Capacity

IsEmpty(r) == r.head = r.tail

IsFull(r) == Advance(r.head) = r.tail

GetCount(r) == (r.head + Capacity - r.tail) % Capacity

\* mutant: the slot kept empty is counted as free
GetFreeAll(r) == Capacity - GetCount(r)

GetFree(r) == (Capacity - 1) - GetCount(r)

\* mutant: the byte is stored one slot too far
StoreByteAhead(r, byte) == [r EXCEPT !.buffer[Advance(r.head)] = byte]

\* RingBuffer_Push: the byte first, then the index that publishes it.
StoreByte(r, byte) == [r EXCEPT !.buffer[r.head] = byte]

AdvanceHead(r) == [r EXCEPT !.head = Advance(r.head)]

Push(r, byte) == AdvanceHead(StoreByte(r, byte))

\* RingBuffer_Pop
OldestByte(r) == r.buffer[r.tail]

AdvanceTail(r) == [r EXCEPT !.tail = Advance(r.tail)]

\* What the ring holds, oldest first.
Contents(r) == [i \in 1..GetCount(r) |-> r.buffer[(r.tail + i - 1) % Capacity]]

Rings == [buffer : [Slots -> Bytes], head : Slots, tail : Slots]

============================================================================
