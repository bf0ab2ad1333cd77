----------------------------- MODULE UartProofs ----------------------------
(***************************************************************************)
(* Machine-checked proofs about the two byte rings between the main loop   *)
(* and the UART interrupt, for every capacity and wherever the interrupt   *)
(* comes: nothing is lost or reordered, a block or a chunk that was found  *)
(* to fit is moved as a whole, and no wake-up is lost.                     *)
(*                                                                         *)
(* First what the operations of a ring do to its contents, wherever the    *)
(* indices wrap; then output and input.                                    *)
(***************************************************************************)
EXTENDS UartTx, UartRx, TLAPS, SequenceTheorems

\* The index k slots after i.
After(i, k) == IF i + k < Capacity THEN i + k ELSE i + k - Capacity

----------------------------------------------------------------------------
(* Arithmetic modulo the capacity.                                         *)

LEMMA ModOneLap ==
    ASSUME NEW a \in 0..(Capacity + Capacity - 1)
    PROVE  a % Capacity = IF a < Capacity THEN a ELSE a - Capacity
  <1>1. ASSUME NEW m \in Nat \ {0}, NEW q \in Int, NEW r \in 0..(m - 1)
        PROVE  (q * m + r) % m = r
    OBVIOUS
  <1>2. Capacity \in Nat \ {0}
    BY RingConfig
  <1>3. CASE a < Capacity
    <2>1. (0 * Capacity + a) % Capacity = a
      BY <1>1, <1>2, <1>3
    <2>2. 0 * Capacity + a = a
      BY <1>2
    <2> QED
      BY <1>3, <2>1, <2>2
  <1>4. CASE a >= Capacity
    <2>1. a - Capacity \in 0..(Capacity - 1)
      BY <1>2, <1>4
    <2>2. (1 * Capacity + (a - Capacity)) % Capacity = a - Capacity
      BY <1>1, <1>2, <2>1
    <2>3. 1 * Capacity + (a - Capacity) = a
      BY <1>2
    <2> QED
      BY <1>2, <1>4, <2>2, <2>3
  <1> QED
    BY <1>2, <1>3, <1>4

LEMMA AdvanceCases ==
    ASSUME NEW i \in Slots
    PROVE  Advance(i) = After(i, 1) /\ After(i, 1) \in Slots
  <1> DEFINE a == i + 1
  <1>1. a \in 0..(Capacity + Capacity - 1)
    BY RingConfig DEF Slots
  <1> HIDE DEF a
  <1>2. a % Capacity = IF a < Capacity THEN a ELSE a - Capacity
    BY <1>1, ModOneLap
  <1>3. After(i, 1) \in Slots
    BY RingConfig DEF Slots, After
  <1>4. Advance(i) = a % Capacity
    BY DEF Advance, a
  <1>5. After(i, 1) = IF a < Capacity THEN a ELSE a - Capacity
    BY RingConfig DEF After, Slots, a
  <1> QED
    BY <1>2, <1>3, <1>4, <1>5

LEMMA CountCases ==
    ASSUME NEW r, r \in Rings
    PROVE  /\ r.head \in Slots /\ r.tail \in Slots /\ r.buffer \in [Slots -> Bytes]
           /\ GetCount(r) = IF r.head >= r.tail THEN r.head - r.tail
                            ELSE r.head + Capacity - r.tail
           /\ GetCount(r) \in 0..(Capacity - 1)
           /\ GetFree(r) = Capacity - 1 - GetCount(r)
  <1>1. r.head \in Slots /\ r.tail \in Slots /\ r.buffer \in [Slots -> Bytes]
    BY DEF Rings
  <1> DEFINE d == r.head + Capacity - r.tail
  <1>2. d \in 0..(Capacity + Capacity - 1)
    BY <1>1, RingConfig DEF Slots
  <1> HIDE DEF d
  <1>3. d % Capacity = IF d < Capacity THEN d ELSE d - Capacity
    BY <1>2, ModOneLap
  <1>4. GetCount(r) = IF d < Capacity THEN d ELSE d - Capacity
    BY <1>3 DEF GetCount, d
  <1>5. /\ GetCount(r) = IF r.head >= r.tail THEN r.head - r.tail
                         ELSE r.head + Capacity - r.tail
        /\ GetCount(r) \in 0..(Capacity - 1)
    BY SMTT(20), <1>1, <1>4, RingConfig DEF Slots, d
  <1> QED
    BY <1>1, <1>5 DEF GetFree

LEMMA EmptyAndFull ==
    ASSUME NEW r, r \in Rings
    PROVE  /\ IsEmpty(r) <=> GetCount(r) = 0
           /\ IsFull(r) <=> GetCount(r) = Capacity - 1
  <1>1. /\ r.head \in Slots /\ r.tail \in Slots
        /\ GetCount(r) = IF r.head >= r.tail THEN r.head - r.tail
                         ELSE r.head + Capacity - r.tail
        /\ Advance(r.head) = After(r.head, 1)
    BY CountCases, AdvanceCases
  <1>2. IsEmpty(r) <=> GetCount(r) = 0
    BY <1>1, RingConfig DEF IsEmpty, Slots
  <1>3. IsFull(r) <=> After(r.head, 1) = r.tail
    BY <1>1 DEF IsFull
  <1>4. After(r.head, 1) = r.tail <=> GetCount(r) = Capacity - 1
    BY <1>1, RingConfig DEF After, Slots
  <1> QED
    BY <1>2, <1>3, <1>4

----------------------------------------------------------------------------
(* The contents.                                                           *)

LEMMA ContentsAre ==
    ASSUME NEW r, r \in Rings
    PROVE  /\ Contents(r) \in Seq(Bytes)
           /\ Len(Contents(r)) = GetCount(r)
           /\ \A i \in 1..GetCount(r) :
                 /\ After(r.tail, i - 1) \in Slots
                 /\ Contents(r)[i] = r.buffer[After(r.tail, i - 1)]
  <1>1. /\ GetCount(r) \in 0..(Capacity - 1) /\ r.tail \in Slots
        /\ r.buffer \in [Slots -> Bytes]
    BY CountCases
  <1>2. ASSUME NEW i \in 1..GetCount(r)
        PROVE  /\ After(r.tail, i - 1) \in Slots
               /\ (r.tail + i - 1) % Capacity = After(r.tail, i - 1)
    <2> DEFINE a == r.tail + i - 1
    <2>1. a \in 0..(Capacity + Capacity - 1)
      BY <1>1, RingConfig DEF Slots
    <2> HIDE DEF a
    <2>2. a % Capacity = IF a < Capacity THEN a ELSE a - Capacity
      BY <2>1, ModOneLap
    <2>3. After(r.tail, i - 1) = IF a < Capacity THEN a ELSE a - Capacity
      BY <1>1, RingConfig DEF Slots, After, a
    <2>4. After(r.tail, i - 1) \in Slots
      BY <2>1, <2>3, RingConfig DEF Slots
    <2> QED
      BY <2>2, <2>3, <2>4 DEF a
  <1>3. Contents(r) = [i \in 1..GetCount(r) |-> r.buffer[After(r.tail, i - 1)]]
    BY <1>2 DEF Contents
  <1>4. \A i \in 1..GetCount(r) : r.buffer[After(r.tail, i - 1)] \in Bytes
    BY <1>1, <1>2
  <1> HIDE DEF Contents
  <1>5. Contents(r) \in [1..GetCount(r) -> Bytes]
    BY <1>3, <1>4
  <1>6. GetCount(r) \in Nat
    BY <1>1, RingConfig
  <1>7. Contents(r) \in Seq(Bytes) /\ Len(Contents(r)) = GetCount(r)
    BY <1>5, <1>6
  <1>8. \A i \in 1..GetCount(r) : Contents(r)[i] = r.buffer[After(r.tail, i - 1)]
    BY <1>3
  <1> QED
    BY <1>2, <1>7, <1>8

\* A byte stored at the head is not yet part of the contents.
LEMMA StoreKeepsContents ==
    ASSUME NEW r, r \in Rings, NEW b \in Bytes
    PROVE  /\ StoreByte(r, b) \in Rings
           /\ GetCount(StoreByte(r, b)) = GetCount(r)
           /\ Contents(StoreByte(r, b)) = Contents(r)
           /\ StoreByte(r, b).buffer[StoreByte(r, b).head] = b
  <1> DEFINE s == StoreByte(r, b)
  <1>1. /\ r.head \in Slots /\ r.tail \in Slots /\ r.buffer \in [Slots -> Bytes]
        /\ GetCount(r) \in 0..(Capacity - 1)
    BY CountCases
  <1>2. /\ s \in Rings /\ s.head = r.head /\ s.tail = r.tail
        /\ s.buffer = [r.buffer EXCEPT ![r.head] = b]
    BY <1>1 DEF Rings, StoreByte
  <1>3. GetCount(s) = GetCount(r)
    BY <1>2 DEF GetCount
  <1>4. s.buffer[s.head] = b
    BY <1>1, <1>2
  <1> HIDE DEF s
  <1>5. ASSUME NEW i \in 1..GetCount(r)
        PROVE  Contents(s)[i] = Contents(r)[i]
    <2>1. After(r.tail, i - 1) # r.head /\ After(r.tail, i - 1) \in Slots
      BY SMTT(20), CountCases, RingConfig DEF Slots, After
    <2>2. s.buffer[After(r.tail, i - 1)] = r.buffer[After(r.tail, i - 1)]
      BY <1>1, <1>2, <2>1
    <2>3. Contents(s)[i] = s.buffer[After(s.tail, i - 1)]
      BY <1>2, <1>3, ContentsAre
    <2>4. Contents(r)[i] = r.buffer[After(r.tail, i - 1)]
      BY ContentsAre
    <2> QED
      BY <1>2, <2>2, <2>3, <2>4
  <1>6. Contents(s) = Contents(r)
    BY <1>2, <1>3, <1>5 DEF Contents
  <1> QED
    BY <1>2, <1>3, <1>4, <1>6 DEF s

\* Advancing the head appends the byte stored there.
LEMMA AdvanceHeadAppends ==
    ASSUME NEW r, r \in Rings, ~IsFull(r)
    PROVE  /\ AdvanceHead(r) \in Rings
           /\ GetCount(AdvanceHead(r)) = GetCount(r) + 1
           /\ Contents(AdvanceHead(r)) = Append(Contents(r), r.buffer[r.head])
  <1> DEFINE s == AdvanceHead(r)
  <1>1. /\ r.head \in Slots /\ r.tail \in Slots /\ r.buffer \in [Slots -> Bytes]
        /\ GetCount(r) \in 0..(Capacity - 2)
    BY CountCases, EmptyAndFull, RingConfig
  <1>2. /\ s \in Rings /\ s.head = After(r.head, 1) /\ s.tail = r.tail
        /\ s.buffer = r.buffer
    BY <1>1, AdvanceCases DEF Rings, AdvanceHead
  <1> HIDE DEF s
  <1>3. GetCount(s) = GetCount(r) + 1
    <2>1. /\ GetCount(r) = IF r.head >= r.tail THEN r.head - r.tail
                           ELSE r.head + Capacity - r.tail
          /\ GetCount(s) = IF s.head >= s.tail THEN s.head - s.tail
                           ELSE s.head + Capacity - s.tail
      BY <1>2, CountCases
    <2>2. s.head = r.head + 1 \/ (s.head = 0 /\ r.head = Capacity - 1)
      BY <1>1, <1>2, RingConfig DEF After, Slots
    <2>3. CASE s.head = r.head + 1
      <3>1. CASE r.head >= r.tail
        BY <1>1, <1>2, <2>1, <2>3, <3>1, RingConfig DEF Slots
      <3>2. CASE r.head < r.tail
        BY SMTT(20), <1>1, <1>2, <2>1, <2>3, <3>2, RingConfig DEF Slots
      <3> QED
        BY <1>1, <3>1, <3>2 DEF Slots
    <2>4. CASE s.head = 0 /\ r.head = Capacity - 1
      BY <1>1, <1>2, <2>1, <2>4, RingConfig DEF Slots
    <2> QED
      BY <2>2, <2>3, <2>4
  <1>4. After(r.tail, GetCount(r)) = r.head
    BY SMTT(20), <1>1, CountCases, RingConfig DEF After, Slots
  <1>5. /\ Contents(r) \in Seq(Bytes) /\ Contents(s) \in Seq(Bytes)
        /\ Len(Contents(r)) = GetCount(r) /\ Len(Contents(s)) = GetCount(r) + 1
        /\ \A i \in 1..GetCount(r) :
              Contents(r)[i] = r.buffer[After(r.tail, i - 1)]
        /\ \A i \in 1..(GetCount(r) + 1) :
              Contents(s)[i] = r.buffer[After(r.tail, i - 1)]
    BY <1>2, <1>3, ContentsAre
  <1>6. r.buffer[r.head] \in Bytes
    BY <1>1
  <1>7. Contents(s)[GetCount(r) + 1] = r.buffer[r.head]
    BY <1>1, <1>4, <1>5, RingConfig
  <1>8. Contents(s) = Append(Contents(r), r.buffer[r.head])
    BY <1>1, <1>5, <1>6, <1>7, RingConfig
  <1> QED
    BY <1>2, <1>3, <1>8 DEF s

\* RingBuffer_Push: both at once.
LEMMA PushAppends ==
    ASSUME NEW r, r \in Rings, NEW b \in Bytes, ~IsFull(r)
    PROVE  /\ Push(r, b) \in Rings
           /\ Push(r, b).head = Advance(r.head) /\ Push(r, b).tail = r.tail
           /\ GetCount(Push(r, b)) = GetCount(r) + 1
           /\ Contents(Push(r, b)) = Append(Contents(r), b)
           /\ ~IsEmpty(r) => OldestByte(Push(r, b)) = OldestByte(r)
  <1> DEFINE s == StoreByte(r, b)
  <1>1. /\ s \in Rings /\ GetCount(s) = GetCount(r)
        /\ Contents(s) = Contents(r) /\ s.buffer[s.head] = b
    BY StoreKeepsContents
  <1>2. /\ s.head = r.head /\ s.tail = r.tail
        /\ s.buffer = [r.buffer EXCEPT ![r.head] = b]
        /\ r.tail \in Slots /\ r.buffer \in [Slots -> Bytes]
    BY DEF StoreByte, Rings
  <1>3. ~IsFull(s)
    BY <1>2 DEF IsFull
  <1>4. Push(r, b) = AdvanceHead(s)
    BY DEF Push
  <1>5. /\ AdvanceHead(s).head = Advance(s.head)
        /\ AdvanceHead(s).tail = s.tail /\ AdvanceHead(s).buffer = s.buffer
    BY <1>1 DEF AdvanceHead, Rings
  <1>6. ~IsEmpty(r) => OldestByte(AdvanceHead(s)) = OldestByte(r)
    BY <1>2, <1>5 DEF OldestByte, IsEmpty
  <1> HIDE DEF s
  <1> QED
    BY SMTT(20), <1>1, <1>2, <1>3, <1>4, <1>5, <1>6, AdvanceHeadAppends

\* Advancing the tail takes the oldest byte away.
LEMMA AdvanceTailPops ==
    ASSUME NEW r, r \in Rings, ~IsEmpty(r)
    PROVE  /\ AdvanceTail(r) \in Rings
           /\ AdvanceTail(r).head = r.head /\ AdvanceTail(r).buffer = r.buffer
           /\ GetCount(AdvanceTail(r)) = GetCount(r) - 1
           /\ Contents(r) # << >>
           /\ OldestByte(r) = Head(Contents(r))
           /\ Contents(AdvanceTail(r)) = Tail(Contents(r))
  <1> DEFINE s == AdvanceTail(r)
  <1>1. /\ r.head \in Slots /\ r.tail \in Slots /\ r.buffer \in [Slots -> Bytes]
        /\ GetCount(r) \in 1..(Capacity - 1)
    BY CountCases, EmptyAndFull, RingConfig
  <1>2. /\ s \in Rings /\ s.tail = After(r.tail, 1) /\ s.head = r.head
        /\ s.buffer = r.buffer
    BY <1>1, AdvanceCases DEF Rings, AdvanceTail
  <1> HIDE DEF s
  <1>3. GetCount(s) = GetCount(r) - 1
    <2>1. /\ GetCount(r) = IF r.head >= r.tail THEN r.head - r.tail
                           ELSE r.head + Capacity - r.tail
          /\ GetCount(s) = IF s.head >= s.tail THEN s.head - s.tail
                           ELSE s.head + Capacity - s.tail
      BY <1>2, CountCases
    <2> QED
      BY SMTT(20), <1>1, <1>2, <2>1, RingConfig DEF After, Slots
  <1>4. \A i \in 1..(GetCount(r) - 1) :
           After(s.tail, i - 1) = After(r.tail, i)
    <2>1. s.tail = r.tail + 1 \/ (s.tail = 0 /\ r.tail = Capacity - 1)
      BY <1>1, <1>2, RingConfig DEF After, Slots
    <2>2. r.tail \in Int /\ Capacity \in Nat
      BY <1>1, RingConfig DEF Slots
    <2>3. SUFFICES ASSUME NEW i \in 1..(GetCount(r) - 1)
                   PROVE  After(s.tail, i - 1) = After(r.tail, i)
      OBVIOUS
    <2>4. i \in 1..(Capacity - 1)
      BY <1>1, RingConfig
    <2>5. CASE s.tail = r.tail + 1
      BY <2>2, <2>4, <2>5 DEF After
    <2>6. CASE s.tail = 0 /\ r.tail = Capacity - 1
      BY <2>2, <2>4, <2>6 DEF After
    <2> QED
      BY <2>1, <2>5, <2>6
  <1>5. /\ Contents(r) \in Seq(Bytes) /\ Contents(s) \in Seq(Bytes)
        /\ Len(Contents(r)) = GetCount(r) /\ Len(Contents(s)) = GetCount(r) - 1
        /\ \A i \in 1..GetCount(r) :
              Contents(r)[i] = r.buffer[After(r.tail, i - 1)]
        /\ \A i \in 1..(GetCount(r) - 1) :
              Contents(s)[i] = r.buffer[After(s.tail, i - 1)]
    BY <1>2, <1>3, ContentsAre
  <1>6. ASSUME NEW i \in 1..(GetCount(r) - 1)
        PROVE  Contents(s)[i] = Contents(r)[i + 1]
    <2>1. i + 1 \in 1..GetCount(r) /\ i + 1 - 1 = i
      BY <1>1
    <2> QED
      BY <1>4, <1>5, <2>1
  <1>7. Contents(s) = Tail(Contents(r))
    BY <1>1, <1>5, <1>6, RingConfig
  <1>8. Contents(r) # << >> /\ OldestByte(r) = Head(Contents(r))
    <2>1. After(r.tail, 1 - 1) = r.tail
      BY <1>1, RingConfig DEF After, Slots
    <2> QED
      BY <1>1, <1>5, <2>1, RingConfig DEF OldestByte
  <1> QED
    BY <1>2, <1>3, <1>7, <1>8 DEF s

LEMMA EmptyRingIsEmpty ==
    ASSUME NEW b \in Bytes
    PROVE  /\ EmptyRing(b) \in Rings /\ IsEmpty(EmptyRing(b))
           /\ Contents(EmptyRing(b)) = << >>
  <1>1. EmptyRing(b) \in Rings /\ IsEmpty(EmptyRing(b))
    BY RingConfig DEF EmptyRing, Rings, IsEmpty, Slots
  <1>2. Contents(EmptyRing(b)) \in Seq(Bytes) /\ Len(Contents(EmptyRing(b))) = 0
    BY <1>1, EmptyAndFull, ContentsAre
  <1> QED
    BY <1>1, <1>2

----------------------------------------------------------------------------
(* Output.                                                                 *)

(* What the main loop knows in the middle of a block: there is room for    *)
(* all of what is left, and the byte it publishes is the one it stored.    *)
RoomInv ==
    /\ txPc \in {"store", "publish"} =>
          block # << >> /\ GetFree(txRing) >= Len(block)
    /\ txPc = "publish" => txRing.buffer[txRing.head] = Head(block)

TxIInv == TxTypeOK /\ TxRingIsFifo /\ RoomInv /\ NoLostWakeup

----------------------------------------------------------------------------

LEMMA BlocksAreSeqs ==
    ASSUME NEW b \in Blocks
    PROVE  /\ b \in Seq(Bytes) /\ b # << >> /\ Len(b) \in 1..(Capacity - 1)
           /\ Head(b) \in Bytes
           /\ Len(Tail(b)) = Len(b) - 1
           /\ IF Len(b) > 1 THEN Tail(b) \in Blocks ELSE Tail(b) = << >>
  <1>1. PICK n \in 1..(Capacity - 1) : b \in [1..n -> Bytes]
    BY DEF Blocks
  <1>2. n \in Nat /\ b \in Seq(Bytes) /\ Len(b) = n
    BY <1>1, RingConfig
  <1>3. Head(b) \in Bytes /\ b # << >> /\ Len(Tail(b)) = n - 1
    BY <1>1, <1>2
  <1>4. CASE n > 1
    <2>1. Tail(b) \in [1..(n - 1) -> Bytes]
      BY <1>2, <1>3, HeadTailProperties, LenProperties
    <2>2. n - 1 \in 1..(Capacity - 1)
      BY <1>1, <1>4, RingConfig
    <2> QED
      BY <1>1, <1>2, <1>3, <1>4, <2>1, <2>2 DEF Blocks
  <1>5. CASE n = 1
    <2>1. Tail(b) \in Seq(Bytes) /\ Len(Tail(b)) = 0
      BY <1>2, <1>3, <1>5, HeadTailProperties
    <2>2. Tail(b) = << >>
      BY <2>1, EmptySeq
    <2> QED
      BY <1>1, <1>2, <1>3, <1>5, <2>2
  <1> QED
    BY <1>1, <1>4, <1>5

\* The history is no longer than the ring.
LEMMA QueuedFits ==
    ASSUME NEW r, r \in Rings, NEW q, Contents(r) = q
    PROVE  q \in Seq(Bytes) /\ Len(q) < Capacity
  BY ContentsAre, CountCases, RingConfig

LEMMA TxInitInv == TxInit => TxIInv
  <1> SUFFICES ASSUME TxInit PROVE TxIInv
    OBVIOUS
  <1>1. PICK byte \in Bytes : txRing = EmptyRing(byte)
    BY DEF TxInit
  <1>2. txRing \in Rings /\ IsEmpty(txRing) /\ Contents(txRing) = << >>
    BY <1>1, EmptyRingIsEmpty
  <1> QED
    BY <1>2, QueuedFits DEF TxInit, TxIInv, TxTypeOK, TxRingIsFifo, RoomInv, NoLostWakeup

----------------------------------------------------------------------------
(* The main loop.                                                          *)

LEMMA QueueBlockStep == TxIInv /\ QueueBlock => TxIInv'
  <1> SUFFICES ASSUME TxIInv, QueueBlock PROVE TxIInv'
    OBVIOUS
  <1>1. block' \in Blocks /\ GetFree(txRing) >= Len(block')
    BY DEF QueueBlock
  <1>2. block' # << >>
    BY <1>1, BlocksAreSeqs
  <1> QED
    BY <1>1, <1>2
       DEF QueueBlock, TxIInv, TxTypeOK, TxRingIsFifo, RoomInv, NoLostWakeup

LEMMA StoreNextStep == TxIInv /\ StoreNext => TxIInv'
  <1> SUFFICES ASSUME TxIInv, StoreNext PROVE TxIInv'
    OBVIOUS
  <1>1. /\ txRing \in Rings /\ block \in Blocks /\ Contents(txRing) = queued
        /\ GetFree(txRing) >= Len(block) /\ block # << >>
    BY DEF StoreNext, TxIInv, TxTypeOK, RoomInv, TxRingIsFifo
  <1>2. Head(block) \in Bytes
    BY <1>1, BlocksAreSeqs
  <1>3. /\ txRing' \in Rings /\ GetCount(txRing') = GetCount(txRing)
        /\ Contents(txRing') = Contents(txRing)
        /\ txRing'.buffer[txRing'.head] = Head(block)
    BY <1>1, <1>2, StoreKeepsContents DEF StoreNext
  <1>4. GetFree(txRing') = GetFree(txRing)
    BY <1>3 DEF GetFree
  <1> QED
    BY <1>1, <1>3, <1>4
       DEF StoreNext, TxIInv, TxTypeOK, TxRingIsFifo, RoomInv, NoLostWakeup

LEMMA PublishNextStep == TxIInv /\ PublishNext => TxIInv'
  <1> SUFFICES ASSUME TxIInv, PublishNext PROVE TxIInv'
    OBVIOUS
  <1>1. /\ txRing \in Rings /\ block \in Blocks /\ Contents(txRing) = queued
        /\ GetFree(txRing) >= Len(block)
        /\ txRing.buffer[txRing.head] = Head(block)
    BY DEF PublishNext, TxIInv, TxTypeOK, RoomInv, TxRingIsFifo
  <1>2. /\ Len(block) \in 1..(Capacity - 1)
        /\ Len(Tail(block)) = Len(block) - 1
        /\ IF Len(block) > 1 THEN Tail(block) \in Blocks ELSE Tail(block) = << >>
    BY <1>1, BlocksAreSeqs
  <1>3. GetCount(txRing) \in 0..(Capacity - 1) /\ GetFree(txRing) = Capacity - 1 - GetCount(txRing)
    BY <1>1, CountCases
  <1>4. ~IsFull(txRing)
    BY <1>1, <1>2, <1>3, EmptyAndFull, RingConfig
  <1>5. /\ txRing' \in Rings /\ GetCount(txRing') = GetCount(txRing) + 1
        /\ Contents(txRing') = queued'
    BY <1>1, <1>4, AdvanceHeadAppends DEF PublishNext
  <1>6. GetFree(txRing') = Capacity - 1 - GetCount(txRing')
    BY <1>5, CountCases
  <1>7. txPc' = "store" =>
           /\ block' \in Blocks /\ GetFree(txRing') >= Len(block')
    BY <1>1, <1>2, <1>3, <1>5, <1>6, RingConfig DEF PublishNext
  <1>8. txPc' = "store" => block' # << >>
    BY <1>7, BlocksAreSeqs
  <1>9. TxTypeOK'
    BY <1>2, <1>5, QueuedFits DEF PublishNext, TxIInv, TxTypeOK
  <1>10. txPc' # "publish" /\ txPc' # "idle"
    BY DEF PublishNext
  <1> QED
    BY <1>5, <1>7, <1>8, <1>9, <1>10 DEF TxIInv, TxRingIsFifo, RoomInv, NoLostWakeup

LEMMA EnableStep == TxIInv /\ EnableTxInterrupt => TxIInv'
  BY DEF EnableTxInterrupt, TxIInv, TxTypeOK, TxRingIsFifo, RoomInv, NoLostWakeup

----------------------------------------------------------------------------
(* The interrupt and the hardware.                                         *)

LEMMA IsrSendsStep == TxIInv /\ IsrSends => TxIInv'
  <1> SUFFICES ASSUME TxIInv, IsrSends PROVE TxIInv'
    OBVIOUS
  <1>1. txRing \in Rings /\ Contents(txRing) = queued /\ ~IsEmpty(txRing) /\ tie
    BY DEF IsrSends, TxIInv, TxTypeOK, TxRingIsFifo
  <1>2. /\ txRing' \in Rings /\ GetCount(txRing') = GetCount(txRing) - 1
        /\ txRing'.head = txRing.head /\ txRing'.buffer = txRing.buffer
        /\ Contents(txRing') = queued'
    BY <1>1, AdvanceTailPops DEF IsrSends
  <1>3. /\ GetCount(txRing) \in 0..(Capacity - 1)
        /\ GetFree(txRing) = Capacity - 1 - GetCount(txRing)
        /\ GetFree(txRing') = Capacity - 1 - GetCount(txRing')
    BY <1>1, <1>2, CountCases
  <1>4. block \in Blocks \cup {<< >>} /\ Len(block) \in Nat
    BY BlocksAreSeqs DEF TxIInv, TxTypeOK
  <1>5. GetFree(txRing) >= Len(block) => GetFree(txRing') >= Len(block)
    BY <1>2, <1>3, <1>4, RingConfig
  <1>6. TxTypeOK'
    BY <1>2, QueuedFits DEF IsrSends, TxIInv, TxTypeOK
  <1>7. RoomInv'
    BY <1>2, <1>5 DEF IsrSends, TxIInv, RoomInv
  <1> QED
    BY <1>1, <1>2, <1>6, <1>7 DEF IsrSends, TxIInv, TxRingIsFifo, NoLostWakeup

LEMMA IsrDisablesStep == TxIInv /\ IsrDisables => TxIInv'
  BY DEF IsrDisables, TxIInv, TxTypeOK, TxRingIsFifo, RoomInv, NoLostWakeup

LEMMA HwShiftsStep == TxIInv /\ HwShifts => TxIInv'
  BY DEF HwShifts, TxIInv, TxTypeOK, TxRingIsFifo, RoomInv, NoLostWakeup

LEMMA TxStepInv == TxIInv /\ [TxNext]_txVars => TxIInv'
  <1>1. TxIInv /\ UNCHANGED txVars => TxIInv'
    BY DEF txVars, TxIInv, TxTypeOK, TxRingIsFifo, RoomInv, NoLostWakeup
  <1> QED
    BY <1>1, QueueBlockStep, StoreNextStep, PublishNextStep, EnableStep,
       IsrSendsStep, IsrDisablesStep, HwShiftsStep DEF TxNext, TxMainLoop, TxIsr

LEMMA TxInductive == TxSpec => []TxIInv
  BY TxInitInv, TxStepInv, PTL DEF TxSpec

----------------------------------------------------------------------------

(* Every reachable state of the output path has its type; in particular    *)
(* the ring never holds more than it has room for.                         *)
THEOREM TxTypeCorrect == TxSpec => []TxTypeOK
  <1>1. TxIInv => TxTypeOK
    BY DEF TxIInv
  <1> QED
    BY <1>1, TxInductive, PTL

(* App_UartTxCallback takes out the bytes App_QueueUartBytes put in, in    *)
(* order and once, wherever in a push the interrupt comes.                 *)
THEOREM TxRingIsFifoAlways == TxSpec => []TxRingIsFifo
  <1>1. TxIInv => TxRingIsFifo
    BY DEF TxIInv
  <1> QED
    BY <1>1, TxInductive, PTL

(* No push of a block that App_QueueUartBytes found to fit ever fails.     *)
THEOREM BlockFitsAlways == TxSpec => []BlockFits
  <1>1. TxIInv => BlockFits
    <2> SUFFICES ASSUME TxIInv, txPc = "store"
                 PROVE  GetFree(txRing) >= Len(block) /\ ~IsFull(txRing)
      BY DEF BlockFits
    <2>1. txRing \in Rings /\ block \in Blocks /\ GetFree(txRing) >= Len(block)
      BY DEF TxIInv, TxTypeOK, RoomInv
    <2>2. Len(block) \in 1..(Capacity - 1)
      BY <2>1, BlocksAreSeqs
    <2> QED
      BY <2>1, <2>2, CountCases, EmptyAndFull, RingConfig
  <1> QED
    BY <1>1, TxInductive, PTL

(* Whenever App_QueueUartBytes has returned, bytes in the ring have their  *)
(* transmit interrupt enabled.                                             *)
THEOREM NoLostWakeupAlways == TxSpec => []NoLostWakeup
  <1>1. TxIInv => NoLostWakeup
    BY DEF TxIInv
  <1> QED
    BY <1>1, TxInductive, PTL

----------------------------------------------------------------------------
(* Input.                                                                  *)

(* The main loop pops only what its count promised: pushes add to it, and  *)
(* the byte it has read stays the oldest until it advances.                *)
PopInv ==
    /\ left \in Nat
    /\ rxPc \in {"read", "advance"} => left > 0 /\ GetCount(rxRing) >= left
    /\ rxPc = "advance" => got = OldestByte(rxRing)

\* The ring RingBuffer_Clear is about to leave.
Clearing == [rxRing EXCEPT !.tail = 0]

(* In the middle of RingBuffer_Clear the ring seems to hold old bytes, but *)
(* what the interrupt pushes is what will be left, and the head does not   *)
(* come round to where the clear has put it.                               *)
ClearInv ==
    rxPc = "clear" =>
        /\ Contents(Clearing) = pushed
        /\ rxRing.tail = 0 \/ rxRing.head < rxRing.tail

PortOk ==
    /\ port = [rdrf |-> port.rdrf, overrun |-> port.overrun, byte |-> port.byte]
    /\ port.byte \in Bytes

RxIInv ==
    /\ rxRing \in Rings /\ rxPc \in {"idle", "read", "advance", "clear"}
    /\ PortOk /\ PopInv /\ RxRingIsFifo /\ ClearInv

----------------------------------------------------------------------------

LEMMA TailZero ==
    ASSUME NEW r, r \in Rings
    PROVE  /\ [r EXCEPT !.tail = 0] \in Rings
           /\ [r EXCEPT !.tail = 0].head = r.head
           /\ [r EXCEPT !.tail = 0].tail = 0
           /\ [r EXCEPT !.tail = 0].buffer = r.buffer
  BY RingConfig DEF Rings, Slots

LEMMA RxInitInv == RxInit => RxIInv
  <1> SUFFICES ASSUME RxInit PROVE RxIInv
    OBVIOUS
  <1>1. PICK byte \in Bytes :
           /\ rxRing = EmptyRing(byte)
           /\ port = [rdrf |-> FALSE, overrun |-> FALSE, byte |-> byte]
    BY DEF RxInit
  <1>2. rxRing \in Rings /\ Contents(rxRing) = << >>
    BY <1>1, EmptyRingIsEmpty
  <1>3. PortOk
    BY <1>1 DEF PortOk
  <1> QED
    BY <1>2, <1>3 DEF RxInit, RxIInv, PopInv, RxRingIsFifo, ClearInv

\* A step that leaves the ring and the main loop alone.
LEMMA Elsewhere ==
    ASSUME RxIInv, UNCHANGED <<rxRing, rxPc, left, got, pushed>>, PortOk'
    PROVE  RxIInv'
  BY DEF RxIInv, PopInv, RxRingIsFifo, ClearInv, Clearing

LEMMA HwByteStep == RxIInv /\ HwByte => RxIInv'
  <1> SUFFICES ASSUME RxIInv, HwByte PROVE RxIInv'
    OBVIOUS
  <1>1. PortOk'
    BY DEF HwByte, RxIInv, PortOk
  <1> QED
    BY <1>1, Elsewhere DEF HwByte

LEMMA IsrEntersStep == RxIInv /\ IsrEnters => RxIInv'
  <1> SUFFICES ASSUME RxIInv, IsrEnters PROVE RxIInv'
    OBVIOUS
  <1>1. PortOk'
    BY DEF IsrEnters, RxIInv, PortOk
  <1> QED
    BY <1>1, Elsewhere DEF IsrEnters

LEMMA IsrPushesStep == RxIInv /\ IsrPushes => RxIInv'
  <1> SUFFICES ASSUME RxIInv, IsrPushes PROVE RxIInv'
    OBVIOUS
  <1>1. PortOk' /\ UNCHANGED <<rxPc, left, got>> /\ port.byte \in Bytes
    BY DEF IsrPushes, RxIInv, PortOk
  <1>2. CASE IsFull(rxRing)
    BY <1>1, <1>2, Elsewhere DEF IsrPushes
  <1>3. CASE ~IsFull(rxRing)
    <2>1. rxRing' = Push(rxRing, port.byte) /\ pushed' = Append(pushed, port.byte)
      BY <1>3 DEF IsrPushes
    <2>2. rxRing \in Rings
      BY DEF RxIInv
    <2>3. /\ rxRing' \in Rings /\ GetCount(rxRing') = GetCount(rxRing) + 1
          /\ rxRing'.head = Advance(rxRing.head) /\ rxRing'.tail = rxRing.tail
          /\ Contents(rxRing') = Append(Contents(rxRing), port.byte)
          /\ ~IsEmpty(rxRing) => OldestByte(rxRing') = OldestByte(rxRing)
      BY <1>1, <1>3, <2>1, <2>2, PushAppends
    <2>4. RxRingIsFifo'
      BY <1>1, <2>1, <2>3 DEF RxIInv, RxRingIsFifo
    <2>5. PopInv'
      <3>1. GetCount(rxRing) \in Nat /\ (IsEmpty(rxRing) <=> GetCount(rxRing) = 0)
        BY <2>2, CountCases, EmptyAndFull, RingConfig
      <3> QED
        BY <1>1, <2>3, <3>1 DEF RxIInv, PopInv
    <2>6. ClearInv'
      <3> SUFFICES ASSUME rxPc = "clear"
                   PROVE  /\ Contents(Clearing') = pushed'
                          /\ rxRing'.tail = 0 \/ rxRing'.head < rxRing'.tail
        BY <1>1 DEF ClearInv
      <3>1. /\ Contents(Clearing) = pushed
            /\ rxRing.tail = 0 \/ rxRing.head < rxRing.tail
        BY DEF RxIInv, ClearInv
      <3>2. /\ Clearing \in Rings /\ Clearing.head = rxRing.head
            /\ Clearing.tail = 0 /\ Clearing.buffer = rxRing.buffer
        BY <2>2, TailZero DEF Clearing
      <3>3. rxRing.head \in Slots /\ rxRing.tail \in Slots
        BY <2>2, CountCases
      <3>4. Advance(rxRing.head) = After(rxRing.head, 1)
        BY <3>3, AdvanceCases
      <3>5. Advance(rxRing.head) # rxRing.tail
        BY <1>3 DEF IsFull
      <3>6. Advance(rxRing.head) # 0
        BY <3>1, <3>3, <3>4, <3>5, RingConfig DEF After, Slots
      <3>7. ~IsFull(Clearing)
        BY <3>2, <3>6 DEF IsFull
      <3>8. Contents(Push(Clearing, port.byte)) = pushed'
        BY <1>1, <2>1, <3>1, <3>2, <3>7, PushAppends
      <3>9. Clearing' = Push(Clearing, port.byte)
        BY <2>1, <2>2
           DEF Clearing, Push, StoreByte, AdvanceHead, Rings
      <3>10. rxRing.tail = 0 \/ After(rxRing.head, 1) < rxRing.tail
        BY <3>1, <3>3, <3>4, <3>5, RingConfig DEF After, Slots
      <3> QED
        BY <2>3, <3>4, <3>8, <3>9, <3>10
    <2> QED
      BY <1>1, <2>3, <2>4, <2>5, <2>6 DEF RxIInv
  <1> QED
    BY <1>2, <1>3

----------------------------------------------------------------------------
(* The main loop.                                                          *)

LEMMA StartPopsStep == RxIInv /\ StartPops => RxIInv'
  <1> SUFFICES ASSUME RxIInv, StartPops PROVE RxIInv'
    OBVIOUS
  <1>1. left' \in 1..MaxChunk /\ GetCount(rxRing) >= left' /\ MaxChunk \in Nat
    BY ChunkConfig, RingConfig DEF StartPops
  <1> QED
    BY <1>1 DEF StartPops, Main, RxIInv, PortOk, PopInv, RxRingIsFifo, ClearInv

LEMMA PopReadsStep == RxIInv /\ PopReads => RxIInv'
  BY DEF PopReads, Main, RxIInv, PortOk, PopInv, RxRingIsFifo, ClearInv

LEMMA PopAdvancesStep == RxIInv /\ PopAdvances => RxIInv'
  <1> SUFFICES ASSUME RxIInv, PopAdvances PROVE RxIInv'
    OBVIOUS
  <1>1. /\ rxRing \in Rings /\ left \in Nat /\ left > 0
        /\ GetCount(rxRing) >= left /\ Contents(rxRing) = pushed
    BY DEF PopAdvances, Main, RxIInv, PopInv, RxRingIsFifo
  <1>2. ~IsEmpty(rxRing)
    BY <1>1, CountCases, EmptyAndFull
  <1>3. /\ rxRing' \in Rings /\ GetCount(rxRing') = GetCount(rxRing) - 1
        /\ Contents(rxRing') = pushed'
    BY <1>1, <1>2, AdvanceTailPops DEF PopAdvances
  <1>4. GetCount(rxRing) \in Nat
    BY <1>1, CountCases, RingConfig
  <1>5. left' = left - 1 /\ rxPc' = IF left > 1 THEN "read" ELSE "idle"
    BY DEF PopAdvances, Main
  <1>6. PopInv'
    BY <1>1, <1>3, <1>4, <1>5 DEF PopInv
  <1>7. PortOk'
    BY DEF PopAdvances, RxIInv, PortOk
  <1> QED
    BY <1>3, <1>5, <1>6, <1>7 DEF RxIInv, RxRingIsFifo, ClearInv

LEMMA ClearHeadStep == RxIInv /\ ClearHead => RxIInv'
  <1> SUFFICES ASSUME RxIInv, ClearHead PROVE RxIInv'
    OBVIOUS
  <1>1. /\ rxRing \in Rings /\ rxRing' = [rxRing EXCEPT !.head = 0] /\ pushed' = << >>
        /\ rxPc' = "clear" /\ UNCHANGED <<left, got, port>>
    BY DEF ClearHead, Main, RxIInv
  <1>2. /\ rxRing' \in Rings /\ rxRing'.head = 0 /\ rxRing'.tail = rxRing.tail
        /\ rxRing.tail \in Slots
    BY <1>1, RingConfig DEF Rings, Slots
  <1>3. Clearing' \in Rings /\ Clearing'.head = 0 /\ Clearing'.tail = 0
    BY <1>2, TailZero DEF Clearing
  <1>4. Contents(Clearing') \in Seq(Bytes) /\ Len(Contents(Clearing')) = 0
    BY <1>3, ContentsAre, EmptyAndFull DEF IsEmpty
  <1>5. Contents(Clearing') = pushed'
    BY <1>1, <1>4
  <1>6. rxRing'.tail = 0 \/ rxRing'.head < rxRing'.tail
    BY <1>2, RingConfig DEF Slots
  <1>7. ClearInv'
    BY <1>5, <1>6 DEF ClearInv
  <1> QED
    BY <1>1, <1>2, <1>7 DEF RxIInv, PortOk, PopInv, RxRingIsFifo

LEMMA ClearTailStep == RxIInv /\ ClearTail => RxIInv'
  <1> SUFFICES ASSUME RxIInv, ClearTail PROVE RxIInv'
    OBVIOUS
  <1>1. /\ rxRing \in Rings /\ rxRing' = Clearing /\ Contents(Clearing) = pushed
        /\ rxPc' = "idle" /\ UNCHANGED <<left, got, port, pushed>>
    BY DEF ClearTail, Main, RxIInv, ClearInv, Clearing
  <1>2. rxRing' \in Rings
    BY <1>1, TailZero DEF Clearing
  <1> QED
    BY <1>1, <1>2 DEF RxIInv, PortOk, PopInv, RxRingIsFifo, ClearInv

LEMMA RxStepInv == RxIInv /\ [RxNext]_rxVars => RxIInv'
  <1>1. RxIInv /\ UNCHANGED rxVars => RxIInv'
    BY DEF rxVars, RxIInv, PortOk, PopInv, RxRingIsFifo, ClearInv, Clearing
  <1> QED
    BY <1>1, HwByteStep, IsrEntersStep, IsrPushesStep, StartPopsStep,
       PopReadsStep, PopAdvancesStep, ClearHeadStep, ClearTailStep
       DEF RxNext, RxIsr, RxMainLoop

LEMMA RxInductive == RxSpec => []RxIInv
  BY RxInitInv, RxStepInv, PTL DEF RxSpec

----------------------------------------------------------------------------

(* The ring holds what App_UartRxCallback pushed and the main loop has     *)
(* neither taken nor cleared, in order, though the callback may come in    *)
(* the middle of RingBuffer_Pop or RingBuffer_Clear.                       *)
THEOREM RxRingIsFifoAlways == RxSpec => []RxRingIsFifo
  <1>1. RxIInv => RxRingIsFifo
    BY DEF RxIInv
  <1> QED
    BY <1>1, RxInductive, PTL

(* RingBuffer_Pop returns the oldest byte.                                 *)
THEOREM PopIsOldestAlways == RxSpec => []PopIsOldest
  <1>1. RxIInv => PopIsOldest
    <2> SUFFICES ASSUME RxIInv, rxPc = "advance"
                 PROVE  pushed # << >> /\ got = Head(pushed)
      BY DEF PopIsOldest
    <2>1. /\ rxRing \in Rings /\ Contents(rxRing) = pushed /\ got = OldestByte(rxRing)
          /\ left \in Nat /\ left > 0 /\ GetCount(rxRing) >= left
      BY DEF RxIInv, PopInv, RxRingIsFifo
    <2>2. ~IsEmpty(rxRing)
      BY <2>1, CountCases, EmptyAndFull
    <2> QED
      BY <2>1, <2>2, AdvanceTailPops
  <1> QED
    BY <1>1, RxInductive, PTL

(* App_PrepareImageChunk never gives up half a chunk: every pop the count  *)
(* promised succeeds.                                                      *)
THEOREM PopsSucceedAlways == RxSpec => []PopsSucceed
  <1>1. RxIInv => PopsSucceed
    BY DEF RxIInv, PopInv, PopsSucceed
  <1> QED
    BY <1>1, RxInductive, PTL

============================================================================
