------------------------ MODULE CanTpSegmentProofs -------------------------
(***************************************************************************)
(* Arithmetic of the segmentation (CanTpSegments): sequence numbers modulo *)
(* SnModulus, where a segment starts and how many there are.  The proofs   *)
(* of the sender, of the receiver and of the connection rest on it.        *)
(***************************************************************************)
EXTENDS CanTpSegments, TLAPS

\* Where segment j + 1 starts.
Offset(j) == IF j = 0 THEN 0 ELSE FfPayload + (j - 1) * CfPayload

----------------------------------------------------------------------------

LEMMA ModRange ==
    ASSUME NEW a \in Int, NEW m \in Nat \ {0}
    PROVE  a % m \in 0..(m - 1)
  OBVIOUS

LEMMA SnRange ==
    ASSUME NEW a \in Int
    PROVE  a % SnModulus \in SequenceNumbers
  BY ModRange, WireConfig DEF SequenceNumbers

LEMMA ModUnique ==
    ASSUME NEW m \in Nat \ {0}, NEW q \in Int, NEW r \in 0..(m - 1)
    PROVE  (q * m + r) % m = r
  OBVIOUS

LEMMA ModSuccessor ==
    ASSUME NEW a \in Nat, NEW m \in Nat, m > 1
    PROVE  ((a % m) + 1) % m = (a + 1) % m
  <1> DEFINE q == a \div m
             r == a % m
  <1>1. q \in Nat /\ r \in 0..(m - 1) /\ a = q * m + r
    OBVIOUS
  <1> HIDE DEF q, r
  <1>2. CASE r + 1 < m
    <2>1. (r + 1) % m = r + 1
      BY <1>1, <1>2, ModUnique, 0 * m + (r + 1) = r + 1
    <2>2. (q * m + (r + 1)) % m = r + 1
      BY <1>1, <1>2, ModUnique
    <2>3. q * m + (r + 1) = a + 1
      BY <1>1
    <2> QED
      BY <2>1, <2>2, <2>3 DEF r
  <1>3. CASE r + 1 = m
    <2>1. (1 * m + 0) % m = 0 /\ 1 * m + 0 = r + 1
      BY <1>3, ModUnique
    <2>2. ((q + 1) * m + 0) % m = 0
      BY <1>1, ModUnique
    <2>3. (q + 1) * m + 0 = a + 1
      <3>1. (q + 1) * m = q * m + m
        BY <1>1
      <3> QED
        BY <1>1, <1>3, <3>1
    <2> QED
      BY <2>1, <2>2, <2>3 DEF r
  <1> QED
    BY <1>1, <1>2, <1>3

LEMMA ModIdempotent ==
    ASSUME NEW a \in Nat, NEW m \in Nat \ {0}
    PROVE  (a % m) % m = a % m
  OBVIOUS

LEMMA DivLower ==
    ASSUME NEW a \in Nat, NEW m \in Nat \ {0}, NEW k \in Nat, k * m <= a
    PROVE  k <= a \div m
  OBVIOUS

LEMMA DivExact ==
    ASSUME NEW m \in Nat \ {0}, NEW k \in Nat, NEW b \in 0..(m - 1)
    PROVE  (k * m + b) \div m = k
  OBVIOUS

LEMMA OffsetType ==
    ASSUME NEW j \in Nat
    PROVE  /\ Offset(j) \in Nat
           /\ Offset(j) = 0 <=> j = 0
  BY WireConfig DEF Offset

LEMMA OffsetNext ==
    ASSUME NEW j \in Nat
    PROVE  Offset(j + 1) = Offset(j) + (IF j = 0 THEN FfPayload ELSE CfPayload)
  BY WireConfig DEF Offset

\* As long as segment j + 1 starts inside the N-SDU, there is a segment j + 1.
LEMMA CountLower ==
    ASSUME NEW n \in 1..MaxNsdu, NEW j \in Nat, Offset(j) < n,
           n <= SfMax => j = 0
    PROVE  j + 1 <= SegmentCount(n)
  <1>1. CASE n <= SfMax
    BY <1>1 DEF SegmentCount
  <1>2. CASE n > SfMax
    <2> DEFINE a == n - FfPayload + CfPayload - 1
    <2>1. a \in Nat /\ CfPayload \in Nat \ {0}
      BY <1>2, WireConfig
    <2>2. j * CfPayload <= a
      <3>1. CASE j = 0
        BY <2>1, <3>1
      <3>2. CASE j # 0
        <4>1. FfPayload + (j - 1) * CfPayload < n
          BY <3>2 DEF Offset
        <4>2. (j - 1) * CfPayload = j * CfPayload - CfPayload
          BY WireConfig
        <4> QED
          BY <4>1, <4>2, WireConfig
      <3> QED
        BY <3>1, <3>2
    <2>3. j <= a \div CfPayload
      BY <2>1, <2>2, DivLower
    <2>4. SegmentCount(n) = 1 + a \div CfPayload
      BY <1>2, WireConfig DEF SegmentCount
    <2>5. a \div CfPayload \in Int
      BY <2>1
    <2> HIDE DEF a
    <2> QED
      BY <2>3, <2>4, <2>5
  <1> QED
    BY <1>1, <1>2, WireConfig

\* If segment j + 1 reaches the end of the N-SDU, it is the last one.
LEMMA CountExact ==
    ASSUME NEW n \in 1..MaxNsdu, NEW j \in Nat, Offset(j) < n,
           n <= SfMax => j = 0,
           j # 0 => n - Offset(j) <= CfPayload,
           j = 0 => n <= SfMax
    PROVE  j + 1 = SegmentCount(n)
  <1>1. CASE n <= SfMax
    BY <1>1 DEF SegmentCount
  <1>2. CASE n > SfMax
    <2> DEFINE b == n - Offset(j) - 1
    <2>1. j # 0
      BY <1>2, WireConfig
    <2>2. b \in 0..(CfPayload - 1) /\ Offset(j) = FfPayload + (j - 1) * CfPayload
      BY <2>1, OffsetType, WireConfig DEF Offset
    <2>3. (j - 1) * CfPayload = j * CfPayload - CfPayload /\ j * CfPayload \in Nat
      BY WireConfig
    <2>4. n - FfPayload + CfPayload - 1 = j * CfPayload + b
      BY <2>2, <2>3, WireConfig
    <2>5. (j * CfPayload + b) \div CfPayload = j
      BY <2>2, DivExact, WireConfig
    <2> QED
      BY <1>2, <2>4, <2>5, WireConfig DEF SegmentCount
  <1> QED
    BY <1>1, <1>2, WireConfig

============================================================================
