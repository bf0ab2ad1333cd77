--------------------------- MODULE AppImageProofs ---------------------------
(***************************************************************************)
(* Machine-checked proofs about the image transfer, for every stream of    *)
(* images and every ring, chunk length and number of retries.              *)
(***************************************************************************)
EXTENDS AppImage, TLAPS, SequenceTheorems

----------------------------------------------------------------------------
(* The inductive invariant.                                                *)

Ascending(q) == \A i, j \in DOMAIN q : i < j => q[i] < q[j]

Below(q, r) == \A i \in DOMAIN q, j \in DOMAIN r : q[i] < r[j]

Within(q, n) == \A i \in DOMAIN q : q[i] \in 1..n

Results == {"E_OK", "E_NOT_OK"}

ImgState ==
    [header : Seq(Nat), active : BOOLEAN, remaining : Nat, chunk : Seq(Nat),
     retryCount : 0..MaxRetries, txPending : BOOLEAN,
     baseline : 0..(CountModulus - 1)]

NodeState ==
    [state : {"FREE", "BUSY", "BLOCKED"}, count : 0..(CountModulus - 1),
     result : Results, reported : Seq(Results)]

Types ==
    /\ sent \in 0..StreamLength /\ overflowed \in BOOLEAN
    /\ ring \in Seq(Nat) /\ Len(ring) <= Capacity
    /\ img \in ImgState /\ node \in NodeState
    /\ resolved \in Seq(Nat) /\ attempts \in 0..(MaxRetries + 1)

\* What the steps of App_ProcessMasterImageTx may rely on: a header is read
\* only between two images, and an image is active as long as one of its
\* bytes is still to be sent or resolved.
Shape(s) ==
    /\ s \in ImgState
    /\ Len(s.header) < HeaderBytes /\ Len(s.chunk) <= MaxChunk
    /\ s.active => s.header = << >>
    /\ s.chunk # << >> => s.active
    /\ s.active /\ s.chunk = << >> => s.remaining > 0

\* A submission that is pending has not been reported and the counter is
\* where it was, or has been, once, and the counter is one further.
SessionInv ==
    IF img.txPending
    THEN \/ node.state = "BUSY" /\ node.count = img.baseline
            /\ node.reported = << >>
         \/ node.state # "BUSY" /\ node.reported = <<node.result>>
            /\ node.count = (img.baseline + 1) % CountModulus
    ELSE node.state # "BUSY"

\* The retry counter counts the attempts.
AttemptInv ==
    /\ img.txPending => img.chunk # << >>
    /\ img.chunk # << >> =>
          attempts = img.retryCount + (IF img.txPending THEN 1 ELSE 0)

\* What is in the ring follows whatever has been taken from it.
Ordered(q, r) ==
    /\ Ascending(q) /\ Ascending(r) /\ Below(q, r)
    /\ Within(q, sent) /\ Within(r, sent)

\* Where in the stream the transfer is: within image i - 1, or in the
\* header of image i.
Place(i, s, pos) ==
    IF s.active
    THEN i > 1 /\ Before[i - 1] + HeaderBytes <= pos
         /\ pos + s.remaining = Before[i]
    ELSE pos = Before[i] + Len(s.header)
         /\ \A k \in DOMAIN s.header : s.header[k] = Before[i] + k

PayloadUpTo(pos) == {byte \in PayloadBytes : byte <= pos}

Tiled(s, q, pos) ==
    /\ {q[i] : i \in DOMAIN q} = PayloadUpTo(pos)
    /\ \E i \in DOMAIN Before : Place(i, s, pos)

\* As long as nothing was lost, the ring holds the stream's next bytes.
TileInv ==
    ~overflowed =>
       /\ \A k \in DOMAIN ring : ring[k] = Position + k
       /\ Tiled(img, resolved \o img.chunk, Position)

IInv ==
    /\ Types /\ Shape(img) /\ SessionInv /\ AttemptInv
    /\ Ordered(resolved \o img.chunk, ring) /\ TileInv

----------------------------------------------------------------------------
(* Sequences of bytes.                                                     *)

LEMMA Cut ==
    ASSUME NEW q \in Seq(Nat), NEW a \in 0..Len(q), NEW b \in a..Len(q)
    PROVE  /\ SubSeq(q, a + 1, b) \in Seq(Nat)
           /\ Len(SubSeq(q, a + 1, b)) = b - a
           /\ \A i \in 1..(b - a) : SubSeq(q, a + 1, b)[i] = q[a + i]
  <1>1. /\ a + 1 \in Int /\ b \in Int /\ \A i \in (a + 1)..b : q[i] \in Nat
    BY ElementOfSeq, LenProperties
  <1>2. \A i \in 1..(b - (a + 1) + 1) : SubSeq(q, a + 1, b)[i] = q[(a + 1) + i - 1]
    BY <1>1, SubSeqProperties
  <1> QED
    BY <1>1, <1>2, SubSeqProperties, LenProperties

LEMMA Join ==
    ASSUME NEW p \in Seq(Nat), NEW q \in Seq(Nat)
    PROVE  /\ p \o q \in Seq(Nat)
           /\ Len(p \o q) = Len(p) + Len(q)
           /\ DOMAIN (p \o q) = 1..(Len(p) + Len(q))
           /\ \A i \in 1..Len(p) : (p \o q)[i] = p[i]
           /\ \A i \in 1..Len(q) : (p \o q)[Len(p) + i] = q[i]
  BY ConcatProperties, LenProperties

\* An index of a concatenation is one of its first part or of its second.
LEMMA JoinedIndex ==
    ASSUME NEW p \in Seq(Nat), NEW q \in Seq(Nat)
    PROVE  \A i \in DOMAIN (p \o q) :
              \/ i \in DOMAIN p /\ (p \o q)[i] = p[i]
              \/ i - Len(p) \in DOMAIN q /\ (p \o q)[i] = q[i - Len(p)]
  <1>1. /\ Len(p) \in Nat /\ Len(q) \in Nat
        /\ DOMAIN p = 1..Len(p) /\ DOMAIN q = 1..Len(q)
        /\ DOMAIN (p \o q) = 1..(Len(p) + Len(q))
    BY LenProperties, Join
  <1> TAKE i \in DOMAIN (p \o q)
  <1>2. CASE i <= Len(p)
    BY <1>1, <1>2, ConcatProperties
  <1>3. CASE i > Len(p)
    <2>1. i - Len(p) \in 1..Len(q)
      BY <1>1, <1>3
    <2>2. (p \o q)[i] = q[i - Len(p)]
      BY <1>1, <1>3, ConcatProperties
    <2> QED
      BY <1>1, <2>1, <2>2
  <1> QED
    BY <1>1, <1>2, <1>3

LEMMA Shift ==
    ASSUME NEW q \in Seq(Nat), NEW a \in 0..Len(q), NEW b \in a..Len(q),
           Ascending(q)
    PROVE  Ascending(SubSeq(q, a + 1, b))
  <1> DEFINE c == SubSeq(q, a + 1, b)
  <1>1. c \in Seq(Nat) /\ Len(c) = b - a /\ \A i \in 1..(b - a) : c[i] = q[a + i]
    BY Cut
  <1>2. /\ DOMAIN c = 1..(b - a) /\ DOMAIN q = 1..Len(q)
        /\ \A i \in 1..(b - a) : a + i \in DOMAIN q
    BY <1>1, LenProperties
  <1> HIDE DEF c
  <1>3. \A i, j \in 1..(b - a) : i < j => c[i] < c[j]
    <2> TAKE i, j \in 1..(b - a)
    <2> HAVE i < j
    <2>1. a + i < a + j /\ a + i \in DOMAIN q /\ a + j \in DOMAIN q
      BY <1>2
    <2> QED
      BY <1>1, <2>1 DEF Ascending
  <1> QED
    BY <1>2, <1>3 DEF Ascending, c

LEMMA AscendingJoin ==
    ASSUME NEW p \in Seq(Nat), NEW q \in Seq(Nat),
           Ascending(p), Ascending(q), Below(p, q)
    PROVE  Ascending(p \o q)
  <1> SUFFICES ASSUME NEW i \in 1..(Len(p) + Len(q)),
                      NEW j \in 1..(Len(p) + Len(q)), i < j
               PROVE  (p \o q)[i] < (p \o q)[j]
    BY Join DEF Ascending
  <1>0. /\ Len(p) \in Nat /\ Len(q) \in Nat
        /\ DOMAIN p = 1..Len(p) /\ DOMAIN q = 1..Len(q)
    BY LenProperties
  <1>1. CASE j <= Len(p)
    <2>1. i \in DOMAIN p /\ j \in DOMAIN p
      BY <1>0, <1>1
    <2>2. (p \o q)[i] = p[i] /\ (p \o q)[j] = p[j]
      BY <1>0, <1>1, <2>1, Join
    <2> QED
      BY <2>1, <2>2 DEF Ascending
  <1>2. CASE i > Len(p)
    <2>1. i - Len(p) \in 1..Len(q) /\ j - Len(p) \in 1..Len(q) /\ i - Len(p) < j - Len(p)
      BY <1>0, <1>2
    <2>2. (p \o q)[i] = q[i - Len(p)] /\ (p \o q)[j] = q[j - Len(p)]
      BY <1>0, <1>2, ConcatProperties
    <2> QED
      BY <1>0, <2>1, <2>2 DEF Ascending
  <1>3. CASE i <= Len(p) /\ j > Len(p)
    <2>1. (p \o q)[i] = p[i] /\ (p \o q)[j] = q[j - Len(p)]
      BY <1>0, <1>3, ConcatProperties
    <2>2. i \in 1..Len(p) /\ j - Len(p) \in 1..Len(q)
      BY <1>0, <1>3
    <2> QED
      BY <1>0, <2>1, <2>2 DEF Below
  <1> QED
    BY <1>0, <1>1, <1>2, <1>3

LEMMA RangeJoin ==
    ASSUME NEW p \in Seq(Nat), NEW q \in Seq(Nat)
    PROVE  {(p \o q)[i] : i \in DOMAIN (p \o q)}
              = {p[i] : i \in DOMAIN p} \cup {q[i] : i \in DOMAIN q}
  <1>0. /\ Len(p) \in Nat /\ Len(q) \in Nat
        /\ DOMAIN p = 1..Len(p) /\ DOMAIN q = 1..Len(q)
        /\ DOMAIN (p \o q) = 1..(Len(p) + Len(q))
    BY LenProperties, Join
  <1> DEFINE P == {p[i] : i \in DOMAIN p}
             Q == {q[i] : i \in DOMAIN q}
             R == {(p \o q)[i] : i \in DOMAIN (p \o q)}
  <1>1. R \subseteq P \cup Q
    BY JoinedIndex
  <1>2. \A i \in DOMAIN p : i \in DOMAIN (p \o q) /\ (p \o q)[i] = p[i]
    BY <1>0, Join
  <1>3. \A i \in DOMAIN q : Len(p) + i \in DOMAIN (p \o q) /\ (p \o q)[Len(p) + i] = q[i]
    BY <1>0, Join
  <1>4. P \subseteq R
    BY <1>2
  <1>5. Q \subseteq R
    BY <1>3
  <1> QED
    BY <1>1, <1>4, <1>5

\* Bytes taken out of the ring in one piece may be appended to those taken.
LEMMA TakeOrdered ==
    ASSUME NEW q \in Seq(Nat), NEW r \in Seq(Nat), Ordered(q, r), sent \in Nat,
           NEW a \in 0..Len(r), NEW b \in a..Len(r)
    PROVE  /\ Ordered(q \o SubSeq(r, a + 1, b), SubSeq(r, b + 1, Len(r)))
           /\ Ordered(q, SubSeq(r, b + 1, Len(r)))
  <1> DEFINE c == SubSeq(r, a + 1, b)
             d == SubSeq(r, b + 1, Len(r))
  <1>0. /\ Len(r) \in Nat /\ DOMAIN r = 1..Len(r)
        /\ Len(q) \in Nat /\ DOMAIN q = 1..Len(q)
        /\ b \in 0..Len(r) /\ Len(r) \in b..Len(r)
    BY LenProperties
  <1>1. /\ c \in Seq(Nat) /\ DOMAIN c = 1..(b - a)
        /\ \A i \in 1..(b - a) : a + i \in DOMAIN r /\ c[i] = r[a + i]
    <2>1. c \in Seq(Nat) /\ Len(c) = b - a /\ \A i \in 1..(b - a) : c[i] = r[a + i]
      BY Cut
    <2>2. \A i \in 1..(b - a) : a + i \in 1..Len(r)
      BY <1>0
    <2> QED
      BY <1>0, <2>1, <2>2, LenProperties
  <1>2. /\ d \in Seq(Nat) /\ DOMAIN d = 1..(Len(r) - b)
        /\ \A i \in 1..(Len(r) - b) : b + i \in DOMAIN r /\ d[i] = r[b + i]
    <2>1. /\ d \in Seq(Nat) /\ Len(d) = Len(r) - b
          /\ \A i \in 1..(Len(r) - b) : d[i] = r[b + i]
      BY <1>0, Cut
    <2>2. \A i \in 1..(Len(r) - b) : b + i \in 1..Len(r)
      BY <1>0
    <2> QED
      BY <1>0, <2>1, <2>2, LenProperties
  <1>3. Ascending(c) /\ Ascending(d)
    BY <1>0, Shift DEF Ordered
  <1> HIDE DEF c, d
  <1>4. Below(q, c) /\ Below(q, d) /\ Below(c, d) /\ Within(c, sent) /\ Within(d, sent)
    <2>1. Below(q, c) /\ Within(c, sent)
      BY <1>1 DEF Ordered, Below, Within
    <2>2. Below(q, d) /\ Within(d, sent)
      BY <1>2 DEF Ordered, Below, Within
    <2>3. Below(c, d)
      <3> SUFFICES ASSUME NEW i \in 1..(b - a), NEW j \in 1..(Len(r) - b)
                   PROVE  c[i] < d[j]
        BY <1>1, <1>2 DEF Below
      <3>1. a + i < b + j
        BY <1>0
      <3> QED
        BY <1>1, <1>2, <3>1 DEF Ordered, Ascending
    <2> QED
      BY <2>1, <2>2, <2>3
  <1>5. Below(q \o c, d) /\ Within(q \o c, sent)
    <2>1. \A i \in DOMAIN (q \o c) :
             \/ i \in DOMAIN q /\ (q \o c)[i] = q[i]
             \/ i - Len(q) \in DOMAIN c /\ (q \o c)[i] = c[i - Len(q)]
      BY <1>1, JoinedIndex
    <2> QED
      BY <2>1, <1>4 DEF Below, Within, Ordered
  <1>6. Ascending(q \o c)
    BY <1>1, <1>3, <1>4, AscendingJoin DEF Ordered
  <1> QED
    BY <1>3, <1>4, <1>5, <1>6 DEF Ordered, c, d

----------------------------------------------------------------------------
(* App_ResolveImageChunk.                                                  *)

\* What App_ResolveImageChunk does to a chunk that is not pending.
LEMMA ResolveOutcome ==
    ASSUME NEW s, Shape(s), s.chunk # << >>, NEW result \in Results
    PROVE  LET r == Resolve(s, result) IN
           /\ Shape(r)
           /\ r.header = s.header /\ r.remaining = s.remaining
           /\ r.txPending = s.txPending /\ r.baseline = s.baseline
           /\ IF result = "E_OK" \/ GivesUp(s)
              THEN /\ r.chunk = << >> /\ r.retryCount = 0
                   /\ r.active = (s.remaining # 0)
              ELSE /\ r.chunk = s.chunk /\ r.retryCount = s.retryCount + 1
                   /\ r.active = s.active
  <1> DEFINE m == IF result = "E_OK" \/ GivesUp(s) THEN Released(s)
                  ELSE [s EXCEPT !.retryCount = @ + 1]
             a == m.active /\ ~(m.remaining = 0 /\ m.chunk = << >>)
             r == [m EXCEPT !.active = a]
  <1>1. s \in ImgState /\ s.active /\ s.header = << >>
    BY DEF Shape
  <1>2. /\ m \in ImgState /\ m.header = s.header /\ m.remaining = s.remaining
        /\ m.txPending = s.txPending /\ m.baseline = s.baseline /\ m.active = s.active
        /\ IF result = "E_OK" \/ GivesUp(s)
           THEN m.chunk = << >> /\ m.retryCount = 0
           ELSE m.chunk = s.chunk /\ m.retryCount = s.retryCount + 1
    <2>1. CASE result = "E_OK" \/ GivesUp(s)
      <3>1. << >> \in Seq(Nat) /\ 0 \in 0..MaxRetries
        BY EmptySeq, ImageConfig
      <3>2. Released(s) \in ImgState
        BY <1>1, <3>1 DEF Released, ImgState
      <3> QED
        BY <1>1, <2>1, <3>2 DEF Released, ImgState
    <2>2. CASE ~(result = "E_OK" \/ GivesUp(s))
      <3>1. s.retryCount + 1 \in 0..MaxRetries
        BY <1>1, <2>2, ImageConfig DEF GivesUp, ImgState
      <3>2. [s EXCEPT !.retryCount = s.retryCount + 1] \in ImgState
        BY <1>1, <3>1 DEF ImgState
      <3> QED
        BY <1>1, <2>2, <3>2 DEF ImgState
    <2> QED
      BY <2>1, <2>2
  <1> HIDE DEF m
  <1>3. a \in BOOLEAN /\ r \in ImgState
    BY <1>2 DEF ImgState
  <1>4. /\ r.header = s.header /\ r.remaining = s.remaining
        /\ r.txPending = s.txPending /\ r.baseline = s.baseline
        /\ r.chunk = m.chunk /\ r.retryCount = m.retryCount /\ r.active = a
    BY <1>2 DEF ImgState
  <1>5. Len(<< >>) = 0 /\ m.remaining \in Nat
    BY <1>2 DEF ImgState
  <1>6. Resolve(s, result) = r
    BY DEF Resolve, m
  <1>7. Shape(r)
    <2>1. Len(r.header) < HeaderBytes /\ Len(r.chunk) <= MaxChunk
      BY <1>2, <1>4, <1>5, ImageConfig DEF Shape
    <2>2. /\ r.active => r.header = << >>
          /\ r.chunk # << >> => r.active
          /\ r.active /\ r.chunk = << >> => r.remaining > 0
      <3>1. r.active => m.active /\ ~(m.remaining = 0 /\ m.chunk = << >>)
        BY <1>4
      <3>2. r.chunk # << >> => r.active
        BY <1>1, <1>2, <1>4, Zenon
      <3> QED
        BY <1>1, <1>4, <1>5, <3>1, <3>2
    <2> QED
      BY <1>3, <2>1, <2>2 DEF Shape
  <1> QED
    BY <1>1, <1>2, <1>4, <1>5, <1>6, <1>7

\* What the image transfer's place in the stream depends on.
LEMMA ResolveKeepsPlace ==
    ASSUME NEW s, Shape(s), s.chunk # << >>, NEW result \in Results,
           NEW i \in DOMAIN Before, NEW pos \in Int, Place(i, s, pos)
    PROVE  Place(i, Resolve(s, result), pos)
  <1> DEFINE r == Resolve(s, result)
  <1>1. /\ r.header = << >> /\ r.remaining = s.remaining /\ s.active
        /\ r.active \/ r.remaining = 0
    BY ResolveOutcome DEF Shape
  <1>2. Before[i] \in Nat /\ Len(<< >>) = 0
    BY StreamConfig
  <1> HIDE DEF r
  <1> QED
    BY <1>1, <1>2 DEF Place, r

----------------------------------------------------------------------------
(* The stream.                                                             *)

LEMMA StreamTypes ==
    /\ Len(Before) \in Nat \ {0} /\ DOMAIN Before = 1..Len(Before)
    /\ \A i \in DOMAIN Before : Before[i] \in Nat
    /\ StreamLength \in Nat
    /\ \A i \in DOMAIN Before : Before[i] <= StreamLength
    /\ \A i \in DOMAIN Before : Before[i] + HeaderBytes > StreamLength => i = Len(Before)
  <1>1. Len(Before) \in Nat \ {0} /\ DOMAIN Before = 1..Len(Before)
    BY StreamConfig, EmptySeq, LenProperties
  <1>2. \A i \in DOMAIN Before : Before[i] \in Nat
    BY <1>1, StreamConfig, ElementOfSeq
  <1>3. Len(Before) \in DOMAIN Before
    BY <1>1
  <1>4. \A i \in DOMAIN Before :
           i = Len(Before) \/ Before[i] + HeaderBytes <= Before[Len(Before)]
    BY <1>1, <1>3, StreamConfig
  <1> QED
    BY <1>1, <1>2, <1>3, <1>4 DEF StreamLength, HeaderBytes

LEMMA ImageTypes ==
    ASSUME NEW i \in Images
    PROVE  /\ i \in DOMAIN Before /\ i + 1 \in DOMAIN Before
           /\ ImageLength(i) \in Nat
           /\ Before[i] + HeaderBytes + ImageLength(i) = Before[i + 1]
  <1>1. i \in DOMAIN Before /\ i + 1 \in DOMAIN Before /\ i < i + 1
    BY StreamTypes DEF Images
  <1>2. Before[i] + HeaderBytes <= Before[i + 1]
    BY <1>1, StreamConfig
  <1> QED
    BY <1>1, <1>2, StreamTypes DEF ImageLength, HeaderBytes

LEMMA LengthsType ==
    ASSUME NEW b1, NEW b2 PROVE LengthsRead(b1, b2) \subseteq Nat
  BY ImageTypes, ImageConfig DEF LengthsRead

\* A header that was not cut is read as its own image's length.
LEMMA LengthOfHeader ==
    ASSUME NEW i \in Images
    PROVE  LengthsRead(Before[i] + 1, Before[i] + 2) = {ImageLength(i)}
  <1>1. \A k \in Images : Before[i] + 1 = Before[k] + 1 => k = i
    <2> TAKE k \in Images
    <2> HAVE Before[i] + 1 = Before[k] + 1
    <2>1. i \in DOMAIN Before /\ k \in DOMAIN Before /\ Before[i] = Before[k]
      BY SMTT(20), ImageTypes, StreamTypes
    <2>2. i < k => Before[i] + HeaderBytes <= Before[k]
      BY <2>1, StreamConfig
    <2>3. k < i => Before[k] + HeaderBytes <= Before[i]
      BY <2>1, StreamConfig
    <2> QED
      BY <2>1, <2>2, <2>3, StreamTypes DEF HeaderBytes
  <1>2. Before[i] \in Nat /\ Before[i] + 2 = Before[i] + 1 + 1
    BY ImageTypes, StreamTypes
  <1> QED
    BY <1>1, <1>2 DEF LengthsRead

\* The bytes of a header are in no image.
LEMMA HeaderIsNoPayload ==
    ASSUME NEW i \in DOMAIN Before, NEW m \in Int, NEW n \in Int,
           Before[i] <= m, m <= n, n <= Before[i] + HeaderBytes
    PROVE  PayloadUpTo(n) = PayloadUpTo(m)
  <1> SUFFICES ASSUME NEW byte \in PayloadBytes, byte <= n, ~(byte <= m)
               PROVE  FALSE
    BY DEF PayloadUpTo, PayloadBytes
  <1>1. PICK j \in Images : Before[j] + HeaderBytes < byte /\ byte <= Before[j + 1]
    BY DEF PayloadBytes
  <1>2. byte \in Nat /\ Before[i] < byte /\ byte <= Before[i] + HeaderBytes
    BY StreamTypes DEF PayloadBytes, HeaderBytes
  <1>3. j \in Int /\ i \in Int /\ j \in DOMAIN Before /\ j + 1 \in DOMAIN Before
    BY ImageTypes, StreamTypes
  <1>4. i < j => Before[i] + HeaderBytes <= Before[j]
    BY <1>3, StreamConfig
  <1>5. j + 1 < i => Before[j + 1] + HeaderBytes <= Before[i]
    BY <1>3, StreamConfig
  <1> QED
    <2>1. /\ Before[j] \in Nat /\ Before[j + 1] \in Nat /\ Before[i] \in Nat
      BY <1>3, StreamTypes
    <2>2. ~(i < j) /\ ~(j + 1 < i)
      BY <1>1, <1>2, <1>4, <1>5, <2>1 DEF HeaderBytes
    <2>3. j = i \/ j + 1 = i
      BY <1>3, <2>2
    <2>4. CASE j = i
      BY <1>1, <1>2, <2>1, <2>4 DEF HeaderBytes
    <2>5. CASE j + 1 = i
      BY <1>1, <1>2, <2>1, <2>5
    <2> QED
      BY <2>3, <2>4, <2>5

\* The bytes between a header and the next are all in the image.
LEMMA ImageIsPayload ==
    ASSUME NEW i \in DOMAIN Before, i > 1, NEW m \in Int, NEW n \in Int,
           Before[i - 1] + HeaderBytes <= m, m <= n, n <= Before[i]
    PROVE  PayloadUpTo(n) = PayloadUpTo(m) \cup (m + 1)..n
  <1>0. i \in 1..Len(Before) /\ Len(Before) \in Nat
    BY StreamTypes
  <1>1. i - 1 \in Images /\ i - 1 + 1 = i
    BY <1>0 DEF Images
  <1>2. Before[i - 1] \in Nat /\ n <= StreamLength
    BY <1>1, StreamTypes, ImageTypes
  <1>3. \A byte \in (m + 1)..n : byte \in PayloadBytes /\ byte <= n
    <2> TAKE byte \in (m + 1)..n
    <2>1. byte \in 1..StreamLength
      BY <1>2, StreamTypes DEF HeaderBytes
    <2>2. Before[i - 1] + HeaderBytes < byte
      BY <1>2 DEF HeaderBytes
    <2>3. byte <= Before[(i - 1) + 1]
      BY <1>1, StreamTypes
    <2> QED
      BY <1>1, <2>1, <2>2, <2>3 DEF PayloadBytes
  <1>4. \A byte \in PayloadBytes : byte \in Int
    BY DEF PayloadBytes
  <1> QED
    BY <1>3, <1>4 DEF PayloadUpTo

----------------------------------------------------------------------------
(* App_PrepareImageChunk.                                                  *)

\* The ring as App_PrepareImageChunk finds it: the bytes after the first
\* pos of the stream, which is not over.
Follows(pos) ==
    (\A k \in DOMAIN ring : ring[k] = pos + k) /\ pos + Len(ring) <= StreamLength

LEMMA HeaderOutcome ==
    ASSUME NEW c, Shape(c), ~c.active, ring \in Seq(Nat)
    PROVE  LET t == HeaderTaken(c)
               h == HeaderRead(c)
           IN  /\ t \in 0..Len(ring)
               /\ h \in Seq(Nat) /\ Len(h) = Len(c.header) + t /\ Len(h) <= HeaderBytes
               /\ \A k \in 1..Len(h) :
                     h[k] = IF k <= Len(c.header) THEN c.header[k]
                            ELSE ring[k - Len(c.header)]
  <1> DEFINE t == HeaderTaken(c)
             a == SubSeq(ring, 1, t)
  <1>1. c.header \in Seq(Nat) /\ Len(c.header) \in Nat /\ Len(c.header) < HeaderBytes
    BY LenProperties DEF Shape, ImgState
  <1>0. Len(ring) \in Nat
    BY LenProperties
  <1>2. t \in 0..Len(ring) /\ Len(c.header) + t <= HeaderBytes
    <2>1. IF Len(ring) < HeaderBytes - Len(c.header) THEN t = Len(ring)
          ELSE t = HeaderBytes - Len(c.header)
      BY DEF HeaderTaken
    <2> HIDE DEF t
    <2> QED
      BY <1>0, <1>1, <2>1 DEF HeaderBytes
  <1> HIDE DEF t
  <1>3. /\ SubSeq(ring, 0 + 1, t) \in Seq(Nat)
        /\ Len(SubSeq(ring, 0 + 1, t)) = t - 0
        /\ \A i \in 1..(t - 0) : SubSeq(ring, 0 + 1, t)[i] = ring[0 + i]
    <2>1. 0 \in 0..Len(ring) /\ t \in 0..Len(ring)
      BY <1>2
    <2> QED
      BY <2>1, Cut
  <1>4. a \in Seq(Nat) /\ Len(a) = t /\ \A i \in 1..t : a[i] = ring[i]
    BY <1>2, <1>3
  <1> HIDE DEF a
  <1>5. /\ c.header \o a \in Seq(Nat)
        /\ Len(c.header \o a) = Len(c.header) + t
        /\ \A k \in 1..(Len(c.header) + t) : (c.header \o a)[k]
              = IF k <= Len(c.header) THEN c.header[k] ELSE a[k - Len(c.header)]
    BY <1>1, <1>4, ConcatProperties
  <1>6. \A k \in 1..(Len(c.header) + t) :
           ~(k <= Len(c.header)) => k - Len(c.header) \in 1..t
    BY <1>1, <1>2
  <1>7. HeaderRead(c) = c.header \o a
    BY DEF HeaderRead, a, t
  <1> QED
    BY <1>1, <1>2, <1>4, <1>5, <1>6, <1>7 DEF t

\* What the parse leaves is an image, or none and fewer than two bytes.
LEMMA ParsedShape ==
    ASSUME NEW c, Shape(c), c.chunk = << >>, ring \in Seq(Nat), NEW p \in Parsed(c)
    PROVE  Shape(p) /\ p.chunk = << >> /\ p.txPending = c.txPending
  <1> DEFINE h == HeaderRead(c)
  <1>1. CASE c.active
    BY <1>1 DEF Parsed
  <1>2. CASE ~c.active /\ Len(h) < HeaderBytes
    <2>1. h \in Seq(Nat)
      BY <1>2, HeaderOutcome
    <2>2. p = [c EXCEPT !.header = h]
      BY <1>2 DEF Parsed
    <2> HIDE DEF h
    <2>3. /\ p \in ImgState /\ p.header = h /\ p.chunk = c.chunk
          /\ p.active = c.active /\ p.txPending = c.txPending
      BY <2>1, <2>2 DEF Shape, ImgState
    <2> QED
      BY <1>2, <2>3, ImageConfig DEF Shape
  <1>3. CASE ~c.active /\ ~(Len(h) < HeaderBytes)
    <2>1. PICK len \in LengthsRead(h[1], h[2]) :
             p = [c EXCEPT !.header = << >>, !.active = len > 0,
                           !.remaining = IF len > 0 THEN len ELSE @]
      BY <1>3 DEF Parsed
    <2>2. len \in Nat /\ << >> \in Seq(Nat) /\ Len(<< >>) = 0
      BY LengthsType, EmptySeq
    <2> DEFINE a == len > 0
               l == IF len > 0 THEN len ELSE c.remaining
    <2>3. c \in ImgState /\ a \in BOOLEAN /\ l \in Nat /\ (a => l > 0)
      BY <2>2 DEF Shape, ImgState
    <2>4. p = [c EXCEPT !.header = << >>, !.active = a, !.remaining = l]
      BY <2>1, <2>3 DEF ImgState
    <2> HIDE DEF a, l, h
    <2>5. /\ p \in ImgState /\ p.header = << >> /\ p.chunk = c.chunk
          /\ p.active = a /\ p.txPending = c.txPending /\ p.remaining = l
      BY <2>2, <2>3, <2>4 DEF ImgState
    <2> QED
      BY <2>2, <2>3, <2>5, ImageConfig DEF Shape, HeaderBytes
  <1> QED
    BY <1>1, <1>2, <1>3

LEMMA ParsedPlace ==
    ASSUME NEW c, Shape(c), ~c.active, c.chunk = << >>, ring \in Seq(Nat),
           NEW pos \in Int, Follows(pos), NEW i \in DOMAIN Before, Place(i, c, pos),
           NEW p \in Parsed(c)
    PROVE  /\ \E j \in DOMAIN Before : Place(j, p, pos + HeaderTaken(c))
           /\ PayloadUpTo(pos + HeaderTaken(c)) = PayloadUpTo(pos)
  <1> DEFINE h == HeaderRead(c)
             t == HeaderTaken(c)
  <1>1. /\ t \in 0..Len(ring)
        /\ h \in Seq(Nat) /\ Len(h) = Len(c.header) + t /\ Len(h) <= HeaderBytes
        /\ \A k \in 1..Len(h) :
              h[k] = IF k <= Len(c.header) THEN c.header[k]
                     ELSE ring[k - Len(c.header)]
    BY HeaderOutcome
  <1>2. pos = Before[i] + Len(c.header)
        /\ \A k \in DOMAIN c.header : c.header[k] = Before[i] + k
    BY DEF Place
  <1>3. /\ Before[i] \in Nat /\ Len(c.header) \in Nat /\ Len(ring) \in Nat
        /\ DOMAIN c.header = 1..Len(c.header) /\ DOMAIN ring = 1..Len(ring)
        /\ DOMAIN h = 1..Len(h)
    BY <1>1, StreamTypes, LenProperties DEF Shape, ImgState
  <1> HIDE DEF h, t
  <1>4. \A k \in 1..Len(h) : h[k] = Before[i] + k
    <2> TAKE k \in 1..Len(h)
    <2>1. CASE k <= Len(c.header)
      <3>1. k \in DOMAIN c.header
        BY <1>1, <1>3, <2>1
      <3>2. h[k] = c.header[k]
        BY <1>1, <2>1
      <3> QED
        BY <1>2, <3>1, <3>2
    <2>2. CASE k > Len(c.header)
      <3>1. k - Len(c.header) \in DOMAIN ring
        BY SMTT(20), <1>1, <1>3, <2>2
      <3>2. ring[k - Len(c.header)] = pos + (k - Len(c.header))
        BY <3>1 DEF Follows
      <3> QED
        BY <1>1, <1>2, <1>3, <2>2, <3>2
    <2> QED
      BY <1>1, <1>3, <2>1, <2>2
  <1>5. pos + t = Before[i] + Len(h) /\ pos + t \in Int /\ pos + t <= StreamLength
    <2> DEFINE l == Len(c.header)
               m == Len(ring)
               n == Len(h)
    <2>1. t \in 0..m /\ n = l + t
      BY <1>1
    <2>2. pos = Before[i] + l /\ pos + m <= StreamLength
      BY <1>2 DEF Follows
    <2>3. Before[i] \in Nat /\ l \in Nat /\ m \in Nat /\ StreamLength \in Nat
      BY <1>3, StreamTypes
    <2> HIDE DEF l, m, n
    <2>4. pos + t = Before[i] + n /\ pos + t \in Int /\ pos + t <= StreamLength
      BY <2>1, <2>2, <2>3
    <2> QED
      BY <2>4 DEF n
  <1>6. PayloadUpTo(pos + t) = PayloadUpTo(pos)
    <2>1. Before[i] <= pos /\ pos <= pos + t /\ pos + t <= Before[i] + HeaderBytes
      <3>1. t \in 0..Len(ring) /\ Len(h) <= HeaderBytes /\ pos = Before[i] + Len(c.header)
        BY <1>1, <1>2
      <3> QED
        BY SMTT(20), <1>3, <1>5, <3>1 DEF HeaderBytes
    <2> QED
      BY <1>5, <2>1, HeaderIsNoPayload
  <1>7. CASE Len(h) < HeaderBytes
    <2>1. p = [c EXCEPT !.header = h]
      BY <1>7 DEF Parsed, h
    <2>2. p.header = h /\ p.active = c.active
      BY <2>1 DEF Shape, ImgState
    <2>3. Place(i, p, pos + t)
      BY <1>3, <1>4, <1>5, <2>2 DEF Place
    <2> QED
      BY <1>6, <2>3 DEF t
  <1>8. CASE ~(Len(h) < HeaderBytes)
    <2>1. Len(h) = 2 /\ h[1] = Before[i] + 1 /\ h[2] = Before[i] + 2
      BY SMTT(20), <1>1, <1>3, <1>4, <1>8 DEF HeaderBytes
    <2>2. i \in Images
      <3>1. i = Len(Before) => Before[i] = StreamLength
        BY DEF StreamLength
      <3> QED
        BY <1>3, <1>5, <2>1, <3>1, StreamTypes DEF Images
    <2>3. p = [c EXCEPT !.header = << >>, !.active = ImageLength(i) > 0,
                        !.remaining = IF ImageLength(i) > 0 THEN ImageLength(i) ELSE @]
      BY <1>8, <2>1, <2>2, LengthOfHeader DEF Parsed, h
    <2>4. /\ p.header = << >> /\ p.active = (ImageLength(i) > 0)
          /\ p.remaining = IF ImageLength(i) > 0 THEN ImageLength(i) ELSE c.remaining
      BY <2>3 DEF Shape, ImgState
    <2>5. /\ i + 1 \in DOMAIN Before /\ ImageLength(i) \in Nat /\ i > 0 /\ i \in Nat
          /\ Before[i] + HeaderBytes + ImageLength(i) = Before[i + 1]
      BY <2>2, ImageTypes DEF Images
    <2>6. pos + t = Before[i] + HeaderBytes /\ i + 1 - 1 = i /\ i + 1 > 1
      BY <1>5, <2>1, <2>5 DEF HeaderBytes
    <2>7. Place(i + 1, p, pos + t)
      <3>1. CASE ImageLength(i) > 0
        <4>1. p.active /\ p.remaining = ImageLength(i)
          BY <2>4, <3>1
        <4>2. pos + t + ImageLength(i) = Before[i + 1]
          BY <1>3, <2>5, <2>6 DEF HeaderBytes
        <4>3. Before[(i + 1) - 1] + HeaderBytes <= pos + t
          <5>1. Before[i] + HeaderBytes <= pos + t
            BY <1>3, <2>6 DEF HeaderBytes
          <5>2. (i + 1) - 1 = i
            BY <2>5
          <5> QED
            BY <5>1, <5>2
        <4> QED
          BY <2>6, <4>1, <4>2, <4>3 DEF Place
      <3>2. CASE ImageLength(i) = 0
        <4>0. ~(ImageLength(i) > 0)
          BY <3>2
        <4>1. ~p.active /\ p.header = << >>
          BY <2>4, <4>0
        <4>2. Len(<< >>) = 0 /\ DOMAIN << >> = 1..0
          BY EmptySeq, LenProperties
        <4>3. pos + t = Before[i + 1] + 0
          BY <1>3, <2>5, <2>6, <3>2 DEF HeaderBytes
        <4> QED
          BY <4>1, <4>2, <4>3 DEF Place
      <3> QED
        BY <2>5, <3>1, <3>2
    <2> QED
      BY <1>6, <2>5, <2>7 DEF t
  <1> QED
    BY <1>7, <1>8

\* A chunk is cut off what follows in the ring, whole or not at all.
LEMMA ChunkOutcome ==
    ASSUME NEW p, Shape(p), p.chunk = << >>, ring \in Seq(Nat),
           NEW t \in 0..Len(ring), WithChunk(p, t) # <<p, t>>
    PROVE  LET out == WithChunk(p, t) IN
           /\ p.active /\ out[2] = t + Target(p) /\ out[2] \in t..Len(ring)
           /\ Target(p) \in 1..p.remaining
           /\ out[1].chunk = SubSeq(ring, t + 1, out[2])
           /\ Len(out[1].chunk) = Target(p)
           /\ out[1].active /\ out[1].retryCount = 0
           /\ out[1].remaining = p.remaining - Target(p)
           /\ out[1].txPending = p.txPending /\ Shape(out[1])
  <1> DEFINE out == WithChunk(p, t)
             n == Target(p)
             u == t + n
             c == SubSeq(ring, t + 1, u)
             s == [p EXCEPT !.chunk = c, !.retryCount = 0, !.remaining = p.remaining - n]
             m == Len(ring)
  <1>1. p \in ImgState /\ p.remaining \in Nat /\ m \in Nat /\ t \in 0..m
    BY LenProperties DEF Shape, ImgState
  <1>2. p.active /\ ~(m - t < n) /\ out = <<s, u>>
    <2>1. ~(~p.active \/ Len(ring) - t < Target(p))
      BY DEF WithChunk
    <2>2. out = <<[p EXCEPT !.chunk = SubSeq(ring, t + 1, t + Target(p)),
                            !.retryCount = 0, !.remaining = @ - Target(p)],
                  t + Target(p)>>
      BY <2>1 DEF WithChunk
    <2> QED
      BY <2>1, <2>2
  <1>3. p.remaining > 0
    BY <1>2 DEF Shape
  <1>4. n \in 1..p.remaining /\ n <= MaxChunk /\ n \in Nat
    BY <1>1, <1>3, ImageConfig DEF Target
  <1> HIDE DEF n, m
  <1>5. u \in t..m /\ u - t = n
    BY <1>1, <1>2, <1>4
  <1>6. c \in Seq(Nat) /\ Len(c) = n
    <2>1. t \in 0..Len(ring) /\ u \in t..Len(ring)
      BY <1>5 DEF m
    <2>2. c \in Seq(Nat) /\ Len(c) = u - t
      BY <2>1, Cut
    <2> QED
      BY <1>5, <2>2
  <1>7. c # << >>
    <2>1. Len(<< >>) = 0
      BY EmptySeq
    <2>2. n # 0
      BY <1>4
    <2>3. Len(c) # Len(<< >>)
      BY <1>6, <2>1, <2>2
    <2> QED
      BY <2>3, Zenon
  <1>8. p.remaining - n \in Nat
    BY <1>1, <1>4
  <1> HIDE DEF u, c
  <1>9. /\ s \in ImgState /\ s.chunk = c /\ s.retryCount = 0
        /\ s.remaining = p.remaining - n /\ s.active = p.active
        /\ s.txPending = p.txPending /\ s.header = p.header
    <2> DEFINE l == p.remaining - n
    <2>1. l \in Nat /\ 0 \in 0..MaxRetries
      BY <1>8, ImageConfig
    <2>2. s = [p EXCEPT !.chunk = c, !.retryCount = 0, !.remaining = l]
      OBVIOUS
    <2> HIDE DEF l, s
    <2>3. /\ s \in ImgState /\ s.chunk = c /\ s.retryCount = 0
          /\ s.remaining = l /\ s.active = p.active
          /\ s.txPending = p.txPending /\ s.header = p.header
      BY <1>1, <1>6, <2>1, <2>2 DEF ImgState
    <2> QED
      BY <2>3 DEF l
  <1>10. out[1] = s /\ out[2] = u
    BY <1>2
  <1> HIDE DEF s
  <1>11. Shape(s)
    BY <1>2, <1>4, <1>6, <1>7, <1>9 DEF Shape
  <1> QED
    BY <1>1, <1>2, <1>4, <1>5, <1>6, <1>9, <1>10, <1>11 DEF n, u, c, m

\* The chunk is the next bytes of the image.
LEMMA ChunkPlace ==
    ASSUME NEW p, p.active, NEW s, s.active, NEW q \in Seq(Nat), NEW c \in Seq(Nat),
           NEW pos \in Int, NEW n \in Nat, n <= p.remaining, p.remaining \in Nat,
           s.remaining = p.remaining - n,
           Len(c) = n, \A k \in 1..n : c[k] = pos + k, Tiled(p, q, pos)
    PROVE  Tiled(s, q \o c, pos + n)
  <1>1. PICK i \in DOMAIN Before : Place(i, p, pos)
    BY DEF Tiled
  <1>2. i > 1 /\ Before[i - 1] + HeaderBytes <= pos /\ pos + p.remaining = Before[i]
    BY <1>1 DEF Place
  <1>3. i \in 1..Len(Before) /\ Before[i] \in Nat /\ Len(Before) \in Nat
    BY StreamTypes
  <1>4. i - 1 \in DOMAIN Before
    BY <1>2, <1>3, StreamTypes
  <1>5. Before[i - 1] \in Nat
    BY <1>4, StreamTypes
  <1>6. Place(i, s, pos + n)
    <2>1. pos + n + s.remaining = Before[i] /\ Before[i - 1] + HeaderBytes <= pos + n
      BY SMTT(20), <1>2, <1>3, <1>5 DEF HeaderBytes
    <2> QED
      BY <1>2, <2>1 DEF Place
  <1>7. PayloadUpTo(pos + n) = PayloadUpTo(pos) \cup (pos + 1)..(pos + n)
    <2>1. pos <= pos + n /\ pos + n <= Before[i] /\ pos + n \in Int
      BY <1>2, <1>3
    <2> QED
      BY <1>2, <2>1, ImageIsPayload
  <1>8. {c[k] : k \in DOMAIN c} = (pos + 1)..(pos + n)
    <2>1. DOMAIN c = 1..n
      BY LenProperties
    <2>2. \A b \in (pos + 1)..(pos + n) : b - pos \in 1..n /\ c[b - pos] = b
      BY <2>1
    <2>3. \A k \in 1..n : pos + k \in (pos + 1)..(pos + n)
      OBVIOUS
    <2> QED
      BY <2>1, <2>2, <2>3
  <1>9. {(q \o c)[k] : k \in DOMAIN (q \o c)}
           = {q[k] : k \in DOMAIN q} \cup {c[k] : k \in DOMAIN c}
    BY RangeJoin
  <1> QED
    BY <1>6, <1>7, <1>8, <1>9 DEF Tiled

\* App_PrepareImageChunk: it takes t bytes from the ring, and leaves a chunk
\* alone that is there already.
LEMMA PrepareOutcome ==
    ASSUME NEW c, Shape(c), ~c.txPending, ring \in Seq(Nat), sent \in Nat,
           NEW q \in Seq(Nat), Ordered(q \o c.chunk, ring),
           NEW pos \in Int,
           ~overflowed => Follows(pos) /\ Tiled(c, q \o c.chunk, pos),
           NEW out \in Prepare(c)
    PROVE  LET s == out[1]
               t == out[2]
           IN  /\ t \in 0..Len(ring) /\ Shape(s) /\ ~s.txPending
               /\ Ordered(q \o s.chunk, SubSeq(ring, t + 1, Len(ring)))
               /\ ~overflowed => Tiled(s, q \o s.chunk, pos + t)
               /\ c.chunk # << >> => s = c
               /\ c.chunk = << >> /\ s.chunk # << >>
                     => /\ s.retryCount = 0 /\ 1 \in DOMAIN s.chunk
                        /\ \E k \in DOMAIN ring : s.chunk[1] = ring[k]
  <1> DEFINE s == out[1]
             t == out[2]
  <1>0. Len(ring) \in Nat /\ DOMAIN ring = 1..Len(ring) /\ c.chunk \in Seq(Nat)
    BY LenProperties DEF Shape, ImgState
  <1>1. CASE c.chunk # << >>
    <2>1. s = c /\ t = 0
      BY <1>1 DEF Prepare
    <2>2. SubSeq(ring, 0 + 1, Len(ring)) = ring
      BY SubSeqFull
    <2> HIDE DEF s, t
    <2>3. pos + t = pos /\ t \in 0..Len(ring)
      BY <1>0, <2>1
    <2>4. SubSeq(ring, t + 1, Len(ring)) = ring
      BY <2>1, <2>2
    <2> QED
      BY <1>1, <2>1, <2>3, <2>4 DEF s, t
  <1>2. CASE c.chunk = << >>
    <2> DEFINE h == HeaderTaken(c)
    <2>1. PICK p \in Parsed(c) : out = WithChunk(p, h)
      BY <1>2 DEF Prepare
    <2>2. Shape(p) /\ p.chunk = << >> /\ ~p.txPending
      BY <1>2, ParsedShape
    <2>3. h \in 0..Len(ring)
      <3>1. CASE c.active
        BY <1>0, <3>1 DEF HeaderTaken
      <3>2. CASE ~c.active
        BY <3>2, HeaderOutcome
      <3> QED
        BY <3>1, <3>2
    <2>4. q \o << >> = q
      BY ConcatEmptySeq
    <2>5. ~overflowed => Tiled(p, q, pos + h)
      <3> SUFFICES ASSUME ~overflowed PROVE Tiled(p, q, pos + h)
        OBVIOUS
      <3>1. Follows(pos) /\ Tiled(c, q, pos)
        BY <1>2, <2>4
      <3>2. CASE c.active
        <4>1. p = c /\ h = 0 /\ pos + h = pos
          BY <3>2 DEF Parsed, HeaderTaken
        <4> QED
          BY <3>1, <4>1
      <3>3. CASE ~c.active
        BY <1>2, <3>1, <3>3, ParsedPlace DEF Tiled
      <3> QED
        BY <3>2, <3>3
    <2>6. Ordered(q, ring)
      BY <1>2, <2>4
    <2> HIDE DEF h
    <2>7. CASE out = <<p, h>>
      <3>1. s = p /\ t = h /\ s.chunk = << >> /\ q \o s.chunk = q
        BY <2>2, <2>4, <2>7
      <3>2. Ordered(q, SubSeq(ring, h + 1, Len(ring)))
        BY <2>3, <2>6, TakeOrdered
      <3> HIDE DEF s, t
      <3> QED
        BY <1>2, <2>2, <2>3, <2>5, <3>1, <3>2 DEF s, t
    <2>8. CASE out # <<p, h>>
      <3> DEFINE n == Target(p)
      <3>a. out = WithChunk(p, h) /\ WithChunk(p, h) # <<p, h>>
        BY <2>1, <2>8
      <3>b. /\ p.active /\ out[2] = h + Target(p) /\ out[2] \in h..Len(ring)
            /\ Target(p) \in 1..p.remaining
            /\ out[1].chunk = SubSeq(ring, h + 1, out[2])
            /\ Len(out[1].chunk) = Target(p)
            /\ out[1].active /\ out[1].retryCount = 0
            /\ out[1].remaining = p.remaining - Target(p)
            /\ out[1].txPending = p.txPending /\ Shape(out[1])
        BY <3>a, <2>2, <2>3, ChunkOutcome
      <3>1. /\ p.active /\ t = h + n /\ t \in h..Len(ring)
            /\ n \in 1..p.remaining
            /\ s.chunk = SubSeq(ring, h + 1, t) /\ Len(s.chunk) = n
            /\ s.active /\ s.retryCount = 0 /\ s.remaining = p.remaining - n
            /\ s.txPending = p.txPending /\ Shape(s)
        BY <2>2, <3>b
      <3> HIDE DEF s, t, n
      <3>2. t \in 0..Len(ring) /\ t - h = n /\ n \in Nat /\ n >= 1
        BY <1>0, <2>3, <3>1
      <3>3. Ordered(q \o s.chunk, SubSeq(ring, t + 1, Len(ring)))
        BY <2>3, <2>6, <3>1, TakeOrdered
      <3>4. \A k \in 1..n : h + k \in DOMAIN ring /\ s.chunk[k] = ring[h + k]
        <4>1. \A k \in 1..(t - h) : SubSeq(ring, h + 1, t)[k] = ring[h + k]
          BY <2>3, <3>1, Cut
        <4>2. \A k \in 1..n : h + k \in 1..Len(ring)
          BY <1>0, <2>3, <3>1, <3>2
        <4> QED
          BY <1>0, <3>1, <3>2, <4>1, <4>2
      <3>5. s.chunk \in Seq(Nat) /\ DOMAIN s.chunk = 1..n
        BY <3>1, LenProperties DEF Shape, ImgState
      <3>6. ASSUME ~overflowed PROVE Tiled(s, q \o s.chunk, pos + t)
        <4>1. p.remaining \in Nat /\ n <= p.remaining
          BY <2>2, <3>1 DEF Shape, ImgState
        <4>2. \A k \in 1..n : s.chunk[k] = (pos + h) + k
          BY <2>3, <3>4, <3>6 DEF Follows
        <4>3. Tiled(p, q, pos + h) /\ pos + h \in Int
          BY <2>3, <2>5, <3>6
        <4>4. Tiled(s, q \o s.chunk, (pos + h) + n)
          BY <3>1, <3>2, <3>5, <4>1, <4>2, <4>3, ChunkPlace
        <4>5. (pos + h) + n = pos + t
          BY <2>3, <3>1, <3>2
        <4> QED
          BY <4>4, <4>5
      <3>7. 1 \in DOMAIN s.chunk /\ \E k \in DOMAIN ring : s.chunk[1] = ring[k]
        <4>1. 1 \in 1..n
          BY <3>2
        <4>2. h + 1 \in DOMAIN ring /\ s.chunk[1] = ring[h + 1]
          BY <3>4, <4>1
        <4> QED
          BY <3>5, <4>1, <4>2
      <3> QED
        BY <1>2, <2>2, <3>1, <3>2, <3>3, <3>6, <3>7 DEF s, t
    <2> QED
      BY <2>7, <2>8
  <1> QED
    BY <1>1, <1>2

----------------------------------------------------------------------------
(* One call of App_ProcessMasterImageTx.                                   *)

LEMMA GoneJoin ==
    ASSUME NEW q \in Seq(Nat), NEW s, s.chunk \in Seq(Nat), NEW r,
           r.chunk = << >> \/ r.chunk = s.chunk
    PROVE  /\ q \o Gone(s, r) \in Seq(Nat)
           /\ (q \o Gone(s, r)) \o r.chunk = q \o s.chunk
  <1>1. << >> \in Seq(Nat)
    BY EmptySeq
  <1>2. q \o << >> = q /\ q \o s.chunk \in Seq(Nat)
    BY ConcatEmptySeq, ConcatProperties
  <1>3. CASE r.chunk = << >>
    <2>1. Gone(s, r) = s.chunk
      BY <1>3 DEF Gone
    <2>2. (q \o s.chunk) \o << >> = q \o s.chunk
      BY <1>2, ConcatEmptySeq
    <2> QED
      BY <1>2, <1>3, <2>1, <2>2
  <1>4. CASE r.chunk # << >>
    <2>1. Gone(s, r) = << >> /\ r.chunk = s.chunk
      BY <1>4 DEF Gone
    <2> QED
      BY <1>2, <2>1
  <1> QED
    BY <1>3, <1>4

LEMMA PlaceDepends ==
    ASSUME NEW s, NEW r, r.active = s.active, r.remaining = s.remaining,
           r.header = s.header, NEW q, NEW pos, Tiled(s, q, pos)
    PROVE  Tiled(r, q, pos)
  BY DEF Tiled, Place

LEMMA ResolveKeepsTiles ==
    ASSUME NEW s, Shape(s), s.chunk # << >>, NEW result \in Results,
           NEW q, NEW pos \in Int, Tiled(s, q, pos)
    PROVE  Tiled(Resolve(s, result), q, pos)
  BY ResolveKeepsPlace DEF Tiled

\* The session a result is waiting for is over when the counter has moved.
LEMMA ResultIsIn ==
    ASSUME IInv, ~Unconfirmed
    PROVE  /\ node.state # "BUSY"
           /\ img.txPending => node.reported = <<node.result>>
  BY DEF IInv, SessionInv, Unconfirmed

LEMMA ConfirmedOutcome ==
    ASSUME IInv, ~Unconfirmed
    PROVE  LET c == Confirmed
               q == resolved \o Gone(img, Confirmed)
           IN  /\ Shape(c) /\ ~c.txPending
               /\ q \in Seq(Nat) /\ q \o c.chunk = resolved \o img.chunk
               /\ ~overflowed => Tiled(c, q \o c.chunk, Position)
               /\ c.chunk # << >> => c.chunk = img.chunk /\ attempts = c.retryCount
               /\ c.chunk = << >> /\ img.chunk # << >> =>
                     /\ img.txPending
                     /\ \/ node.result = "E_OK"
                        \/ attempts = MaxRetries + 1 /\ node.result = "E_NOT_OK"
               /\ img.txPending /\ node.result = "E_OK" => c.chunk = << >>
  <1> DEFINE c == Confirmed
             q == resolved \o Gone(img, Confirmed)
  <1>0. /\ Shape(img) /\ img \in ImgState /\ img.chunk \in Seq(Nat)
        /\ resolved \in Seq(Nat) /\ node.result \in Results
        /\ AttemptInv /\ (~overflowed => Tiled(img, resolved \o img.chunk, Position))
        /\ attempts \in Nat /\ Position \in Int
    <2>1. Len(ring) \in Nat /\ sent \in Int /\ attempts \in Nat
      BY LenProperties DEF IInv, Types
    <2> QED
      BY <2>1 DEF IInv, Types, Shape, ImgState, NodeState, TileInv, Position
  <1>1. CASE ~img.txPending
    <2>1. c = img
      BY <1>1 DEF Confirmed
    <2>2. q \in Seq(Nat) /\ q \o c.chunk = resolved \o img.chunk
      BY <1>0, <2>1, GoneJoin
    <2>3. img.chunk # << >> => attempts = img.retryCount
      BY <1>0, <1>1 DEF AttemptInv, ImgState
    <2> HIDE DEF c, q
    <2> QED
      BY <1>0, <1>1, <2>1, <2>2, <2>3 DEF c, q
  <1>2. CASE img.txPending
    <2> DEFINE m == [img EXCEPT !.txPending = FALSE]
    <2>1. /\ m \in ImgState /\ ~m.txPending /\ m.chunk = img.chunk
          /\ m.header = img.header /\ m.active = img.active
          /\ m.remaining = img.remaining /\ m.retryCount = img.retryCount
      BY <1>0 DEF ImgState
    <2>2. c = Resolve(m, node.result)
      BY <1>2 DEF Confirmed
    <2> HIDE DEF m, c
    <2>3. Shape(m) /\ m.chunk # << >>
      BY <1>0, <1>2, <2>1 DEF Shape, AttemptInv
    <2>4. /\ Shape(c) /\ c.txPending = m.txPending
          /\ IF node.result = "E_OK" \/ GivesUp(m)
             THEN c.chunk = << >>
             ELSE c.chunk = m.chunk /\ c.retryCount = m.retryCount + 1
      BY <1>0, <2>2, <2>3, ResolveOutcome
    <2>5. q \in Seq(Nat) /\ q \o c.chunk = resolved \o img.chunk
      BY <1>0, <2>1, <2>4, GoneJoin DEF c
    <2>6. ~overflowed => Tiled(c, q \o c.chunk, Position)
      <3> SUFFICES ASSUME ~overflowed PROVE Tiled(c, resolved \o img.chunk, Position)
        BY <2>5
      <3>1. Tiled(m, resolved \o img.chunk, Position)
        BY <1>0, <2>1, PlaceDepends
      <3> QED
        BY <1>0, <2>2, <2>3, <3>1, ResolveKeepsTiles
    <2>7. attempts = img.retryCount + 1 /\ img.retryCount \in 0..MaxRetries
      BY <1>0, <1>2 DEF AttemptInv, ImgState
    <2>8. GivesUp(m) => attempts = MaxRetries + 1
      BY <2>1, <2>7, ImageConfig DEF GivesUp
    <2> HIDE DEF q
    <2> QED
      BY <1>0, <1>2, <2>1, <2>3, <2>4, <2>5, <2>6, <2>7, <2>8 DEF c, q, Results
  <1> QED
    BY <1>1, <1>2

\* What the call has to submit, before it submits it.
LEMMA ToSubmit ==
    ASSUME IInv, ~Unconfirmed, NEW out \in Prepare(Confirmed)
    PROVE  LET s == out[1]
               t == out[2]
               q == resolved \o Gone(img, Confirmed)
           IN  /\ t \in 0..Len(ring) /\ Shape(s) /\ ~s.txPending /\ q \in Seq(Nat)
               /\ Ordered(q \o s.chunk, SubSeq(ring, t + 1, Len(ring)))
               /\ ~overflowed => Tiled(s, q \o s.chunk, Position + t)
               /\ s.chunk # << >> => Attempts(s) = s.retryCount + 1
               /\ s.chunk # img.chunk => Confirmed.chunk = << >>
               /\ Confirmed.chunk = << >> /\ img.chunk # << >> => s.chunk # img.chunk
  <1> DEFINE c == Confirmed
             q == resolved \o Gone(img, Confirmed)
             s == out[1]
             t == out[2]
  <1>0. /\ ring \in Seq(Nat) /\ sent \in Nat /\ Position \in Int
        /\ resolved \in Seq(Nat) /\ img.chunk \in Seq(Nat)
        /\ Ordered(resolved \o img.chunk, ring)
        /\ ~overflowed => Follows(Position)
    <2>1. Len(ring) \in Nat /\ sent \in 0..StreamLength /\ ring \in Seq(Nat)
      BY LenProperties DEF IInv, Types
    <2>2. sent \in Nat /\ Position \in Int /\ Position + Len(ring) <= StreamLength
      BY <2>1, StreamTypes DEF Position
    <2> QED
      BY <2>1, <2>2 DEF IInv, Types, ImgState, TileInv, Follows
  <1>1. /\ Shape(c) /\ ~c.txPending /\ q \in Seq(Nat)
        /\ q \o c.chunk = resolved \o img.chunk
        /\ ~overflowed => Tiled(c, q \o c.chunk, Position)
        /\ c.chunk # << >> => c.chunk = img.chunk /\ attempts = c.retryCount
    BY ConfirmedOutcome
  <1>2. out \in Prepare(c)
    OBVIOUS
  <1> HIDE DEF c, q
  <1>3. Ordered(q \o c.chunk, ring)
    BY <1>0, <1>1
  <1>4. /\ t \in 0..Len(ring) /\ Shape(s) /\ ~s.txPending
        /\ Ordered(q \o s.chunk, SubSeq(ring, t + 1, Len(ring)))
        /\ ~overflowed => Tiled(s, q \o s.chunk, Position + t)
        /\ c.chunk # << >> => s = c
        /\ c.chunk = << >> /\ s.chunk # << >>
              => /\ s.retryCount = 0 /\ 1 \in DOMAIN s.chunk
                 /\ \E k \in DOMAIN ring : s.chunk[1] = ring[k]
    BY ZenonT(30), <1>0, <1>1, <1>2, <1>3, PrepareOutcome
  <1> HIDE DEF s, t
  <1>5. c.chunk = << >> /\ s.chunk # << >> => s.chunk # img.chunk
    <2> SUFFICES ASSUME c.chunk = << >>, s.chunk # << >>, s.chunk = img.chunk
                 PROVE  FALSE
      OBVIOUS
    <2>1. PICK k \in DOMAIN ring : img.chunk[1] = ring[k]
      BY <1>4
    <2>2. 1 \in DOMAIN img.chunk
      BY <1>4
    <2>3. 1 \in 1..Len(img.chunk) /\ Len(resolved) \in Nat /\ Len(img.chunk) \in Nat
      BY <1>0, <2>2, LenProperties
    <2>4. Len(resolved) + 1 \in DOMAIN (resolved \o img.chunk)
          /\ (resolved \o img.chunk)[Len(resolved) + 1] = img.chunk[1]
      BY <1>0, <2>3, Join
    <2>5. img.chunk[1] < ring[k]
      BY <1>0, <2>4 DEF Ordered, Below
    <2>6. ring[k] \in Nat
      BY <1>0, ElementOfSeq, LenProperties
    <2> QED
      BY <2>1, <2>5, <2>6
  <1>6. s.chunk # << >> => Attempts(s) = s.retryCount + 1
    <2>1. CASE c.chunk # << >>
      BY <1>1, <1>4, <2>1 DEF Attempts
    <2>2. CASE c.chunk = << >>
      BY <1>4, <1>5, <2>2 DEF Attempts
    <2> QED
      BY <2>1, <2>2
  <1>7. s.chunk # img.chunk => c.chunk = << >>
    BY <1>1, <1>4
  <1>8. c.chunk = << >> /\ img.chunk # << >> => s.chunk # img.chunk
    BY <1>5
  <1> QED
    BY <1>1, <1>4, <1>6, <1>7, <1>8 DEF c, q, s, t

\* The ring after t bytes have been taken from it.
LEMMA RingTaken ==
    ASSUME IInv, NEW t \in 0..Len(ring),
           ring' = SubSeq(ring, t + 1, Len(ring)), UNCHANGED <<sent, overflowed>>
    PROVE  /\ ring' \in Seq(Nat) /\ Len(ring') <= Capacity
           /\ Position' = Position + t
           /\ ~overflowed => \A k \in DOMAIN ring' : ring'[k] = Position' + k
  <1>1. ring \in Seq(Nat) /\ Len(ring) \in Nat /\ Len(ring) <= Capacity /\ sent \in Nat
    BY LenProperties, StreamTypes DEF IInv, Types
  <1>2. t \in 0..Len(ring) /\ Len(ring) \in t..Len(ring)
    BY <1>1
  <1>3. /\ ring' \in Seq(Nat) /\ Len(ring') = Len(ring) - t
        /\ \A k \in 1..(Len(ring) - t) : ring'[k] = ring[t + k]
    BY <1>1, <1>2, Cut
  <1>4. DOMAIN ring' = 1..(Len(ring) - t) /\ DOMAIN ring = 1..Len(ring)
    BY <1>1, <1>3, LenProperties
  <1>5. Position \in Int /\ Position' = Position + t
    <2> DEFINE m == Len(ring)
               n == Len(ring')
    <2>1. Position = sent - m /\ Position' = sent - n
      BY DEF Position
    <2>2. n = m - t /\ m \in Nat /\ sent \in Nat /\ t \in 0..m
      BY <1>1, <1>3
    <2> HIDE DEF m, n
    <2>3. sent - m \in Int /\ sent - n = (sent - m) + t
      BY <2>2
    <2> QED
      BY <2>1, <2>3
  <1>6. Capacity \in Nat
    BY ImageConfig
  <1>7. \A k \in 1..(Len(ring) - t) : t + k \in 1..Len(ring)
    BY <1>1
  <1>8. ASSUME ~overflowed, NEW k \in DOMAIN ring'
        PROVE  ring'[k] = Position' + k
    <2>1. ring'[k] = Position + (t + k)
      BY <1>3, <1>4, <1>7, <1>8 DEF IInv, TileInv
    <2> QED
      BY <1>4, <1>5, <2>1
  <1> QED
    BY <1>1, <1>3, <1>5, <1>6, <1>8

LEMMA NothingToSendKeeps ==
    ASSUME IInv, ~Unconfirmed, NEW out \in Prepare(Confirmed),
           NothingToSend(out[1], out[2])
    PROVE  IInv'
  <1> DEFINE s == out[1]
             t == out[2]
             q == resolved \o Gone(img, Confirmed)
  <1>1. /\ t \in 0..Len(ring) /\ Shape(s) /\ ~s.txPending /\ q \in Seq(Nat)
        /\ Ordered(q \o s.chunk, SubSeq(ring, t + 1, Len(ring)))
        /\ ~overflowed => Tiled(s, q \o s.chunk, Position + t)
    BY ToSubmit
  <1>2. /\ ring' = SubSeq(ring, t + 1, Len(ring)) /\ UNCHANGED <<sent, overflowed, node>>
        /\ s.chunk = << >> /\ img' = s /\ attempts' = 0 /\ resolved' = q
    BY DEF NothingToSend, Tick
  <1>3. node.state # "BUSY"
    BY ResultIsIn
  <1> HIDE DEF s, t, q
  <1>4. /\ ring' \in Seq(Nat) /\ Len(ring') <= Capacity /\ Position' = Position + t
        /\ ~overflowed => \A k \in DOMAIN ring' : ring'[k] = Position' + k
    BY <1>1, <1>2, RingTaken
  <1>5. Types'
    BY <1>1, <1>2, <1>4, ImageConfig DEF IInv, Types, Shape
  <1>6. SessionInv' /\ AttemptInv' /\ Shape(img)'
    BY <1>1, <1>2, <1>3 DEF SessionInv, AttemptInv, Shape
  <1>7. Ordered(resolved \o img.chunk, ring)'
    BY <1>1, <1>2 DEF Ordered
  <1>8. TileInv'
    BY <1>1, <1>2, <1>4 DEF TileInv
  <1> QED
    BY <1>5, <1>6, <1>7, <1>8 DEF IInv

LEMMA SubmitsKeeps ==
    ASSUME IInv, ~Unconfirmed, NEW out \in Prepare(Confirmed),
           Submits(out[1], out[2])
    PROVE  IInv'
  <1> DEFINE s == out[1]
             t == out[2]
             q == resolved \o Gone(img, Confirmed)
  <1>1. /\ t \in 0..Len(ring) /\ Shape(s) /\ ~s.txPending /\ q \in Seq(Nat)
        /\ Ordered(q \o s.chunk, SubSeq(ring, t + 1, Len(ring)))
        /\ ~overflowed => Tiled(s, q \o s.chunk, Position + t)
        /\ s.chunk # << >> => Attempts(s) = s.retryCount + 1
    BY ToSubmit
  <1>2. /\ ring' = SubSeq(ring, t + 1, Len(ring)) /\ UNCHANGED <<sent, overflowed>>
        /\ s.chunk # << >> /\ resolved' = q
        /\ img' = [s EXCEPT !.baseline = node.count, !.txPending = TRUE]
        /\ node' = [node EXCEPT !.state = "BUSY", !.reported = << >>]
        /\ attempts' = Attempts(s)
    BY DEF Submits, Tick
  <1> HIDE DEF s, t, q
  <1>3. /\ img' \in ImgState /\ img'.baseline = node.count /\ img'.txPending
        /\ img'.chunk = s.chunk /\ img'.retryCount = s.retryCount
        /\ img'.active = s.active /\ img'.remaining = s.remaining
        /\ img'.header = s.header
    BY <1>1, <1>2 DEF IInv, Types, Shape, ImgState, NodeState
  <1>4. /\ node' \in NodeState /\ node'.state = "BUSY" /\ node'.count = node.count
        /\ node'.reported = << >>
    BY <1>2, EmptySeq DEF IInv, Types, NodeState
  <1>5. /\ ring' \in Seq(Nat) /\ Len(ring') <= Capacity /\ Position' = Position + t
        /\ ~overflowed => \A k \in DOMAIN ring' : ring'[k] = Position' + k
    BY <1>1, <1>2, RingTaken
  <1>6. s.retryCount \in 0..MaxRetries /\ attempts' = s.retryCount + 1
    BY <1>1, <1>2 DEF Shape, ImgState
  <1>7. Types'
    <2>1. attempts' \in 0..(MaxRetries + 1)
      BY <1>6, ImageConfig
    <2>2. (sent \in 0..StreamLength /\ overflowed \in BOOLEAN)'
      BY <1>2 DEF IInv, Types
    <2> QED
      BY <1>1, <1>2, <1>3, <1>4, <1>5, <2>1, <2>2 DEF Types
  <1>8. Shape(img)'
    BY <1>1, <1>3 DEF Shape
  <1>9. SessionInv' /\ AttemptInv'
    BY <1>2, <1>3, <1>4, <1>6 DEF SessionInv, AttemptInv
  <1>10. Ordered(resolved \o img.chunk, ring)'
    BY <1>1, <1>2, <1>3 DEF Ordered
  <1>11. TileInv'
    <2>1. ~overflowed => Tiled(img', q \o s.chunk, Position + t)
      BY <1>1, <1>3, PlaceDepends
    <2> QED
      BY SMTT(20), <1>2, <1>3, <1>5, <2>1 DEF TileInv, Tiled, Place
  <1> QED
    BY <1>7, <1>8, <1>9, <1>10, <1>11 DEF IInv

LEMMA RejectedKeeps ==
    ASSUME IInv, ~Unconfirmed, NEW out \in Prepare(Confirmed),
           Rejected(out[1], out[2])
    PROVE  IInv'
  <1> DEFINE s == out[1]
             t == out[2]
             q == resolved \o Gone(img, Confirmed)
             m == [s EXCEPT !.baseline = node.count]
             r == Resolve(m, "E_NOT_OK")
  <1>1. /\ t \in 0..Len(ring) /\ Shape(s) /\ ~s.txPending /\ q \in Seq(Nat)
        /\ Ordered(q \o s.chunk, SubSeq(ring, t + 1, Len(ring)))
        /\ ~overflowed => Tiled(s, q \o s.chunk, Position + t)
        /\ s.chunk # << >> => Attempts(s) = s.retryCount + 1
    BY ToSubmit
  <1>2. /\ ring' = SubSeq(ring, t + 1, Len(ring)) /\ UNCHANGED <<sent, overflowed, node>>
        /\ s.chunk # << >> /\ img' = r
        /\ resolved' = q \o Gone(s, r) /\ attempts' = Attempts(s)
    BY DEF Rejected, Tick
  <1>3. node.state # "BUSY"
    BY ResultIsIn
  <1>4. m \in ImgState /\ Shape(m) /\ m.chunk = s.chunk /\ m.txPending = s.txPending
        /\ m.retryCount = s.retryCount /\ m.active = s.active
        /\ m.remaining = s.remaining /\ m.header = s.header
    <2> HIDE DEF s, m
    <2>1. m = [s EXCEPT !.baseline = node.count]
      BY DEF m
    <2>2. m \in ImgState /\ m.chunk = s.chunk /\ m.txPending = s.txPending
          /\ m.retryCount = s.retryCount /\ m.active = s.active
          /\ m.remaining = s.remaining /\ m.header = s.header
      BY <1>1, <2>1 DEF IInv, Types, Shape, ImgState, NodeState
    <2> QED
      BY <1>1, <2>2 DEF Shape
  <1> HIDE DEF s, t, q, m
  <1>5. /\ Shape(r) /\ r.txPending = m.txPending
        /\ \/ r.chunk = << >>
           \/ r.chunk = m.chunk /\ r.retryCount = m.retryCount + 1
    BY <1>2, <1>4, ResolveOutcome DEF Results
  <1>6. /\ q \o Gone(s, r) \in Seq(Nat)
        /\ (q \o Gone(s, r)) \o r.chunk = q \o s.chunk
    <2>1. s.chunk \in Seq(Nat)
      BY <1>1 DEF Shape, ImgState
    <2> HIDE DEF r
    <2> QED
      BY <1>1, <1>4, <1>5, <2>1, GoneJoin
  <1>7. /\ ring' \in Seq(Nat) /\ Len(ring') <= Capacity /\ Position' = Position + t
        /\ ~overflowed => \A k \in DOMAIN ring' : ring'[k] = Position' + k
    BY <1>1, <1>2, RingTaken
  <1>8. ~overflowed => Tiled(r, q \o s.chunk, Position + t)
    <2>1. ~overflowed => Tiled(m, q \o s.chunk, Position + t)
      BY <1>1, <1>4, PlaceDepends
    <2>2. Position + t \in Int
      BY <1>1, LenProperties DEF IInv, Types, Position
    <2> QED
      BY <1>2, <1>4, <2>1, <2>2, ResolveKeepsTiles DEF Results
  <1>9. s.retryCount \in 0..MaxRetries /\ attempts' = s.retryCount + 1
    BY <1>1, <1>2 DEF Shape, ImgState
  <1> HIDE DEF r
  <1>10. Types'
    <2>1. attempts' \in 0..(MaxRetries + 1)
      BY <1>9, ImageConfig
    <2>2. (sent \in 0..StreamLength /\ overflowed \in BOOLEAN /\ node \in NodeState)'
      BY <1>2 DEF IInv, Types
    <2>3. img' \in ImgState
      BY <1>2, <1>5 DEF Shape
    <2> QED
      BY <1>2, <1>6, <1>7, <2>1, <2>2, <2>3 DEF Types
  <1>11. SessionInv' /\ AttemptInv' /\ Shape(img)'
    BY <1>1, <1>2, <1>3, <1>4, <1>5, <1>9 DEF SessionInv, AttemptInv, Shape
  <1>12. Ordered(resolved \o img.chunk, ring)'
    BY <1>1, <1>2, <1>6 DEF Ordered
  <1>13. TileInv'
    BY <1>2, <1>6, <1>7, <1>8 DEF TileInv
  <1> QED
    BY <1>10, <1>11, <1>12, <1>13 DEF IInv

----------------------------------------------------------------------------
(* The PC, NodeApp and CanTp.                                              *)

LEMMA PcSendsKeeps ==
    ASSUME IInv, PcSends
    PROVE  IInv'
  <1> DEFINE q == resolved \o img.chunk
             b == sent + 1
  <1>0. /\ ring \in Seq(Nat) /\ Len(ring) \in Nat /\ DOMAIN ring = 1..Len(ring)
        /\ sent \in Nat /\ StreamLength \in Nat /\ b \in Nat
        /\ q \in Seq(Nat)
    BY LenProperties, StreamTypes, ConcatProperties DEF IInv, Types, ImgState
  <1>1. /\ sent' = b /\ sent < StreamLength
        /\ UNCHANGED <<img, node, resolved, attempts>>
        /\ ring' = IF Len(ring) < Capacity THEN Append(ring, b) ELSE ring
        /\ overflowed' = (overflowed \/ Len(ring) = Capacity)
    BY DEF PcSends
  <1>2. Ordered(q, ring)
    BY DEF IInv
  <1>3. Append(ring, b) \in Seq(Nat) /\ Len(Append(ring, b)) = Len(ring) + 1
        /\ DOMAIN Append(ring, b) = 1..(Len(ring) + 1)
        /\ \A k \in 1..Len(ring) : Append(ring, b)[k] = ring[k]
        /\ Append(ring, b)[Len(ring) + 1] = b
    <2>1. Append(ring, b) \in Seq(Nat) /\ Len(Append(ring, b)) = Len(ring) + 1
          /\ \A k \in 1..Len(ring) : Append(ring, b)[k] = ring[k]
          /\ Append(ring, b)[Len(ring) + 1] = b
      BY <1>0, AppendProperties
    <2> QED
      BY <2>1, LenProperties
  <1> HIDE DEF q
  <1>4. Ordered(q, ring)'
    <2>0. q' = q
      BY <1>1 DEF q
    <2>1. Ascending(q) /\ Within(q, sent) /\ Within(q, b)
      BY <1>0, <1>2 DEF Ordered, Within
    <2>2. CASE Len(ring) < Capacity
      <3>1. \A k \in DOMAIN ring' :
               \/ k \in DOMAIN ring /\ ring'[k] = ring[k]
               \/ k = Len(ring) + 1 /\ ring'[k] = b
        <4> TAKE k \in DOMAIN ring'
        <4>1. ring' = Append(ring, b)
          BY <1>1, <2>2
        <4>2. k \in 1..(Len(ring) + 1)
          BY <1>3, <4>1
        <4>3. k \in 1..Len(ring) \/ k = Len(ring) + 1
          BY <1>0, <4>2
        <4>4. CASE k \in 1..Len(ring)
          BY <1>0, <1>3, <4>1, <4>4
        <4>5. CASE k = Len(ring) + 1
          BY <1>3, <4>1, <4>5
        <4> QED
          BY <4>3, <4>4, <4>5
      <3>2. Below(q, ring') /\ Within(ring', b)
        BY SMTT(20), <1>0, <1>2, <2>1, <3>1 DEF Ordered, Below, Within
      <3>3. Ascending(ring')
        <4> SUFFICES ASSUME NEW i \in DOMAIN ring', NEW j \in DOMAIN ring', i < j
                     PROVE  ring'[i] < ring'[j]
          BY DEF Ascending
        <4>1. i \in DOMAIN ring /\ ring'[i] = ring[i] /\ ring[i] \in 1..sent
          BY <1>0, <1>1, <1>2, <1>3, <2>2, <3>1 DEF Ordered, Within
        <4> QED
          BY SMTT(20), <1>0, <1>2, <3>1, <4>1 DEF Ordered, Ascending
      <3> QED
        BY <1>1, <2>0, <2>1, <3>2, <3>3 DEF Ordered
    <2>3. CASE ~(Len(ring) < Capacity)
      <3>1. ring' = ring /\ Within(ring, b)
        BY <1>0, <1>1, <1>2, <2>3 DEF Ordered, Within
      <3> QED
        BY <1>1, <1>2, <2>0, <2>1, <3>1 DEF Ordered
    <2> QED
      BY <2>2, <2>3
  <1>5. Types'
    <2>1. ring' \in Seq(Nat) /\ Len(ring') <= Capacity
      <3>1. CASE Len(ring) < Capacity
        <4> DEFINE m == Len(ring)
                   n == Len(ring')
        <4>1. m \in Nat /\ m < Capacity /\ n = m + 1 /\ ring' \in Seq(Nat) /\ Capacity \in Nat
          BY <1>0, <1>1, <1>3, <3>1, ImageConfig
        <4> HIDE DEF m, n
        <4>2. n <= Capacity
          BY <4>1
        <4> QED
          BY <4>1, <4>2 DEF n
      <3>2. CASE ~(Len(ring) < Capacity)
        BY <1>1, <3>2 DEF IInv, Types
      <3> QED
        BY <3>1, <3>2
    <2>2. sent' \in 0..StreamLength /\ overflowed' \in BOOLEAN
      BY <1>0, <1>1 DEF IInv, Types
    <2> QED
      BY <1>1, <2>1, <2>2 DEF IInv, Types
  <1>6. Shape(img)' /\ SessionInv' /\ AttemptInv'
    BY <1>1 DEF IInv, Shape, SessionInv, AttemptInv
  <1>7. TileInv'
    <2> SUFFICES ASSUME ~overflowed'
                 PROVE  /\ \A k \in DOMAIN ring' : ring'[k] = Position' + k
                        /\ Tiled(img, q, Position)'
      BY DEF TileInv, q
    <2>1. ~overflowed /\ Len(ring) < Capacity
      <3>1. ~overflowed /\ Len(ring) # Capacity
        BY <1>1, Zenon
      <3> DEFINE m == Len(ring)
      <3>2. m \in Nat /\ m <= Capacity /\ m # Capacity /\ Capacity \in Nat
        BY <1>0, <3>1, ImageConfig DEF IInv, Types
      <3> HIDE DEF m
      <3>3. m < Capacity
        BY <3>2
      <3> QED
        BY <3>1, <3>3 DEF m
    <2>2. ring' = Append(ring, b)
      BY <1>1, <2>1
    <2>3. Position' = Position /\ Position \in Int /\ b = Position + (Len(ring) + 1)
      <3> DEFINE m == Len(ring)
      <3>1. Position = sent - m /\ Position' = b - (m + 1) /\ m \in Nat
        BY <1>0, <1>1, <1>3, <2>2 DEF Position
      <3> HIDE DEF m
      <3>2. Position' = Position /\ Position \in Int /\ b = Position + (m + 1)
        BY <1>0, <3>1
      <3> QED
        BY <3>2 DEF m
    <2>4. \A k \in DOMAIN ring' : ring'[k] = Position' + k
      <3> TAKE k \in DOMAIN ring'
      <3>1. \/ k \in DOMAIN ring /\ ring'[k] = ring[k]
            \/ k = Len(ring) + 1 /\ ring'[k] = b
        BY <1>0, <1>3, <2>2
      <3> QED
        BY <2>1, <2>3, <3>1 DEF IInv, TileInv
    <2>5. Tiled(img', q', Position')
      BY <1>1, <2>1, <2>3 DEF IInv, TileInv, q
    <2> QED
      BY <2>4, <2>5 DEF Tiled, Place
  <1> QED
    BY <1>4, <1>5, <1>6, <1>7 DEF IInv, q

LEMMA NodeKeeps ==
    ASSUME IInv, NodeSucceeds \/ NodeFails \/ LateConfirmation
    PROVE  IInv'
  <1>1. UNCHANGED <<sent, ring, overflowed, img, resolved, attempts>>
    BY DEF NodeSucceeds, NodeFails, LateConfirmation, Concludes
  <1>2. node' \in NodeState /\ SessionInv'
    <2>1. ASSUME NEW result \in Results, NEW next \in {"FREE", "BLOCKED"},
                 Concludes(result, next)
          PROVE  node' \in NodeState /\ SessionInv'
      <3> DEFINE n == (node.count + 1) % CountModulus
      <3>1. /\ node.state = "BUSY" /\ img' = img
            /\ node' = [node EXCEPT !.state = next, !.result = result, !.count = n,
                                    !.reported = Append(node.reported, result)]
        BY <2>1 DEF Concludes
      <3>2. node \in NodeState /\ n \in 0..(CountModulus - 1)
        BY ImageConfig DEF IInv, Types, NodeState
      <3>3. Append(node.reported, result) \in Seq(Results)
        BY <3>2, AppendProperties DEF NodeState
      <3>4. img.txPending /\ node.count = img.baseline /\ node.reported = << >>
        BY <3>1 DEF IInv, SessionInv
      <3>5. n = (img.baseline + 1) % CountModulus
        BY <3>4
      <3>6. Append(<< >>, result) = <<result>>
        OBVIOUS
      <3> HIDE DEF n
      <3>7. node' \in NodeState /\ node'.state = next /\ node'.result = result
            /\ node'.count = n /\ node'.reported = Append(node.reported, result)
        BY <3>1, <3>2, <3>3 DEF NodeState
      <3>8. node'.reported = <<node'.result>> /\ node'.state # "BUSY"
        BY <3>4, <3>6, <3>7
      <3> QED
        BY <3>1, <3>4, <3>5, <3>7, <3>8 DEF SessionInv
    <2>2. CASE LateConfirmation
      BY <2>2 DEF LateConfirmation, IInv, Types, NodeState, SessionInv
    <2> QED
      BY <2>1, <2>2 DEF NodeSucceeds, NodeFails, Results
  <1>3. Types' /\ Shape(img)' /\ AttemptInv'
    BY <1>1, <1>2 DEF IInv, Types, Shape, AttemptInv
  <1>4. Ordered(resolved \o img.chunk, ring)'
    BY <1>1 DEF IInv, Ordered
  <1>5. TileInv'
    BY <1>1 DEF IInv, TileInv, Tiled, Place, Position
  <1> QED
    BY <1>2, <1>3, <1>4, <1>5 DEF IInv

LEMMA StutterKeeps ==
    ASSUME IInv, UNCHANGED vars
    PROVE  IInv'
  <1>1. UNCHANGED <<sent, ring, overflowed, img, node, resolved, attempts>>
    BY DEF vars
  <1>2. Types' /\ Shape(img)' /\ SessionInv' /\ AttemptInv'
    BY <1>1 DEF IInv, Types, Shape, SessionInv, AttemptInv
  <1>3. Ordered(resolved \o img.chunk, ring)' /\ TileInv'
    BY <1>1 DEF IInv, Ordered, TileInv, Tiled, Place, Position
  <1> QED
    BY <1>2, <1>3 DEF IInv

----------------------------------------------------------------------------
(* The theorems.                                                           *)

LEMMA InitIInv == Init => IInv
  <1> SUFFICES ASSUME Init PROVE IInv
    OBVIOUS
  <1>0. << >> \in Seq(Nat) /\ << >> \in Seq(Results) /\ Len(<< >>) = 0
        /\ DOMAIN << >> = {}
    BY EmptySeq, LenProperties
  <1>1. << >> \o << >> = << >>
    BY ConcatEmptySeq, <1>0
  <1>2. Types
    <2>1. sent \in 0..StreamLength /\ overflowed \in BOOLEAN
      <3>1. 0 \in 0..StreamLength
        BY StreamTypes
      <3> QED
        BY <3>1 DEF Init
    <2>2. ring \in Seq(Nat) /\ Len(ring) <= Capacity /\ resolved \in Seq(Nat)
      BY <1>0, ImageConfig DEF Init
    <2>3. img \in ImgState /\ node \in NodeState /\ attempts \in 0..(MaxRetries + 1)
      BY <1>0, ImageConfig DEF Init, ImgState, NodeState, Results
    <2> QED
      BY <2>1, <2>2, <2>3 DEF Types
  <1>3. Shape(img)
    BY <1>0, <1>2, ImageConfig DEF Init, Types, Shape, HeaderBytes
  <1>4. SessionInv /\ AttemptInv
    BY DEF Init, SessionInv, AttemptInv
  <1>5. Ordered(resolved \o img.chunk, ring)
    BY <1>0, <1>1 DEF Init, Ordered, Ascending, Below, Within
  <1>6. TileInv
    <2>1. Position = 0 /\ ring = << >> /\ img.chunk = << >> /\ resolved = << >>
          /\ ~img.active /\ img.header = << >>
      <3>1. ring = << >> /\ img.chunk = << >> /\ resolved = << >>
            /\ ~img.active /\ img.header = << >> /\ sent = 0
        BY DEF Init
      <3>2. Len(ring) = 0
        BY <1>0, <3>1
      <3>3. sent - Len(ring) = 0
        <4>1. sent = 0 /\ 0 - 0 = 0
          BY <3>1
        <4> QED
          BY <3>2, <4>1, Zenon
      <3> QED
        BY <3>1, <3>3 DEF Position
    <2>2. 1 \in DOMAIN Before /\ Place(1, img, 0)
      BY <1>0, <2>1, StreamTypes, StreamConfig DEF Place
    <2>3. PayloadUpTo(0) = {}
      BY DEF PayloadUpTo, PayloadBytes
    <2> QED
      BY <1>0, <1>1, <2>1, <2>2, <2>3 DEF TileInv, Tiled
  <1> QED
    BY <1>2, <1>3, <1>4, <1>5, <1>6 DEF IInv

LEMMA IInvAlways == Spec => []IInv
  <1>1. IInv /\ [Next]_vars => IInv'
    <2> SUFFICES ASSUME IInv, [Next]_vars PROVE IInv'
      OBVIOUS
    <2>1. CASE PcSends
      BY <2>1, PcSendsKeeps
    <2>2. CASE NodeSucceeds \/ NodeFails \/ LateConfirmation
      BY <2>2, NodeKeeps
    <2>3. CASE AppImageTx
      <3>1. PICK out \in Prepare(Confirmed) :
               \/ NothingToSend(out[1], out[2])
               \/ Submits(out[1], out[2])
               \/ Rejected(out[1], out[2])
        BY <2>3 DEF AppImageTx
      <3>2. ~Unconfirmed
        BY <3>1 DEF NothingToSend, Submits, Rejected, Tick
      <3> QED
        BY <3>1, <3>2, NothingToSendKeeps, SubmitsKeeps, RejectedKeeps
    <2>4. CASE UNCHANGED vars
      BY <2>4, StutterKeeps
    <2> QED
      BY <2>1, <2>2, <2>3, <2>4 DEF Next
  <1> QED
    BY <1>1, InitIInv, PTL DEF Spec

(* The image transfer keeps its types: the chunk fits its buffer, the      *)
(* header has room, and no chunk is submitted more often than once and     *)
(* once for each retry.                                                    *)
THEOREM TypeCorrect == Spec => []TypeOK
  <1>1. IInv => TypeOK
    BY LenProperties DEF IInv, Types, Shape, ImgState, NodeState, Ordered, Within, TypeOK
  <1> QED
    BY <1>1, IInvAlways, PTL

(* As long as the receive ring took every byte, the chunks that went out   *)
(* or were given up and the present one are the payload of the images up   *)
(* to where the ring begins, in order and without a gap.                   *)
THEOREM ChunksTileImagesAlways == Spec => []ChunksTileImages
  <1>1. IInv => ChunksTileImages
    <2> SUFFICES ASSUME IInv, ~overflowed
                 PROVE  LET taken == resolved \o img.chunk
                        IN  /\ \A i, j \in DOMAIN taken : i < j => taken[i] < taken[j]
                            /\ {taken[i] : i \in DOMAIN taken}
                                  = {byte \in PayloadBytes : byte <= Position}
                            /\ \E i \in DOMAIN Before :
                                  IF img.active THEN Position + img.remaining = Before[i]
                                  ELSE Position = Before[i] + Len(img.header)
      BY DEF ChunksTileImages
    <2>1. \E i \in DOMAIN Before : Place(i, img, Position)
      BY DEF IInv, TileInv, Tiled
    <2>2. \E i \in DOMAIN Before :
             IF img.active THEN Position + img.remaining = Before[i]
             ELSE Position = Before[i] + Len(img.header)
      BY <2>1 DEF Place
    <2> QED
      BY <2>2 DEF IInv, Ordered, Ascending, TileInv, Tiled, PayloadUpTo
  <1> QED
    BY <1>1, IInvAlways, PTL

(* A pending submission is left alone until its own result is in, and a    *)
(* chunk is let go when that is E_OK, or when its initial attempt and all  *)
(* its retries have failed, and then only.                                 *)
THEOREM ReleasedRightlyAlways == Spec => ReleasedRightly
  <1> DEFINE succeeded == img.txPending /\ node.reported = <<"E_OK">>
             failed == img.txPending /\ node.reported = <<"E_NOT_OK">>
             rejected == node.state # "FREE" /\ ~img'.txPending /\ img'.chunk = << >>
             gone == img.chunk # << >> /\ img'.chunk # img.chunk
             Good == /\ img.txPending /\ img' # img => succeeded \/ failed
                     /\ succeeded /\ img' # img => gone
                     /\ gone => \/ succeeded
                                \/ failed /\ attempts = MaxRetries + 1
                                \/ rejected /\ attempts' = MaxRetries + 1
  <1>1. IInv /\ [Next]_vars => [Good]_vars
    <2> SUFFICES ASSUME IInv, Next PROVE Good
      OBVIOUS
    <2>1. CASE PcSends \/ NodeSucceeds \/ NodeFails \/ LateConfirmation
      <3>1. img' = img
        BY <2>1 DEF PcSends, NodeSucceeds, NodeFails, LateConfirmation, Concludes
      <3> QED
        BY <3>1
    <2>2. CASE AppImageTx
      <3>1. PICK out \in Prepare(Confirmed) :
               \/ NothingToSend(out[1], out[2])
               \/ Submits(out[1], out[2])
               \/ Rejected(out[1], out[2])
        BY <2>2 DEF AppImageTx
      <3>2. ~Unconfirmed
        BY <3>1 DEF NothingToSend, Submits, Rejected, Tick
      <3> DEFINE s == out[1]
      <3>3. /\ Shape(s) /\ ~s.txPending
            /\ s.chunk # << >> => Attempts(s) = s.retryCount + 1
            /\ s.chunk # img.chunk => Confirmed.chunk = << >>
            /\ Confirmed.chunk = << >> /\ img.chunk # << >> => s.chunk # img.chunk
        BY <3>2, ToSubmit
      <3>4. /\ img.txPending => node.reported = <<node.result>>
            /\ img.txPending => img.chunk # << >>
            /\ node.result \in Results
        BY <3>2, ResultIsIn DEF IInv, AttemptInv, Types, NodeState
      <3>5. /\ Confirmed.chunk = << >> /\ img.chunk # << >> =>
                  /\ img.txPending
                  /\ \/ node.result = "E_OK"
                     \/ attempts = MaxRetries + 1 /\ node.result = "E_NOT_OK"
            /\ img.txPending /\ node.result = "E_OK" => Confirmed.chunk = << >>
        BY <3>2, ConfirmedOutcome
      <3> HIDE DEF s
      <3>6. \/ img'.chunk = s.chunk
            \/ rejected /\ attempts' = MaxRetries + 1
        <4>1. CASE NothingToSend(out[1], out[2])
          BY <4>1 DEF NothingToSend, s
        <4>2. CASE Submits(out[1], out[2])
          BY <3>3, <4>2 DEF Submits, s, Shape, ImgState
        <4>3. CASE Rejected(out[1], out[2])
          <5> DEFINE m == [s EXCEPT !.baseline = node.count]
          <5>1. /\ img' = Resolve(m, "E_NOT_OK") /\ attempts' = Attempts(s)
                /\ s.chunk # << >> /\ node.state # "FREE"
            BY <4>3 DEF Rejected, s
          <5>2. /\ m \in ImgState /\ m.chunk = s.chunk /\ m.retryCount = s.retryCount
                /\ m.active = s.active /\ m.remaining = s.remaining
                /\ m.header = s.header /\ ~m.txPending
            BY <3>3 DEF IInv, Types, Shape, ImgState, NodeState
          <5> HIDE DEF m
          <5>3. Shape(m) /\ m.chunk # << >>
            BY <3>3, <5>1, <5>2 DEF Shape
          <5>4. /\ IF GivesUp(m) THEN img'.chunk = << >> ELSE img'.chunk = m.chunk
                /\ ~img'.txPending
            BY <5>1, <5>2, <5>3, ResolveOutcome DEF Results
          <5>5. GivesUp(m) => s.retryCount = MaxRetries
            BY <5>2, ImageConfig DEF GivesUp, ImgState
          <5> QED
            BY <3>3, <5>1, <5>2, <5>4, <5>5
        <4> QED
          BY <3>1, <4>1, <4>2, <4>3
      <3>7. <<"E_NOT_OK">> # <<"E_OK">>
        OBVIOUS
      <3>8. succeeded => node.result = "E_OK"
        BY <3>4
      <3>9. img.txPending => succeeded \/ failed
        BY <3>4 DEF Results
      <3>10. img'.chunk = s.chunk \/ img'.chunk = << >>
        BY <3>6
      <3>11. succeeded => gone
        BY <3>3, <3>4, <3>5, <3>8, <3>10
      <3>12. img.txPending /\ node.result = "E_OK" => succeeded
        BY <3>4
      <3>13. img.txPending /\ node.result = "E_NOT_OK" => failed
        BY <3>4
      <3> HIDE DEF succeeded, failed, rejected
      <3>14. gone => \/ succeeded
                     \/ failed /\ attempts = MaxRetries + 1
                     \/ rejected /\ attempts' = MaxRetries + 1
        BY <3>3, <3>5, <3>6, <3>12, <3>13
      <3> HIDE DEF gone
      <3> QED
        BY <3>9, <3>11, <3>14
    <2> QED
      BY <2>1, <2>2 DEF Next
  <1> QED
    BY <1>1, IInvAlways, PTL DEF Spec, ReleasedRightly

============================================================================
