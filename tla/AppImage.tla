------------------------------- MODULE AppImage ------------------------------
(***************************************************************************)
(* The image transfer of the Master (app/app.c): the PC streams images,    *)
(* each a length header and its bytes, into the receive ring; once a tick  *)
(* App_ProcessMasterImageTx takes up to MaxChunk bytes, submits them as    *)
(* one N-SDU, and submits them again when that fails.                      *)
(*                                                                         *)
(* A byte is the place it has in the PC's stream, so the stream's first    *)
(* byte is 1.  The ring is a bounded FIFO (UartRx shows that it is one).   *)
(* NodeApp and CanTp are what the application sees of them: a request is   *)
(* rejected while a session runs or the driver still holds a frame of an   *)
(* aborted one, and every accepted one gets one result (CanTpTxNode).      *)
(***************************************************************************)
EXTENDS Integers, Sequences

CONSTANTS
    Before,         \* the stream: the bytes before each image's header, in
                    \* order, and last the length of the whole stream
    Capacity,       \* bytes the ring can hold             (17 * 1024 - 1)
    MaxChunk,       \* APP_MAX_LARGE_MESSAGE_LENGTH        (62)
    MaxRetries,     \* APP_IMAGE_MAX_RETRIES               (3)
    CountModulus    \* NodeApp_TxConfirmationCount wraps   (2^32)

HeaderBytes == 2

ASSUME ImageConfig ==
    /\ Capacity \in Nat /\ MaxChunk \in 1..Capacity /\ Capacity >= 2
    /\ MaxRetries \in Nat /\ CountModulus \in Nat /\ CountModulus > 1

(* The stream begins with an image's header and is nothing but images.     *)
ASSUME StreamConfig ==
    /\ Before \in Seq(Nat) /\ Before # << >> /\ Before[1] = 0
    /\ \A i, j \in DOMAIN Before : i < j => Before[i] + HeaderBytes <= Before[j]

VARIABLES
    sent,       \* bytes of the stream the PC has sent
    ring,       \* App_UartRxRing
    overflowed, \* g_AppUartRxOverflows is not zero
    img,        \* the App_Image* group
    node,       \* NodeApp and CanTp: what runs, what was reported
    resolved,   \* history: the bytes of the chunks completed or dropped
    attempts    \* history: how often the present chunk was submitted

vars == <<sent, ring, overflowed, img, node, resolved, attempts>>

Images == 1..(Len(Before) - 1)

ImageLength(i) == Before[i + 1] - Before[i] - HeaderBytes

StreamLength == Before[Len(Before)]

\* The bytes of the stream that belong to no header.
PayloadBytes ==
    {byte \in 1..StreamLength : \E i \in Images :
        Before[i] + HeaderBytes < byte /\ byte <= Before[i + 1]}

\* What two bytes mean as a length: the header's when they are one, and
\* anything when bytes were lost before them.
LengthsRead(b1, b2) ==
    IF \E i \in Images : b1 = Before[i] + 1 /\ b2 = b1 + 1
    THEN {ImageLength(i) : i \in {k \in Images : b1 = Before[k] + 1}}
    ELSE 0..(MaxChunk + 1)

Init ==
    /\ sent = 0 /\ ring = << >> /\ overflowed = FALSE
    /\ img = [header |-> << >>, active |-> FALSE, remaining |-> 0,
              chunk |-> << >>, retryCount |-> 0, txPending |-> FALSE,
              baseline |-> 0]
    /\ node = [state |-> "FREE", count |-> 0, result |-> "E_NOT_OK",
               reported |-> << >>]
    /\ resolved = << >> /\ attempts = 0

----------------------------------------------------------------------------
(* The PC sends a byte at any time: App_UartRxCallback                     *)

PcSends ==
    /\ sent < StreamLength /\ sent' = sent + 1
    /\ ring' = IF Len(ring) < Capacity THEN Append(ring, sent + 1) ELSE ring
    /\ overflowed' = (overflowed \/ Len(ring) = Capacity)
    /\ UNCHANGED <<img, node, resolved, attempts>>

----------------------------------------------------------------------------
(* NodeApp and CanTp                                                       *)

\* NodeApp_CanTpTxConfirmation, the one result of the session.  After N_As
\* the driver still holds a frame, and CanTp refuses every request.
Concludes(result, next) ==
    /\ node.state = "BUSY"
    /\ node' = [node EXCEPT !.state = next, !.result = result,
                            !.count = (@ + 1) % CountModulus,
                            !.reported = Append(@, result)]
    /\ UNCHANGED <<sent, ring, overflowed, img, resolved, attempts>>

NodeSucceeds == Concludes("E_OK", "FREE")

NodeFails == \E next \in {"FREE", "BLOCKED"} : Concludes("E_NOT_OK", next)

LateConfirmation ==
    /\ node.state = "BLOCKED"
    /\ node' = [node EXCEPT !.state = "FREE"]
    /\ UNCHANGED <<sent, ring, overflowed, img, resolved, attempts>>

----------------------------------------------------------------------------
(* App_ResolveImageChunk                                                   *)

Released(s) == [s EXCEPT !.chunk = << >>, !.retryCount = 0]

GivesUp(s) == s.retryCount >= MaxRetries

Resolve(s, result) ==
    LET r == IF result = "E_OK" \/ GivesUp(s) THEN Released(s)
             ELSE [s EXCEPT !.retryCount = @ + 1]
    IN  [r EXCEPT !.active = @ /\ ~(r.remaining = 0 /\ r.chunk = << >>)]

----------------------------------------------------------------------------
(* App_PrepareImageChunk, as the outcomes it can have: pairs of the new    *)
(* image state and of the number of bytes taken from the ring.             *)

\* The header bytes there are are taken at once, up to the two it has.
HeaderTaken(s) ==
    IF s.active THEN 0
    ELSE IF Len(ring) < HeaderBytes - Len(s.header) THEN Len(ring)
    ELSE HeaderBytes - Len(s.header)

HeaderRead(s) == s.header \o SubSeq(ring, 1, HeaderTaken(s))

\* What the parse leaves: an image, or none when its length is zero.
Parsed(s) ==
    LET h == HeaderRead(s) IN
    IF s.active THEN {s}
    ELSE IF Len(h) < HeaderBytes THEN {[s EXCEPT !.header = h]}
    ELSE {[s EXCEPT !.header = << >>, !.active = len > 0,
                    !.remaining = IF len > 0 THEN len ELSE @] :
             len \in LengthsRead(h[1], h[2])}

\* mutant: a chunk is always full
TargetFull(s) == MaxChunk

Target(s) == IF s.remaining < MaxChunk THEN s.remaining ELSE MaxChunk

\* mutant: a chunk may start before it has arrived, and counts as whole
WithChunkUnmeasured(s, taken) ==
    IF ~s.active \/ Len(ring) = taken THEN <<s, taken>>
    ELSE <<[s EXCEPT !.chunk = SubSeq(ring, taken + 1, Len(ring)),
                     !.retryCount = 0,
                     !.remaining = @ - (Len(ring) - taken)], Len(ring)>>

\* All the bytes of the chunk or none of them.
WithChunk(s, taken) ==
    IF ~s.active \/ Len(ring) - taken < Target(s) THEN <<s, taken>>
    ELSE <<[s EXCEPT !.chunk = SubSeq(ring, taken + 1, taken + Target(s)),
                     !.retryCount = 0, !.remaining = @ - Target(s)],
           taken + Target(s)>>

Prepare(s) ==
    IF s.chunk # << >> \/ s.txPending THEN {<<s, 0>>}
    ELSE {WithChunk(p, HeaderTaken(s)) : p \in Parsed(s)}

----------------------------------------------------------------------------
(* App_ProcessMasterImageTx, one call of it                                *)

\* mutant: NodeApp_LastTxResult is read without waiting for a new one
NeverWaits == FALSE

Unconfirmed == img.txPending /\ node.count = img.baseline

\* The state after the pending result, if there is one, has been taken in.
Confirmed ==
    IF img.txPending
    THEN Resolve([img EXCEPT !.txPending = FALSE], node.result) ELSE img

\* The bytes whose chunk one Resolve has released.
Gone(before, after) == IF after.chunk = << >> THEN before.chunk ELSE << >>

Tick(s, taken) ==
    /\ ~Unconfirmed
    /\ ring' = SubSeq(ring, taken + 1, Len(ring))
    /\ UNCHANGED <<sent, overflowed>>

Attempts(s) == IF s.chunk = img.chunk THEN attempts + 1 ELSE 1

NothingToSend(s, taken) ==
    /\ Tick(s, taken) /\ s.chunk = << >>
    /\ img' = s /\ attempts' = 0
    /\ resolved' = resolved \o Gone(img, Confirmed)
    /\ UNCHANGED node

Submits(s, taken) ==
    /\ Tick(s, taken) /\ s.chunk # << >> /\ node.state = "FREE"
    /\ img' = [s EXCEPT !.baseline = node.count, !.txPending = TRUE]
    /\ node' = [node EXCEPT !.state = "BUSY", !.reported = << >>]
    /\ resolved' = resolved \o Gone(img, Confirmed)
    /\ attempts' = Attempts(s)

\* mutant: the answer to the request is not looked at
RejectedUnseen(s, taken) ==
    /\ Tick(s, taken) /\ s.chunk # << >> /\ node.state # "FREE"
    /\ img' = [s EXCEPT !.baseline = node.count, !.txPending = TRUE]
    /\ resolved' = resolved \o Gone(img, Confirmed)
    /\ attempts' = Attempts(s)
    /\ UNCHANGED node

\* Rejected: a failed attempt like any other, and no result will follow.
Rejected(s, taken) ==
    LET r == Resolve([s EXCEPT !.baseline = node.count], "E_NOT_OK") IN
    /\ Tick(s, taken) /\ s.chunk # << >> /\ node.state # "FREE"
    /\ img' = r
    /\ resolved' = resolved \o Gone(img, Confirmed) \o Gone(s, r)
    /\ attempts' = Attempts(s)
    /\ UNCHANGED node

AppImageTx ==
    \E out \in Prepare(Confirmed) :
       \/ NothingToSend(out[1], out[2])
       \/ Submits(out[1], out[2])
       \/ Rejected(out[1], out[2])

Next ==
    PcSends \/ NodeSucceeds \/ NodeFails \/ LateConfirmation \/ AppImageTx

Spec == Init /\ [][Next]_vars

\* The main loop runs and CanTp concludes its sessions (EveryNsduConcludes);
\* nothing says that a late confirmation ever comes or that the PC goes on.
FairSpec ==
    Spec /\ WF_vars(AppImageTx) /\ WF_vars(NodeSucceeds \/ NodeFails)

----------------------------------------------------------------------------
(* Properties.                                                             *)

TypeOK ==
    /\ sent \in 0..StreamLength /\ overflowed \in BOOLEAN
    /\ Len(ring) <= Capacity /\ \A i \in DOMAIN ring : ring[i] \in 1..sent
    /\ Len(img.header) < HeaderBytes /\ Len(img.chunk) <= MaxChunk
    /\ img.remaining \in Nat /\ img.retryCount \in 0..MaxRetries
    /\ img.active \in BOOLEAN /\ img.txPending \in BOOLEAN
    /\ img.baseline \in 0..(CountModulus - 1)
    /\ node.state \in {"FREE", "BUSY", "BLOCKED"}
    /\ node.count \in 0..(CountModulus - 1)
    /\ attempts \in 0..(MaxRetries + 1)

\* How much of the stream has been taken from the ring, if none was lost.
Position == sent - Len(ring)

(* As long as the ring took every byte, the chunks cut the images exactly: *)
(* every payload byte taken is in one chunk, in the PC's order, no header  *)
(* byte is in any, none is skipped when a chunk is dropped, and what is    *)
(* left of the image being sent ends where that image ends                 *)
(* (Architecture.md 10.1).                                                 *)
ChunksTileImages ==
    ~overflowed =>
        LET taken == resolved \o img.chunk
        IN  /\ \A i, j \in DOMAIN taken : i < j => taken[i] < taken[j]
            /\ {taken[i] : i \in DOMAIN taken}
                  = {byte \in PayloadBytes : byte <= Position}
            /\ \E i \in DOMAIN Before :
                  IF img.active THEN Position + img.remaining = Before[i]
                  ELSE Position = Before[i] + Len(img.header)

(* A chunk goes when, and only when, its own last submission was reported  *)
(* E_OK or its initial attempt and all its retries have failed.  A pending *)
(* submission is left alone until its one result is in (node.reported is   *)
(* emptied by each submission, so no earlier result counts), and if that   *)
(* is E_OK the chunk goes: so each of the attempts before the last failed. *)
(* The last fails by its result or, in the same call, by a rejection.      *)
ReleasedRightly ==
    [][LET succeeded == img.txPending /\ node.reported = <<"E_OK">>
           failed == img.txPending /\ node.reported = <<"E_NOT_OK">>
           rejected == node.state # "FREE" /\ ~img'.txPending /\ img'.chunk = << >>
           gone == img.chunk # << >> /\ img'.chunk # img.chunk
       IN  /\ img.txPending /\ img' # img => succeeded \/ failed
           /\ succeeded /\ img' # img => gone
           /\ gone => \/ succeeded
                      \/ failed /\ attempts = MaxRetries + 1
                      \/ rejected /\ attempts' = MaxRetries + 1]_vars

(* No chunk is kept for ever: the transfer goes on, with the rest of the   *)
(* image, also when every submission fails or is rejected.                 *)
ChunkResolves ==
    \A byte \in 1..StreamLength :
        (img.chunk # << >> /\ Head(img.chunk) = byte)
            ~> (img.chunk = << >> \/ Head(img.chunk) # byte)

=============================================================================
