\* The transmit session: retries, timeouts, late confirmations,
\* a clock that wraps every 10 ticks.
SPECIFICATION FairSpec
CONSTANTS
    SfMax = 2
    FfPayload = 2
    CfPayload = 3
    MaxNsdu = 17
    BlockSize = 2
    StMin = 3
    MaxRetries = 2
    NAs = 4
    NBs = 3
    SnModulus = 3
    ClockModulus = 10
    Lengths <- MCLengths
INVARIANTS
    TypeOK
    SourceLocked
    OwnConfirmation
    SegmentsInOrder
    BlockQuota
PROPERTIES
    SuccessMeansAllSent
    StMinGapLessOneTick
    EveryNsduConcludes
