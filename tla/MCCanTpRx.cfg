\* The receive session and the queue it fills.
SPECIFICATION FairSpec
CONSTANTS
    SfMax = 2
    FfPayload = 2
    CfPayload = 3
    MaxNsdu = 17
    BlockSize = 2
    MaxRetries = 1
    NAr = 2
    NCr = 2
    SnModulus = 4
    ClockModulus = 6
    QueueSize = 2
    Lengths <- MCLengths
    Heads <- MCHeads
INVARIANTS
    TypeOK
    ReservationOwned
    FcResource
    ReadyAtReadIndex
    DisabledIsQuiet
PROPERTIES
    ImplementsNsduQueue
    ReservationResolved
