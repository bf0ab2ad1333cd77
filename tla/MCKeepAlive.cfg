\* Master and Slave over a bus that loses and refuses frames until it calms.
SPECIFICATION FairSpec
CONSTANTS
    Levels = {0, 1}
    Periods <- MCPeriods
    AliveModulus = 3
    KeepAlivePeriod = 2
    StatusPeriod = 2
    MaxRetries = 1
    LostTimeout = 4
    OfflineTimeout = 3
    NetworkTicks = 2
INVARIANTS
    UnflaggedIsRepeat
    UndisturbedMeansNormal
    UndisturbedMeansOnline
PROPERTIES
    EventuallyAgreed
