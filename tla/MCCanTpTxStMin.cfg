\* The documented STmin gap against the scheduler order: expected to fail.
SPECIFICATION Spec
CONSTANTS
    SfMax = 2
    FfPayload = 2
    CfPayload = 3
    MaxNsdu = 17
    BlockSize = 2
    StMin = 3
    MaxRetries = 2
    NAs = 4
    NBs = 3
    SnModulus = 3
    ClockModulus = 10
    Lengths <- MCLengths
PROPERTIES
    StMinGap
