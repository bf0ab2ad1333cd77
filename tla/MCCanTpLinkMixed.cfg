\* A late Flow Control lets one N-SDU continue another.
SPECIFICATION Spec
CONSTANTS
    SfMax = 2
    FfPayload = 2
    CfPayload = 3
    MaxNsdu = 8
    BlockSize = 1
    SnModulus = 3
    ClockModulus = 5
    StMin = 1
    MaxRetries = 0
    NAs = 2
    NBs = 2
    NAr = 2
    NCr = 2
    QueueSize = 1
    Lengths = {8}
    MaxLead = 1
    MaxSubmits = 2
INVARIANTS
    WholeMessages
