\* End to end: one frame, one block or two blocks a message, two messages.
SPECIFICATION Spec
CONSTANTS
    SfMax = 2
    FfPayload = 2
    CfPayload = 3
    MaxNsdu = 8
    BlockSize = 1
    SnModulus = 3
    ClockModulus = 3
    StMin = 1
    MaxRetries = 1
    NAs = 1
    NBs = 1
    NAr = 1
    NCr = 1
    QueueSize = 1
    Lengths = {2, 5, 8}
    MaxLead = 1
    MaxSubmits = 2
INVARIANTS
    PartsInPlace
    FramesOnceInOrder
