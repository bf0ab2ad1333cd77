\* Safety of the serial input path.
SPECIFICATION RxSpec
CONSTANTS
    Capacity = 4
    Bytes = {1, 2}
    MaxChunk = 3
INVARIANTS
    RxRingIsFifo
    PopIsOldest
    PopsSucceed
