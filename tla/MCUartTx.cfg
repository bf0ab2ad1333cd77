\* The serial output path: nothing lost, no lost wake-up, bytes keep leaving.
SPECIFICATION TxFairSpec
CONSTANTS
    Capacity = 4
    Bytes = {1, 2}
INVARIANTS
    TxTypeOK
    TxRingIsFifo
    BlockFits
    NoLostWakeup
PROPERTIES
    OutputDrains
