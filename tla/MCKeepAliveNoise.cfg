\* A rate level that flickers between two periods longer than a tick.
SPECIFICATION FairSpec
CONSTANTS
    Levels = {0, 1}
    Periods <- MCSlowPeriods
    AliveModulus = 3
    KeepAlivePeriod = 2
    StatusPeriod = 2
    MaxRetries = 1
    LostTimeout = 4
    OfflineTimeout = 3
    NetworkTicks = 2
PROPERTIES
    CounterAdvances
