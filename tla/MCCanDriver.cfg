\* The CAN driver over hardware that moves between its register accesses.
SPECIFICATION FairSpec
CONSTANTS
    Handles = {1, 2}
    MaxFrames = 3
INVARIANTS
    TypeOK
    ReadyIsOnBus
    MailboxOwned
PROPERTIES
    ConfirmedWasSent
    BusOffLatches
    LossIsReported
    SentIsConfirmed
