SPECIFICATION Spec
CONSTANTS
    Worker = Worker
    Sender = Sender
    Nobody = Nobody
    NotObject = NotObject
    SAVVY_IPC_MAX_MESSAGE = 2
    NFds = 2
    MaxAttempts = 2
    QueueLen = 2
    Timeouts <- MCTimeouts
    Records <- MCRecords
    Messages <- MCMessages
    Wanted <- MCWanted
    MaxConnects = 2
    MaxSends = 1
    MaxSignals = 1
INVARIANTS
    TypeOK
    CancelNotLost
    DescriptorsOwned
    EnvelopesInOrder
    ConnectIsFirst
PROPERTIES
    EveryCallReturns
    StopEndsWorker
CHECK_DEADLOCK FALSE
