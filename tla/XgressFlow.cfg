SPECIFICATION FairSpec
CONSTANTS
    MaxSeq = 1
    DataLen <- MCDataLen
    Kind <- MCKind
    MaxWaiting = 1
    MayFail = TRUE
    TxPortalMaxSize = 0
    TxQueueSize = 1
    RxBufferSize = 0
    Word = 16
    EmptyAckFloor = 0
    FabricSize = 2
    MaxFaults = 1
INVARIANTS
    NothingLost
    FailedWriteEndsStream
PROPERTIES
    EventuallyConsumed
    
CHECK_DEADLOCK FALSE
