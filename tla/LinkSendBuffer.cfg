SPECIFICATION Spec
SYMMETRY WriterSymmetry
CONSTANTS
    w1 = w1
    w2 = w2
    MaxSeq = 2
    DataLen <- MCDataLen
    Writers <- MCWriters
    Deadlines = TRUE
    AckQueueSize = 1
    RecvSizes <- MCRecvSizes
    TxPortalStartSize = 2
    TxPortalMinSize = 1
    TxPortalMaxSize = 2
    TxPortalIncreaseThresh = 2
    TxPortalIncreaseScale = 1
    TxPortalRetxThresh = 2
    RetxNum = 1
    RetxDen = 4
    Word = 64
INVARIANTS
    NeverStranded
PROPERTIES
    ImplementsSendBuffer
CHECK_DEADLOCK FALSE
