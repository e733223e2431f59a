SPECIFICATION Spec
CONSTANTS
    MaxSeq = 5
    DataLen <- MCDataLen
    Kind <- MCKind
    TxQueueSize = 1
    RxBufferSize = 2
    Word = 16
INVARIANTS
    NoLostWakeup
    DropNeverWedges
PROPERTIES
    DrainedBeforeNil
    ImplementsOrderedStream
