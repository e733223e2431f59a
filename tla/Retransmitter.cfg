SPECIFICATION FairSpec
CONSTANTS
    p1 = p1
    p2 = p2
    p3 = p3
    p4 = p4
    g1 = g1
    g2 = g2
    Nil = Nil
    Payloads <- MCPayloads
    Xgresses <- MCXgresses
    x <- MCx
    IngestSize = 1
PROPERTIES
    ImplementsRetransmitQueue
    EventuallyRetransmitted
CHECK_DEADLOCK FALSE
