SPECIFICATION MCSpec
CONSTANTS
    h1 = h1
    h2 = h2
    Hosts <- MCHosts
    Clients = {k1, k2}
    QueueSize = 3
    Nil = Nil
    NoOne = NoOne
INVARIANTS
    CloseClosesAll
PROPERTIES
    ClosesEnd
    DialReachesApp
CHECK_DEADLOCK FALSE
