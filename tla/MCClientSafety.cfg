SPECIFICATION PartsSpec
CONSTANTS
    Nil = Nil
    Dialers = {d1, d2}
    Routers = {r1, r2}
    Controllers = {c1, c2}
    Loaders = {l1, l2}
    Contexts = {x, y}
    Handlers = {h1, h2}
    Clients = {n1}
    Users = {u1}
    MaxTerminators = 3
    MaxEndpoints = 4
    Step = 3
    MaxBaseLine = 9
    MaxInterval = 30
    Impatient = {1, 2}
    Quick = {1}
    Long = 2
    MaxTime = 4
    MaxWriteDeadlines = 4
SYMMETRY DialSymmetry
INVARIANTS
    RefreshesInTime
    
    
    HandshakeAgrees
    WriteDeadlineExact
    
    EnrollmentAgrees
    CollectionHoldsOpen
    
    WireRoundTrip
CHECK_DEADLOCK FALSE
