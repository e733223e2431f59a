SPECIFICATION FairSpec
CONSTANTS
    Routers = {r1, r2}
    MaxTerminators = 2
    ConnectChanSize = 1
    EventChanSize = 1
    MaxConnects = 1
    MaxFaults = 2
INVARIANTS
    OneOwner
PROPERTIES
    StaysBound
    EndsWithContext
CHECK_DEADLOCK FALSE
