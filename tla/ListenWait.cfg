SPECIFICATION WaitSpec
CONSTANTS
    Routers = {r1, r2}
    N = 1
    EventChanSize = 3
    MaxLosses = 1
INVARIANT GivesUpOnlyWithout
CHECK_DEADLOCK FALSE
