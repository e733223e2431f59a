SPECIFICATION PartsSpec
CONSTANTS
    Nil = Nil
    Dials = {d1}
    Hosts = {h1}
    Children = {k1}
    MaxId = 9
    FirstId = 7
    RouterIds = {9, 10}
    RouterReuses = FALSE
    Names = {a, b}
    DefaultUnderlays = {u1, u2}
    ControlUnderlays = {u3}
    DefaultMsgs = {m1, m2}
    ControlMsgs = {m3}
CONSTRAINT NotExcused
INVARIANTS
    RoutesToOwner
    ReadsEverything
PROPERTIES
    
    
    PostureConverges
    MessagesLeave
    
CHECK_DEADLOCK FALSE
