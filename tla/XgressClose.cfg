SPECIFICATION FairSpec
CONSTANTS
    Envs <- CloseEnvs
    MaxData = 1
INVARIANTS
    CleanCloseDelivers
PROPERTIES
    CloseEndsBothSides
CHECK_DEADLOCK FALSE
