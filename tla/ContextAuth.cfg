SPECIFICATION FairSpec
CONSTANTS
    Apps = {a1}
    Controllers = {c1, c2}
    First = c1
    Flows <- MCFlows
    GoodFlows <- MCGoodFlows
    MaxFaults = 1
INVARIANT
    SoundLogin
PROPERTIES
    SessionRecovers
    AuthenticateReturns
CHECK_DEADLOCK FALSE
