SPECIFICATION FairSpec
CONSTANTS
    Never = Never
    MaxTime = 2
    Threshold = 0
    Delays = {1}
    Limit = 1
    Token = {1}
    App = {a1}
    IsServer = FALSE
    MaxPackets = 0
    MaxInbox = 0
PROPERTIES
    ClosedReturned
CHECK_DEADLOCK FALSE
