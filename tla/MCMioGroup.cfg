SPECIFICATION MCSpec
CONSTANTS
    Never = Never
    MaxTime = 2
    Threshold = 0
    Delays = {1, 2}
    Limit = 2
    Token = {1, 2}
    App = {a1, a2}
    IsServer = TRUE
    MaxPackets = 3
    MaxInbox = 2
INVARIANTS
    TypeOK
    SendFifo
    EdgesServed
    NoLostWakeup
    TimelySleep
CHECK_DEADLOCK FALSE
