SPECIFICATION Spec
CONSTANTS
    x = x
    y = y
    z = z
    NoToken = NoToken
    Ip <- MCIp
    StrayText <- MCStrayText
    Cid = {c1, c2, c3}
    TicksPerSec = 2
    Expiry = 2
    MaxTime = 0
    MaySet = FALSE
INVARIANTS
    TokenPresent
CHECK_DEADLOCK FALSE
