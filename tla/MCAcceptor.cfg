SPECIFICATION Spec
CONSTANTS
    x = x
    y = y
    z = z
    NoToken = NoToken
    Ip <- MCIp
    StrayText <- MCStrayText
    Cid = {c1, c2, c3}
    TicksPerSec = 2
    Expiry = 2
    MaxTime = 4
    MaySet = TRUE
INVARIANTS
    TypeOK
    
    FreshIsValid
    OwnTokenNoUnderflow
SYMMETRY Symmetry
CHECK_DEADLOCK FALSE
