SPECIFICATION Spec
CONSTANTS
    rx = rx
    app = app
    app2 = app2
    c1 = c1
    s1 = s1
    NoScid = NoScid
    Thread = {rx, app}
    Receiver = {rx}
    Scid = {c1}
    ServerScid = {}
    TokenModulus = 1
    Token = {0}
    StreamId = {1, 5}
    Readable = {1, 5}
    Writable = {}
    LockCountModulus = 1
    MaxCredit = 0
    MaxStreams = 0
    MayRehash = FALSE
    Ops = {"Connect", "Recv"}
INVARIANTS
    InboundAccepted
CHECK_DEADLOCK FALSE
