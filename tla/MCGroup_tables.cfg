SPECIFICATION Spec
CONSTANTS
    rx = rx
    app = app
    app2 = app2
    c1 = c1
    s1 = s1
    NoScid = NoScid
    Thread = {rx, app}
    Receiver = {rx}
    Scid = {c1, s1}
    ServerScid = {s1}
    TokenModulus = 2
    Token = {0, 1}
    StreamId = {}
    Readable = {}
    Writable = {}
    LockCountModulus = 1
    MaxCredit = 0
    MaxStreams = 1
    MayRehash = TRUE
    Ops = {"Connect", "Accept", "Deregister", "StreamOpenUni"}
INVARIANTS
    GuardExclusive
    ScidsAgree
VIEW SendView
CHECK_DEADLOCK FALSE
