SPECIFICATION Spec
CONSTANTS
    rx = rx
    app = app
    app2 = app2
    c1 = c1
    s1 = s1
    NoScid = NoScid
    Thread = {rx, app, app2}
    Receiver = {rx}
    Scid = {s1}
    ServerScid = {s1}
    TokenModulus = 2
    Token = {0, 1}
    StreamId = {}
    Readable = {}
    Writable = {}
    LockCountModulus = 2
    MaxCredit = 0
    MaxStreams = 0
    MayRehash = FALSE
    Ops = {"Accept", "Recv", "Send", "Close", "Poll"}
INVARIANTS
    TypeOK
    GuardExclusive
    ClosedIsReaped
    DataAnnouncedUnlessReplayed
    ParkedIsOwed
VIEW SendView
CHECK_DEADLOCK FALSE
