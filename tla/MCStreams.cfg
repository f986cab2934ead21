SPECIFICATION MCSpec
CONSTANTS
    NoScid = NoScid
    Thread = {rx, app}
    Receiver = {rx}
    Scid = {c1}
    ServerScid = {}
    TokenModulus = 1
    Token = {0}
    StreamId = {0, 1, 3, 5}
    Readable = {0, 1, 3, 5}
    Writable = {0}
    LockCountModulus = 1
    MaxCredit = 1
    MaxStreams = 1
    MayRehash = FALSE
    Ops = {"Connect", "Recv", "StreamSend", "StreamRecv", "StreamClose", "StreamOpenBidi", "StreamOpenUni", "Poll", "Deregister"}
INVARIANTS
    NoStrandedRetry
PROPERTIES
    AcceptOnce
    ParkedResumes
VIEW StreamView
CHECK_DEADLOCK FALSE
