SPECIFICATION Spec
CONSTANTS
    conn = conn
    stream = stream
    Token = {1, 2}
    Stream = {1}
    Task = {conn, stream}
    NoTask = NoTask
    Calls <- MCCalls
    NoCall = NoCall
    MayStop = TRUE
    Length = {2}
    MaxCap = 2
    MaxConns = 1
INVARIANTS
    TypeOK
    NoLostWakeup
    ClosedReleases
    ShutdownReleases
    EntryKept
    HandedOutOnce
VIEW View
CHECK_DEADLOCK FALSE
