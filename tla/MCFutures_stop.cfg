SPECIFICATION FairSpec
CONSTANTS
    conn = conn
    stream = stream
    Token = {1}
    Stream = {1}
    Task = {conn}
    NoTask = NoTask
    Calls <- MCCalls
    NoCall = NoCall
    MayStop = TRUE
    Length = {2}
    MaxCap = 2
    MaxConns = 1
PROPERTIES
    StopEnds
CHECK_DEADLOCK FALSE
