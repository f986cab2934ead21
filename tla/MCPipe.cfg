SPECIFICATION MCSpec
CONSTANTS
    Byte = {1, 2}
    Capacity = 3
    MaxPos = 8
    MaxBuf = 4
    BufLen = {1, 2, 4}
INVARIANTS
    PipeTypeOK
    CursorsInRange
    NoLostWakeup
    EofAfterData
PROPERTIES
    IsFifo
    WriterResumes
    ReaderEnds
CHECK_DEADLOCK FALSE
