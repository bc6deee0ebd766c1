SPECIFICATION FairSpec
CONSTANTS
    r1 = r1
    w1 = w1
    NoTask = NoTask
    Readers <- OneReader
    Writers <- OneWriter
    PIPE_BUFSZ = 3
    Byte = {0, 1}
    MaxLen = 3
    MaxSent = 3
INVARIANTS NoUseAfterFree SoleSleeperNotLost
PROPERTIES ImplementsFifo CallsReturn
CHECK_DEADLOCK FALSE
