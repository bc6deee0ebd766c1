SPECIFICATION Spec
CONSTANTS
    SEQ = 32
    TCP_MSS = 2
    MSS_DEFAULT = 1
    TCP_SNDBUF = 2
    TCP_RCVBUF = 2
    RCV_LOW = 1
    TCP_WSCALE = 1
    TCP_OOO_MAX = 1
    GiveUp = {"server"}
    MaxRewinds <- OnceInAll
    ISS <- Wrapping
    Total <- Download
INVARIANT CloseSeen
CHECK_DEADLOCK FALSE
