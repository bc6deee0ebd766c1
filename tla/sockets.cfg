SPECIFICATION SkSpec
CONSTANTS
    SEQ = 32
    TCP_MSS = 2
    MSS_DEFAULT = 1
    TCP_SNDBUF = 2
    TCP_RCVBUF = 2
    RCV_LOW = 1
    TCP_WSCALE = 1
    TCP_OOO_MAX = 1
    GiveUp = {"server"}
    MaxRewinds <- OnlyServer
    ISS <- Wrapping
    Total <- Download
    Socks = {s1, s2, s3}
    NoSock = NoSock
    UNIX_ACCEPTQ = 1
    Room = 1
    FdRoom = 1
    Datagrams = {d1, d2, d3}
    longest = d1
    Size <- TheSizes
    Chunk = 2
    IDS = 3
    FRAG_SLOTS = 2
    FRAG_TIMEOUT = 1
    MaxTime = 1
    None = None
INVARIANTS StreamExact KeptUntilReceived SleepersWait ReassembledAsSent
           NoDangling SleepersWaitForPeer
VIEW View
CHECK_DEADLOCK FALSE
