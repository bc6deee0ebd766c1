SPECIFICATION Spec
CONSTANTS
    init = init  p1 = p1  p2 = p2  AnyChild = AnyChild  Nobody = Nobody
    Procs <- TwoMore
    NCPU = 2
    Catchers = {p1}
    Interrupts = TRUE
    WaitsForAny = TRUE
    Threads = {a, b, c}
    NoThread = NoThread
    NoWord = NoWord
    Words <- TheWords
    FUTEX_WAITERS_MAX = 2
    NTasks = 2
    Programs <- SomePrograms
    Delays = {1, 2}
    Intervals = {0, 1}
    MaxTime = 3
    Never = 99
    WakeMax = 1
    AlarmMax = 1
    CPUs = {c1, c2, c3}
    Slabs = {s1, s2, s3}
    NoSlab = NoSlab
    Total = 3
    Regions <- TwoRegions
    FREE_MIN = 2
    MAX_ORDER = 2
    Limits = {6, 10}
    Users = {a, b}
    EventReaders = {a, b}
    NoReader = NoReader
    First = a
    Fds = {0, 1}
    Files = {1, 2}
    Vnodes = {v}
    None = None
    InboxMax = 1
    Owners = {p, q}
    LastByte = 2
    VFS_MAX_LOCKS = 3
    MaxRaces = 1
    MaxClaims = 0
    FileTasks = {a, b}
    ShmTasks = {a, b}
    ShmFirst = a
    Absent = Absent
    Spaces = {x, y}
    MaxId = 2
    SHM_MAX = 2
    SHM_ATT_MAX = 2
    NVa = 1
    Width = 2
    MaxWrites = 3
    LastTime = 7
    MaxSets = 2
    Values = {0, 1, 3}
    Periods = {0, 1, 2}
    SPEC_PAGE = 2
    Length = 3
    ByteValues = 2
    Contents <- SomeContents
    MaxOps = 2
    CallerWrites = 1
    MaxRuns = 2
    Sigs = {1, 9, 17}
    SIGKILL = 9
    SIGCONT = 18
    DefaultIgnored = {17, 18}
    Senders = {a}
    Actions <- SomeActions
    Masks <- SomeMasks
    SFD_QUEUE = 1
    Ring = 1
    MaxFrames = 2
    CallSets <- SomeCallSets
INVARIANTS ReapedByParent WriterAlone DeadlinesKept SlabLists PagesAccounted
           FilesKept HeldAsAsked NoConflict SegmentLifetime
           EventNotMissed TicksExact SignalsKept ReadInterrupted
PROPERTY CommitSerial
VIEW Moving
CHECK_DEADLOCK FALSE
