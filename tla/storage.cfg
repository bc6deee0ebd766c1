SPECIFICATION StSpec
CONSTANTS
    i1 = i1  p1 = p1  p2 = p2
    Block <- Blocks
    InodeBlock <- Inodes
    Part = {1, 2}
    Val = {0, 1}
    WB_SLOTS = 2
    NoBuf = NoBuf
    ha = ha  hb = hb  hc = hc
    Home = {ha, hb, hc}
    Super = Super  NoBlock = NoBlock
    Magic = {hb}
    s_first = 1
    MaxLog = 13
    TidMod = 16
    MaxData = 2
    OldLogs <- MCLogs
    jbd2_write_enabled = TRUE
    MaxTxn = 1
    MaxCrash = 2
    n1 = n1  n2 = n2  t1 = t1  t2 = t2
    Task <- TwoTasks
    Names <- TwoNames
    NB = 7
    s_blocks_per_group = 4
    NI = 4
    s_inodes_per_group = 2
    EXT2_NDIR_BLOCKS = 1
    ptrs_per_block = 2
    DirCap = 3
    Offsets = {0, 2, 4, 6}
    Lengths = {2}
    Sizes = {0, 1, 2, 4, 5, 7}
    MaxCalls = 4
SYMMETRY Sym
VIEW View
INVARIANTS AllOrNothing StructuresAgree
PROPERTIES SyncDurable ReadsLastWritten DiskFollows
CHECK_DEADLOCK FALSE
