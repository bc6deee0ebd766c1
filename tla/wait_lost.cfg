SPECIFICATION PSpec
CONSTANTS
    init = init  p1 = p1  p2 = p2  AnyChild = AnyChild  Nobody = Nobody
    Procs <- TwoMore
    NCPU = 2
    Catchers <- OneMore
    Interrupts = FALSE
    WaitsForAny = TRUE
INVARIANT ExitNoticed
CHECK_DEADLOCK FALSE
