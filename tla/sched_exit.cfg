SPECIFICATION Spec
CONSTANTS
    c1 = c1  c2 = c2  t1 = t1  t2 = t2  w1 = w1  w2 = w2
    CPUs <- TwoCPUs
    Tasks <- TwoTasks
    Wakers <- TwoWakers
    Orphans <- FirstOrphan
    Prio <- SamePrio
    Affinity <- Anywhere
    Idle = Idle
    NoTask = NoTask
INVARIANT ExitIsFinal
CHECK_DEADLOCK FALSE
SYMMETRY Symmetric
