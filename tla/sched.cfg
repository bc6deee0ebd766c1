SPECIFICATION FairSpec
CONSTANTS
    c1 = c1  c2 = c2  t1 = t1  t2 = t2  w1 = w1  w2 = w2
    CPUs <- TwoCPUs
    Tasks <- TwoTasks
    Wakers <- OneWaker
    Orphans <- FirstOrphan
    Prio <- FirstHigher
    Affinity <- Anywhere
    Idle = Idle
    NoTask = NoTask
INVARIANTS OneCpu QueueInv OnlyOvertakenReturn StackInUse NotLost
PROPERTY QueuedRuns
CHECK_DEADLOCK FALSE
