SPECIFICATION FairSpec
CONSTANTS
    a = a  x = x  y = y  NoThread = NoThread  NoWord = NoWord
    Producers <- OneProducer
    Consumers <- TwoConsumers
    Threads <- OneAndTwo
    Words <- TheWords
    FUTEX_WAITERS_MAX = 2
    Recursive = TRUE
    Signals = TRUE
    SeqMod = 16
    MaxPuts = 2
INVARIANTS SleeperNotForgotten SignalNotLost
PROPERTIES IsMutex MutexMoves ItemsTaken
CHECK_DEADLOCK FALSE
