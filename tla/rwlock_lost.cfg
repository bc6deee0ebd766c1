SPECIFICATION RSpec
CONSTANTS
    a = a  b = b  c = c  d = d  NoThread = NoThread  NoWord = NoWord
    Threads <- Four
    Words <- TheWords
    FUTEX_WAITERS_MAX = 3
SYMMETRY Symmetric
INVARIANT WriterNotForgotten
CHECK_DEADLOCK FALSE
