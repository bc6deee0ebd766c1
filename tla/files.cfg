SPECIFICATION FSpec
CONSTANTS
    FileTasks = {a, b}
    First = a
    Fds = {0, 1}
    Files = {1, 2}
    Vnodes = {v}
    None = None
    InboxMax = 1
    MaxClaims = 1
INVARIANT LetGoLast
CHECK_DEADLOCK FALSE
