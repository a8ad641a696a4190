CONSTANTS
    p1 = p1
    p2 = p2
    Proc <- MCProc
    Worlds <- MCWorlds
    CacheTTL = 0
    Failing = {"identify", "tags", "fetch", "store", "unshallow", "deepen"}
    Doings = {"remote", "checkout", "fetch", "prune"}
    MaxMoves = 1
    MaxTime = 1
    NoCommit = NoCommit
    NoRecord = NoRecord
SPECIFICATION Spec
INVARIANTS
    BaseIsRight
    AsksOnce
    InProportion
CHECK_DEADLOCK FALSE
