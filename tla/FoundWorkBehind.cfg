CONSTANTS
    top = top
    sub = sub
    w1 = w1
    h1 = h1
    Repo <- MCRepo
    Work <- OneWork
    Hook <- OneHook
    Subs <- MCSubs
    Listed <- MCSubs
    HeadSet <- MCHeadSet
    Plain <- MCPlain
    MaxDepth = 3
    NoCommit = NoCommit
    Calls <- Kinds
    Failing <- NoFailure
    Doings <- EditAndCommit
    MaxMoves = 2
SPECIFICATION Spec
INVARIANT NothingLeftBehind
CHECK_DEADLOCK FALSE
