CONSTANTS
    top = top
    sub = sub
    w1 = w1
    h1 = h1
    Repo <- MCRepo
    Work <- OneWork
    Hook <- OneHook
    Subs <- MCSubs
    Listed <- MCSubs
    HeadSet <- MCHeadSet
    Plain <- MCPlain
    MaxDepth = 3
    NoCommit = NoCommit
    Calls <- Kinds
    Failing <- Steps
    Doings <- MCDoings
    MaxMoves = 2
SPECIFICATION FairSpec
INVARIANTS
    FoundWorkIsPushed
PROPERTIES
    Ends
    GitlinksResolve
    NoDirectPush
CHECK_DEADLOCK FALSE
