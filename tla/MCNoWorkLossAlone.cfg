CONSTANTS
    a = a
    b = b
    Path <- MCPath
    Content <- MCContent
    Absent = Absent
    Unmerged = Unmerged
    Repos <- BothRepos
    Commands <- MCCommands
    Failing <- UnbornFailing
    Peers = 0
SPECIFICATION Spec
INVARIANTS
    BystandersKept
    NoEmptyCommit
CHECK_DEADLOCK FALSE
