CONSTANTS
    a = a
    b = b
    Path <- MCPath
    Content <- MCContent
    Absent = Absent
    Unmerged = Unmerged
    Repos <- Born
    Commands <- MCCommands
    Failing <- BornFailing
    Peers = 1
SPECIFICATION Spec
INVARIANTS
    JudgedIsCommitted
    WorkingKept
    StagedKept
    PushedMeansRemote
CHECK_DEADLOCK FALSE
