CONSTANTS
    Node <- Tree
    Root = "root"
    Dir <- TreeDir
    Parent <- TreeParent
    Vendored = {"m"}
    Marker = {"w/.git"}
    Proc = {p1, p2}
    Grain = 2
    Guard = 1
    PersistFloor = 2
    Ops <- Changes
    MaxClock = 2
    MaxOps = 2
SPECIFICATION Spec
INVARIANTS
    WalkIsTrue
    MatchMeansSame
SYMMETRY Procs
CHECK_DEADLOCK FALSE
