SPECIFICATION FairSpec
CONSTANTS
    pr = pr
    view = view
    checks = checks
    Subject <- MCSubject
    Read <- MCRead
    About <- MCAbout
    Gap = 0
    Threshold = 2
    Kept = 5
    MaxCalls = 2
    None = None
INVARIANTS
    RefusalIsGrounded
PROPERTIES
    NoWastedRead
    Reopens
    TurnEnds
