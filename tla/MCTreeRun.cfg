CONSTANTS
    Order <- Files
    Workflow = {"ci.yml"}
    Exempt = {"a_gen.go"}
    Stem <- Stems
    Path <- Paths
    Text <- Texts
    Ident <- Idents
    VarName <- VarNames
    VarTries = 7
    None = "none"
    Name <- Names
    Tries = 7
    Fixture <- Fixtures
    Settle <- Settled
    FixRounds = 4
    p1 = p1
    p2 = p2
    Proc = {p1, p2}
    Scenarios <- All
    MaxRuns = 2
    MaxFaults = 1
    MaxAuthored = 1
SYMMETRY Symmetry
SPECIFICATION Spec
INVARIANTS
    NamesItsOwnText
    NothingStranded
    LeavesNothing
PROPERTIES
    HeldStays
CHECK_DEADLOCK FALSE
