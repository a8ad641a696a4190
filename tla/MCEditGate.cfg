CONSTANTS
    Byte <- MCByte
    Inputs <- MCInputs
SPECIFICATION Spec
INVARIANTS
    ResultHolds
    OutsideSurvives
    OneBadEditCostsOnlyItself
    FewReparses
CHECK_DEADLOCK FALSE
