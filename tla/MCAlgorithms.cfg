CONSTANTS
    Kinds = {"write", "keep", "fork", "diff", "split"}
SPECIFICATION Spec
INVARIANTS
    PlacesOnce
    JudgedIsWritten
    KeepsUnwritten
    WordsStandOnce
    ForeignLinesStand
    ShortestScript
    SplitKeeps
CHECK_DEADLOCK FALSE
