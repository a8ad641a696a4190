CONSTANTS
    File = {"CLAUDE.md", "~/CLAUDE.md"}
    Home = {"~/CLAUDE.md"}
    Folder = {"here", "there"}
    Under <- MCUnder
    Slot = {s1, s2}
    MaxEdits = 1
    MaxLooks = 2
    MaxLost = 1
SPECIFICATION Spec
INVARIANTS
    NeverTwice
    BlamesOnlyChanged
    EndsKnown
SYMMETRY Slots
CHECK_DEADLOCK FALSE
