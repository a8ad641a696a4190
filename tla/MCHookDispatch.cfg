SPECIFICATION MCSpec
CONSTANTS
    none = none
    Guard <- Guards
    Rank <- Place
    Serves <- Events
    Says <- Answers
    HookCall <- Calls
    Clock <- ClockGuard
    Worker <- WorkGuard
    NoReply = none
INVARIANTS
    JudgedAsRun
PROPERTY
    KeepsPromise
CHECK_DEADLOCK FALSE
