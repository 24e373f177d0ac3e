SPECIFICATION MCSpec
CHECK_DEADLOCK FALSE
CONSTANTS
    Kinds <- AllKinds
    MaxAttempts <- Limits
    OneThread = FALSE
    Faults = {"timer_error", "shutdown", "callback_throws"}
    MaxRuns = 3
    Length = 3
INVARIANTS
    LoopJustified
    Released
    OnTime
    DeliversMeaning
    CleanupRan
PROPERTIES
    LoopAnswered
    TimedAnswered
