SPECIFICATION MCSpec
CONSTANTS
    N = 5
    Concurrency = 3
    FirstErrorWins = TRUE
INVARIANTS
    LastFindsAll
    BoundedAndStopped
    OrderKept
PROPERTIES
    Implements
    SequenceImplements
    CollectAnswered
CHECK_DEADLOCK FALSE
