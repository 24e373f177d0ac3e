SPECIFICATION MCSpec
CHECK_DEADLOCK FALSE
CONSTANTS
    Workers = {"w1", "w2"}
    Main = "main"
    MaxThrows = 2
    MaxTokens = 3
    ConsumeRate = 2
    RefillRate = 1
    MaxDebt = 4
    EvictAfter = 1
    Ttl = 3
    Tasks = {"t1", "t2", "t3"}
    Waiters = {"v1", "v2"}
    Clock = 12
    Delays = {0, 1, 3, 5}
    Writers = {"x", "y"}
    Verbosity = 2
    MaxItems = 2
    MaxLines = 2
INVARIANT DestroyedQuiet
INVARIANT Exclusive
PROPERTY LimitsKept
PROPERTY StopEnds
