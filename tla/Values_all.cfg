SPECIFICATION MCSpec
CHECK_DEADLOCK FALSE
INVARIANTS
    ResultLaws
    RoundTrips
    TextMeaning
    
    ClientSettings
