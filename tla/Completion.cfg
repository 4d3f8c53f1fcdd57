SPECIFICATION MCSpec
CONSTANTS
    Items = {"i1", "i2"}
    Texts = {"x", "y"}
    Good <- PassesAt
    MaxTree = 1
    MaxClaims = 2
    MaxAttempts = 2
    MaxFaults = 1
    Procs = {p1, p2, p3}
    NoFile = NoFile
    MaxCrashes = 2
INVARIANTS SingleWriter DoneIsEarned
PROPERTIES ImplementsMutex StaleLockReclaimed 
CHECK_DEADLOCK FALSE
