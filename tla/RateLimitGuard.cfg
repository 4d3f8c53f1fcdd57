SPECIFICATION FairSpec
CONSTANTS
    Lanes = {"a"}
    Cap <- OneBelow
    MaxLevel = 1
    Sweeps = 2
    MaxAttempts = 1
    UsageLevels = {"ok", "limit2"}
    OperatorHolds = {"limit1", "superseded"}
    MaxChanges = 2
    MaxFaults = 1
INVARIANTS
    FreezeCoversTransaction
    
PROPERTIES
    LiftOnlyAfterResume
    
