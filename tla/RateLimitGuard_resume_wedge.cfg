SPECIFICATION FairSpec
CONSTANTS
    Lanes = {"a"}
    Cap <- OneBelow
    MaxLevel = 1
    Sweeps = 2
    MaxAttempts = 2
    UsageLevels = {"ok", "limit2"}
    OperatorHolds = {"limit1", "superseded"}
    MaxChanges = 0
    MaxFaults = 1
PROPERTY ConfirmedResumeFinishes
