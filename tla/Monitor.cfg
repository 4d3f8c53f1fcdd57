SPECIFICATION MCSpec
CONSTANTS
    UnmetItems <- Items
    MaxStage <- Stages
    MaxAttempts = 1
    MaxVersion = 2
    MaxMishaps = 1
    Excuses = {"x"}
    Standing = {"s"}
    Class <- ClassOfCondition
    Threshold = 2
    Lease = 1
    IdlePasses = 2
    MaxTurns = 2
    MaxWork = 1
    MaxPasses = 3
    MaxFailures = 1
    Orders = {"o1", "o2"}
    MaxPolls = 1
    MaxTyped = 1
    MaxPaneFaults = 1
    Panes = {"p"}
    SessionRefs = {"s", "t"}
    Sources = {"h", "g"}
    StableSnapshots = 2
    MaxSeq = 3
    MaxHandoffs = 2
    MaxFailedWrites = 1
INVARIANTS    FindingsAreGrounded
          FindingsAreOnRecord IdleIsEarned
         HandoffIsFaithful
PROPERTIES EscalationIsEarned 
CHECK_DEADLOCK FALSE
