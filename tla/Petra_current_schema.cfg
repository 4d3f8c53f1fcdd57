SPECIFICATION PetraSpec
CONSTANTS
    SessionRefs = {"a"}
    LaneOf <- LaneOfSession
    Providers = {"p"}
    EventIds = {"e"}
    MaxAge = 0
    Validity = 1
    Lifetime = 2
    Capacity = 1
    AnswerSchema = "chitra.goals.v3"
    MaxRecordVersion = 2
    MaxTime = 1
    MaxWrites = 3
    MaxAsks = 2
    MaxRestarts = 1
INVARIANT AgreedOwnershipIsRecorded
CHECK_DEADLOCK FALSE
