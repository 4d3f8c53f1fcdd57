SPECIFICATION MCSpec
CONSTANTS
    GoalTexts = {"A", "B"}
    Asks = {"q"}
    Tasks = {"t"}
    MaxGoalVersion = 2
    Sessions = {"a", "ax", "ay"}
    LaneId <- LaneIds
    Candidates <- SuccessorRefs
    Requests = {"r1", "r2"}
    MaxNonce = 2
    MaxSets = 1
    MaxEdits = 1
    Commands = {"start", "pause", "shelve", "resume"}
    Kind <- KindOf
    MaxAtOnce = 2
    MaxRecords = 3
    MaxTree = 1
    Class <- Asked
    AnswerTexts = {"yes"}
    MaxContract = 2
    MaxMishaps = 1
    Holders = {"a", "b"}
    Files = {"out", "rep"}
    Output = "out"
    Report = "rep"
    Old <- OldReceipt
    Uploads <- NewReceipts
    MaxEvents = 2
    Prs = {1, 2}
    RepoOf <- OneRepo
    Author <- LaneAuthor
    NamedBy <- PrsOf
    AllowedRepos <- TwoRepos
    MaxPasses = 3
    MaxIncidents = 1
    SessionRefs = {"a"}
    LaneOf <- LaneOfSession
    Providers = {"p"}
    EventIds = {"e"}
    MaxAge = 0
    Validity = 1
    Lifetime = 2
    Capacity = 1
    AnswerSchema = "chitra.goals.v1"
    MaxRecordVersion = 2
    MaxTime = 1
    MaxWrites = 3
    MaxAsks = 1
    MaxRestarts = 1
INVARIANTS DoneIsProven EnrollmentFailsClosed OneSuccessor ControlsFollowLifecycle
        QuestionsAreTracked  OldProvesOneGoal StoredReceiptIsWhole
        MergesAreAccountedFor RecordsAreGrounded AnswersFollowOneHistory
PROPERTIES AsksAreRetired 
CHECK_DEADLOCK FALSE
