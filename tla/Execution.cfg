SPECIFICATION MCSpec
CONSTANTS
    N = 2
    Declares = {1}
    Consumers <- FeedsNext
    Trusted = TRUE
    MaxCalls = 2
    MaxEdits = 2
    MaxAttach = 1
    MaxFaults = 1
    Kids = {"kid", "daemon"}
    Escaped = {"daemon"}
    MaxWrites = 2
    MaxAttempts = 2
    Configurations <- BothConfigurations
INVARIANTS
    TruthIsAttested
    OutputsAreBacked
    StagesInOrder
    CompleteMeansCommitted
    ToolAnswerIsTrue
    RemoteAnswerIsTrue
PROPERTIES
    ExecutionsEnd
CHECK_DEADLOCK FALSE
