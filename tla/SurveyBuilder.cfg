SPECIFICATION Spec
CONSTANTS
    Kinds = {"create", "move", "modify message", "modify question", "modify schedule",
             "delete", "delete schedule", "copy", "hour", "text", "manual"}
    MaxRequests = 2
    MaxRuns = 2
    MaxStarts = 3
    MaxItems = 10
INVARIANTS
    TreesAreWhole
    NothingShared
    AnswerFindsItsQuestion
    RunsKeepTheirPlace
CHECK_DEADLOCK FALSE
