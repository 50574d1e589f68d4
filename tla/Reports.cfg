SPECIFICATION Spec
CONSTANTS
    Kinds = {"users", "statuses", "messages", "times", "billing", "csv", "histories",
             "questions", "answers", "recipients"}
    ShowDeleted = FALSE
    Cohorts = {1, 2}
    Survey <- MCSurvey
    Under <- MCUnder
    Now = 7
    Interval = 2
    Span = 6
    Limits <- MCLimits
    SliceSize = 2
    PageSize = 2
    MaxChanges = 3
    MaxUsers = 4
INVARIANTS
    CountsAddUp
    MessagesInTheirIntervals
    SummariesTellAll
    RecipientsSeeAnswers
CHECK_DEADLOCK FALSE
