SPECIFICATION Spec
CONSTANTS
    DayHours = 4
    None = None
    Instance = "faults"
    daily = daily
    once = once
    welcome = welcome
    q1 = q1
    q2 = q2
    q3 = q3
    c1 = c1
    c2 = c2
    s1 = s1
    s2 = s2
    m1 = m1
    yes = yes
    no = no
    Skip = Skip
    LimitReached = LimitReached
    Schedules <- MCSchedules
    Questions <- MCQuestions
    Conditionals <- MCConditionals
    Setters <- MCSetters
    Messages <- MCMessages
    Actions <- MCActions
    Config <- MCConfig
    Test <- MCTest
    Assign <- MCAssign
    Answers <- MCAnswers
    Repeatable <- MCRepeatable
    Outcomes = {"sent", "unsent", "blacklisted", "error"}
    InactiveLimit = 2
    ResendLimit = 1
    StopInterrupted = FALSE
    Overlap = TRUE
    ReactivateAllowed = TRUE
    InitialStatuses = {"active", "pending"}
    MaxNow = 3
INVARIANT
    NonActiveHasNoExecutions
PROPERTY
    OptOutKeepsPause
