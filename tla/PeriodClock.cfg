SPECIFICATION Spec
CONSTANTS
    DayHours = 24
    None = None
    Question = q1
    Calendars <- MCCalendars
    MaxNow = 383
    MaxMissed <- MCMaxMissed
INVARIANTS
    SentExactlyOnSurveyDays
    OncePerPeriod
    CatchesUp
PROPERTY ResendWithinPeriod
\* the clock stops at MaxNow
CHECK_DEADLOCK FALSE
