SPECIFICATION Spec
CONSTANTS
    None = None
    n1 = n1
    n2 = n2
    p1 = p1
    p2 = p2
    s1 = s1
    Phones = {p1, p2}
    Numbers = {n1, n2}
    FirstNumber = n1
    Schedules = {s1}
    CohortLimit = 1
    NumberLimit = 1
    Kinds = {"text", "page", "upload", "schedule", "status", "modify", "close", "rephone", "delete", "hour"}
    MaxRequests = 2
INVARIANTS
    DuplicatesNeedAPage
    NumbersKnown
    NoScheduleMissed
    ActiveUserIsWelcomed
    HourlyJobRepairs
SYMMETRY PhonesAlike
CHECK_DEADLOCK FALSE
