SPECIFICATION Spec
CONSTANTS
    None = None
    r1 = r1
    r2 = r2
    Requests = {r1, r2}
    Throttle = 1
    LinkLife = 1
    MaxNow = 2
    MaxHashes = 3
    MaxLogins = 2
INVARIANTS
    PasswordStands
    LinkSetsOnce
    TermsAreSigned
PROPERTIES
    MailsThrottled
SYMMETRY RequestsAlike
CHECK_DEADLOCK FALSE
