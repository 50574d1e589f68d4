SPECIFICATION Spec
CONSTANTS
    None = None
    Hours = {hour}
    Texts = {text}
    Pages = {page}
    Onboards = {onboarding}
    InitialStatuses = {"active", "pending"}
INVARIANTS
    StatusIsLastLogged
PROPERTIES
    OnlyOlderCopiesUndoOptOut
