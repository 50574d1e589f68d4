SPECIFICATION Spec
CONSTANTS
    None = None
    Hours = {hour}
    Texts = {text}
    Pages = {}
    Onboards = {}
    InitialStatuses = {"active"}
INVARIANTS
    OptOutStands
