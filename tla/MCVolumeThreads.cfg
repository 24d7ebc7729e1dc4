SPECIFICATION Spec
CONSTANTS
    owner = owner
    user = user
    other = other
    Threads = {owner, user, other}
    Programs <- MCPrograms
    MaxCalls = 3
    None = None
INVARIANTS
    HandleUsable
    NoHandleLost
    CallersHandlesKept
    NoStartupKeyLost
PROPERTIES
    AttachedStays
    CallsReturn
CHECK_DEADLOCK FALSE
