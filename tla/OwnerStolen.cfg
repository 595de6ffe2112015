CONSTANTS
    Workers = {p, q}
    Tasks = {t, u}
    Replies = {r}
    Slots = {s}
    MaxRows = 2
    None = None
SPECIFICATION Spec
INVARIANT ActiveOwnerKept
CHECK_DEADLOCK FALSE
