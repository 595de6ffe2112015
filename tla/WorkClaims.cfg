CONSTANTS
    Workers = {p, q}
    Tasks = {t, u}
    Replies = {r}
    Slots = {s}
    MaxRows = 2
    None = None
SPECIFICATION Spec
INVARIANTS TypeOK OneRunningRow
PROPERTIES UncertainHolds OutboxSpec
CHECK_DEADLOCK FALSE
SYMMETRY Symmetry
