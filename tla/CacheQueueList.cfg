CONSTANTS
    Items = {c1, c2, c3, c4}
    NULL = NULL
    MaxValues = 2
SPECIFICATION Spec
INVARIANTS
    WellFormed
    QueuedHasValues
PROPERTY ImplementsCacheQueue
CHECK_DEADLOCK FALSE
