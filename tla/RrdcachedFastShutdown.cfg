CONSTANTS
    Files = {f1}
    Clients = {c1}
    QueueThreads = {t1}
    FlushAtShutdown = FALSE
    MaxStamp = 2
    MaxOdd = 0
    MaxRotations = 0
    MaxEnds = 1
    MaxFailures = 0
SPECIFICATION Spec
INVARIANTS
    FastShutdownKeepsValues
CHECK_DEADLOCK FALSE
