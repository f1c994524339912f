CONSTANTS
    Files = {f1}
    Clients = {c1, c2}
    QueueThreads = {t1}
    FlushAtShutdown = TRUE
    WriteInterval = 1
    FlushInterval = 1
    WriteJitter = 0
    Commands = {"UPDATE", "FLUSH", "FORGET"}
    MaxStamp = 2
    MaxValues = 1
    MaxBuffered = 1
    MaxLag = 0
    MaxSignals = 0
    MaxFailures = 0
SPECIFICATION Spec
INVARIANTS
    TypeOK
    ThreadsConsistent
    QueueConsistent
    FlushHasWriter
    NothingLost
SYMMETRY Symmetry
CHECK_DEADLOCK FALSE
