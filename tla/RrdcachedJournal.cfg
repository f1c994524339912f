CONSTANTS
    Files = {f1, f2}
    Clients = {c1}
    QueueThreads = {t1}
    FlushAtShutdown = FALSE
    MaxStamp = 2
    MaxOdd = 1
    MaxRotations = 2
    MaxEnds = 1
    MaxFailures = 1
SPECIFICATION Spec
INVARIANTS
    TypeOK
    OwedIsRestorable
    NothingComesBack
SYMMETRY Symmetry
CHECK_DEADLOCK FALSE
