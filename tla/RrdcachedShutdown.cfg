CONSTANTS
    Files = {f1}
    Clients = {c1}
    QueueThreads = {t1}
    FlushAtShutdown = TRUE
    WriteInterval = 1
    FlushInterval = 1
    WriteJitter = 1
    Commands = {"UPDATE", "FLUSH", "FLUSHALL", "FORGET", "QUERY", "QUIT"}
    MaxStamp = 1
    MaxValues = 1
    MaxBuffered = 2
    MaxLag = 0
    MaxSignals = 1
    MaxFailures = 1
SPECIFICATION FairSpec
INVARIANTS NoHandlerInCleanup NothingLost
PROPERTY ShutdownEnds
CHECK_DEADLOCK FALSE
