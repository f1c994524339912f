CONSTANTS
    Files = {f1}
    Clients = {c1}
    QueueThreads = {t1}
    FlushAtShutdown = TRUE
    WriteInterval = 1
    FlushInterval = 2
    WriteJitter = 0
    Commands = {"UPDATE"}
    MaxStamp = 2
    MaxValues = 1
    MaxBuffered = 2
    MaxLag = 0
    MaxSignals = 1
    MaxFailures = 0
SPECIFICATION Spec
INVARIANT FlushedAtExit
CHECK_DEADLOCK FALSE
