CONSTANTS
    Files = {f1}
    Clients = {c1}
    QueueThreads = {t1}
    FlushAtShutdown = TRUE
    WriteInterval = 1
    FlushInterval = 2
    WriteJitter = 0
    Commands = {"UPDATE"}
    MaxStamp = 1
    MaxValues = 1
    MaxBuffered = 1
    MaxLag = 0
    MaxSignals = 1
    MaxFailures = 0
SPECIFICATION FairSpec
PROPERTY ExitsOnSignal
CHECK_DEADLOCK FALSE
