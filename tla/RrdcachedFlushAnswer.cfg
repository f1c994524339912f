CONSTANTS
    Files = {f1}
    Clients = {c1}
    QueueThreads = {t1}
    FlushAtShutdown = FALSE
    WriteInterval = 1
    FlushInterval = 6
    WriteJitter = 0
    Commands = {"UPDATE", "FLUSH"}
    MaxStamp = 2
    MaxValues = 1
    MaxBuffered = 1
    MaxLag = 0
    MaxSignals = 0
    MaxFailures = 0
SPECIFICATION Spec
INVARIANT FlushMeansWritten
CHECK_DEADLOCK FALSE
