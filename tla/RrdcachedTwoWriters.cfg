CONSTANTS
    Files = {f1}
    Clients = {c1}
    QueueThreads = {t1, t2}
    FlushAtShutdown = FALSE
    WriteInterval = 1
    FlushInterval = 3
    WriteJitter = 0
    Commands = {"UPDATE", "FLUSH"}
    MaxStamp = 2
    MaxValues = 1
    MaxBuffered = 1
    MaxLag = 0
    MaxSignals = 0
    MaxFailures = 0
SPECIFICATION Spec
INVARIANT DequeuedValuesWritten
CHECK_DEADLOCK FALSE
