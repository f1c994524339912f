CONSTANTS
    Files = {f1}
    Clients = {c1}
    QueueThreads = {t1, t2}
    FlushAtShutdown = FALSE
    WriteInterval = 1
    FlushInterval = 2
    WriteJitter = 2
    Commands = {"UPDATE", "FLUSH", "FORGET"}
    MaxStamp = 1
    MaxValues = 1
    MaxBuffered = 1
    MaxLag = 1
    MaxSignals = 0
    MaxFailures = 0
SPECIFICATION FairSpec
PROPERTIES
    FlushAnswered
    ValuesLeaveCache
CHECK_DEADLOCK FALSE
