CONSTANTS
    t1 = t1
    t2 = t2
    Threads = {t1, t2}
    NoThread = NoThread
    Calls <- MCCalls
    Size <- MCSize
    RBUF_SIZE = 3
    StatsLines = 2
    MaxToDaemon = 2
    MaxToClient = 1
    MaxConns = 2
    MaxCommands = 5
    MaxLosses = 1
SPECIFICATION Spec
INVARIANTS TypeOK CommandsArriveWhole AnswersAreTheOnesOfTheCall CallsAreHandledInOrder
PROPERTY CallsEnd
CHECK_DEADLOCK FALSE
