CONSTANTS
    Step = 3
    Heartbeat = 7
    MinRate <- MCMinRate
    MaxRate <- MCMaxRate
    DsTypes = {"COUNTER"}
    Readings <- MCReadings
    Wrap32 = 8
    Wrap64 = 16
    Archives = {"one", "avg", "min", "max", "last"}
    rra_def <- MCRraDef
    InitialRows = {1}
    Starts = {1}
    Times = {2, 3, 5, 7, 8, 12, 15, 19}
    MaxUpdates = 2
    MaxRefused = 1
SPECIFICATION Spec
INVARIANT RateFromAcceptedReadings
CHECK_DEADLOCK FALSE
