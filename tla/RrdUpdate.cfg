CONSTANTS
    Step = 3
    Heartbeat = 7
    MinRate <- MCMinRate
    MaxRate <- MCMaxRate
    DsTypes = {"GAUGE", "COUNTER", "DERIVE", "ABSOLUTE"}
    Readings <- MCReadings
    Wrap32 = 8
    Wrap64 = 16
    Archives = {"one", "avg", "min", "max", "last"}
    rra_def <- MCRraDef
    InitialRows = {1}
    Starts = {1, 5}
    Times = {2, 3, 5, 7, 8, 12, 15, 19}
    MaxUpdates = 4
    MaxRefused = 1
SPECIFICATION Spec
INVARIANTS TypeOK PrepCountsTheOpen RowsMatchReference
CHECK_DEADLOCK FALSE
