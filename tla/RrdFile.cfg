CONSTANTS
    Step = 3
    Heartbeat = 7
    MinRate <- MCMinRate
    MaxRate <- MCMaxRate
    DsTypes = {"GAUGE", "COUNTER"}
    Readings <- MCReadings
    Wrap32 = 8
    Wrap64 = 16
    Archives = {"one", "avg", "min", "max", "last"}
    rra_def <- MCRraDef
    InitialRows = {1}
    Starts = {1}
    Times = {2, 7, 12, 19}
    MaxUpdates = 4
    MaxRefused = 0
    RraOrder <- MCRraOrder
    Resizes <- MCResizes
    Queries <- MCQueries
    MaxEdits = 2
SPECIFICATION FileSpec
INVARIANTS RowsMatchReference FetchReadsTheRowOfTheTime RateIsOfOneSource
CHECK_DEADLOCK FALSE
