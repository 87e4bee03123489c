SPECIFICATION Spec
CONSTANTS
    Zones = 3
    Unit = 3
    nl <- Bands
    Begin = {0}
    MaxAge = 0
    MaxQueue = 1
    MaxIq = 1
    MaxTime = 3
    Protocols <- TwoOutputs
    Refs <- OneReference
    PairSeconds = 1
    Delay = 0
    Interval = 1
    Retry = 1
    LocalReach = 2
INVARIANTS PositionTrue OutputsKeepUp
CHECK_DEADLOCK FALSE
