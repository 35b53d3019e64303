SPECIFICATION LoopSpec
CONSTANTS
    Instruments = {btc}
    Prices = {0, 1, 3}
    MaxTrades = 1
    MaxFailures = 1
INVARIANTS
    MonitorIsKept
PROPERTIES
    StopFires
    StopEnds
CHECK_DEADLOCK FALSE
