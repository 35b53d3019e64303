SPECIFICATION LoopSpec
CONSTANTS
    Instruments = {btc}
    Prices = {0, 1, 3}
    MaxTrades = 1
    MaxFailures = 1
PROPERTY
    KeepsTrying
CHECK_DEADLOCK FALSE
