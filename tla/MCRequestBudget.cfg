SPECIFICATION Spec
CONSTANTS
    heartbeat = heartbeat
    entryMark = entryMark
    scan = scan
    capture = capture
    allMids = allMids
    candles = candles
    rows = rows
    NoCaller = NoCaller
    Caller <- Callers
    Key <- Keys
    KeyOf <- Keyed
    Priority <- Priorities
    Weight <- Weights
    Budgets <- AnyBudget
    Reserve <- Reserves
    MaxWait <- MaxWaits
    Window = 2
    MaxCooldown = 2
    MaxConcurrent = 2
INVARIANTS
    TypeOK
    RequestsAreShared
    AlwaysWoken
    WithinBudget
PROPERTIES
    UrgentFirst
