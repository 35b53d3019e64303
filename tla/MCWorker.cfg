SPECIFICATION WorkerSpec
CONSTANTS
    Requests = {r1, r2, r3}
    Ids = {i1, i2}
    Cap = 1
    Recommendations = {a, b}
    Calls = {q1, q2, q3}
    Rows = {t1, t2, t3}
    Exits = {1, 2}
    NoExit = 0
    Users = {u}
    Guest = guest
    Offered = {a}
    NoScan = none
    MaxScans = 2
    Coins = {btc, eth}
    Sockets = {s1, s2, s3}
    NoSocket = none
    LastBackoff = 2
    Approved <- FourApproved
    Selected <- TwoSelected
    Setups = {long, short}
    NoSetup = none
    PerCycle = 1
    EveryN = 1
    MaxCycles = 2
    Hashes = {h}
    Rebuilds <- SomeRebuilds
    Results = {win}
    Clients = {p, q}
    Signals = {x, y}
    ScanIds = {n1, n2}
    Threshold = 1
    MaxActive = 2
    MinForward = 2
    Horizon = 7
    ChunkSize = 3
    Chunks = 2
    EvaluateEvery = 2
    OutcomeBars = 2
    MinRows = 2
    Callers = {k1, k2}
    Alerts = {e}
    Limit = 1
    Window = 2
    MaxBuckets = 1
    Day = 2
    MaxTime = 5
    Tabs = {t}
    Markets = {m1, m2}
    Found <- SomeFound
    Balances = {3}
    FirstBalance = 3
    NoQuant = NoQuant
    NoAnalysis = NoAnalysis
    NoAsk = NoAsk
    FreeMode = FALSE
    MaxScanned = 2
    MaxPapered = 2
CHECK_DEADLOCK FALSE
INVARIANTS
    PagesHold
    StreamFollowsPositions
    CycleIsSound
    GateHolds
PROPERTIES
    AllowanceKept
    JournalHolds
    ArchivesHold
