INIT AlgorithmsInit
NEXT AlgorithmsNext
CONSTANTS
    NoTarget = NoTarget
    RoundsUp = {1}
    MaxHold = 10
    MaxCandles = 2
    Levels <- SomeLevels
    Rr = 2
    HeldBars = 2
    MaxBars = 3
    StructureCandles <- SomeCandles
    StructurePast <- SomePasts
    Strength = 1
    Lookback = 3
    Near = 0
    MaxLength = 8
    Inputs <- SomeInputs
    Atr = 20
    MinQuality = 72
    Length = 15
    Warmup = 2
    FirstTrain = 5
    Block = 3
    Base = 5
    Target = 15
    Rows <- SomeRows
    Clocks = {0, 9, 15, 25, 30}
    MaxRows = 4
    Listed <- SomeListed
    Original = {"btc"}
    Approved = {"btc", "ada"}
    Histories <- SomeHistories
    CutoffDay = 4
    Screen <- SomeScreen
    MaxAdditions = 1
    Expanded = "EXPANDED"
    Dates = {1, 2}
    MaxVersions = 4
    OldAssets = {"btc"}
    NewAssets = {"ada", "dot"}
    AssetOrder <- SomeOrder
    Archives <- SomeArchives
    Recorded <- SomeArchives
    Depth = 2
    OutcomeBars = 2
    Risk = 1
    Scans = {1, 2, 3, 4, 5, 6, 7}
    DevCutoff = 4
    HoldoutStart = 6
    MinDevCandidates = 1
    PitSample = 2
    NoValue = NoValue
    Datasets <- SomeDatasets
    Lambdas <- SomeLambdas
    Stores <- SomeStores
    NoReport = NoReport
    Ledgers <- SomeLedgers
    Floors <- SomeFloors
    Worlds <- SomeWorlds
    OutcomeChoices <- SomeOutcomes
CHECK_DEADLOCK FALSE
INVARIANTS
    SameExits
    OutcomesAgree
    DecisionIsSound
    WalkForwardIsFair
    FeaturesHold
PROPERTIES
    StructureStands
    FramesAgree
    DatasetHolds
    StudiesHold
