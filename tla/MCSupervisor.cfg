SPECIFICATION FairSpec
CONSTANTS
    MaxExecRestarts = 1
    MaxLoopRestarts = 1
    Timeouts = TRUE
    Commands = {"pause", "paper", "kill", "restart"}
INVARIANTS
    TypeOK
PROPERTIES
    RestartsAreBounded
    RecoveryEnds
    OperatorPauseKept
    OnlyReopensReviewed
