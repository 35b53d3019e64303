SPECIFICATION Spec
CONSTANTS
    MaxExecRestarts = 1
    MaxLoopRestarts = 1
    Timeouts = FALSE
    Commands = {}
INVARIANTS
    CleanRecoveryResumes
