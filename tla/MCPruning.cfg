SPECIFICATION FairSpec
CONSTANTS
    Height = 8
    Finality = 2
    Depth = 2
    Window = 1
    Side = {11, 12}
    Fork <- MCFork
    Merge <- MCMerge
    PromptWorker = TRUE
    MaxCatchUps = 2
    MaxFailures = 1
    MaxCrashes = 2
INVARIANTS
    MoveRecoverable
PROPERTIES
    PruneKeeps
    RecoveryCompletes
