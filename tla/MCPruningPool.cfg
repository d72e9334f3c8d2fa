\* Not one of the runs: TLC refutes PoolFollows in ten states (README, "Findings").
SPECIFICATION Spec
CONSTANTS
    Height = 8
    Finality = 2
    Depth = 2
    Window = 1
    Side = {11, 12}
    Fork <- MCFork
    Merge <- MCMerge
    PromptWorker = TRUE
    MaxCatchUps = 1
    MaxFailures = 1
    MaxCrashes = 0
INVARIANT PoolFollows
