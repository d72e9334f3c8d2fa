SPECIFICATION FairSpec
CONSTANTS
    Blocks <- MCBlocks
    Root = "r"
    Parents <- MCParents
    Tasks <- MCTasks
    Block <- MCBlock
    Worlds <- MCWorlds
    Exit = "exit"
INVARIANTS
    NoPanic
    OneToken
    InOrderNeverMissing
    ExitIsLast
PROPERTIES
    Advances
    EveryCallReturns
CHECK_DEADLOCK FALSE
