SPECIFICATION Spec
CHECK_DEADLOCK FALSE
CONSTANTS
    a = a
    b = b
    n = n
    o = o
    pre = pre
    Addrs <- MCAddrs
    Keys <- MCKeys
    Vals = {0, 1}
    World <- MCWorld
    Origin = o
    Precompiles = {pre}
    New = {n}
    Does <- MCDoes
    Nothing = Nothing
    AllowOverride = FALSE
    SeedLimit = 2
    MaxValue = 1
    MaxDepth = 3
    Budget = 3
    MaxEvals = 2
    MapKeys <- MCMapKeys
    MapHash <- MCHash
    Spare = 1
    Spread = 6
    Load = 4
    Step = 5
    Targets = {0, 1, 2, 4, 7, 11}
INVARIANTS TypeOK CacheIsCurrent TablesAreSound PipesAreInStep
PROPERTIES ImplementsJournal EvaluationEnds
