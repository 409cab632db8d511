CONSTANTS
    g = g
    a1 = a1
    a2 = a2
    a3 = a3
    b1 = b1
    b2 = b2
    c2 = c2
    Blocks <- MCBlocks
    Genesis = g
    Parent <- MCParent
    Number <- MCNumber
    TotalDifficulty <- MCTotalDifficulty
    NoBlock = NoBlock
    StateInterval = 3
    EtsSize = 2
    PageSize = 2
    MailboxLimit = 1
    MaxRestarts = 1
SPECIFICATION Spec
INVARIANTS
    MainChainStatesAreReadable
