CONSTANTS
    cheap = cheap
    first = first
    Txs = {first, cheap}
    Nonce <- MCNonce
    Price <- MCPrice
    MinFee = 1
    Limit = 2
    InitialMode = "run"
    Modes = {"poll", "disabled"}
    self = self
    p = p
    q = q
    Self = self
    Peers <- MCPeers
    Recent <- MCRecent
    WindowSize = 4
    Final0 <- MCFinal0
    NoBlock = NoBlock
    MaxHeight = 2
    MaxEvents = 1
SPECIFICATION Spec
CHECK_DEADLOCK FALSE
INVARIANTS
    TypeOK
    WorkIsScheduled
    LedgerIsSequential
PROPERTIES
    ExecutableIsMined
    PollingRests
