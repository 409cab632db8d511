CONSTANTS
    first = first
    cheap = cheap
    Txs = {first}
    Nonce <- MCNonce
    Price <- MCPrice
    MinFee = 0
    Limit = 2
    InitialMode = "run"
    Modes = {"run", "disabled"}
    self = self
    p = p
    q = q
    Self = self
    Peers <- MCPeers
    Recent <- MCRecent
    WindowSize = 4
    Final0 <- MCFinal0
    NoBlock = NoBlock
    MaxHeight = 1
    MaxEvents = 2
SPECIFICATION Spec
CHECK_DEADLOCK FALSE
PROPERTIES
    MiningResumes
