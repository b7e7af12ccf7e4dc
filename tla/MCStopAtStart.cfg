SPECIFICATION StartSpec
CONSTANTS
    Block <- MCBlock
    Genesis = "g"
    NoBlock = NoBlock
    Prev <- MCPrev
    Height <- MCHeight
    Chain <- MCChain
    ChainTrust <- MCChainTrust
    Tx <- MCBlock
    Coinbase <- MCBlock
    CoinStake <- MCNone
    CoinbaseHeight <- MCHeight
    Vtx <- MCVtx
    Vin <- MCNoInputs
    VoutSize <- MCOneOutput
    Rejects <- MCNone
    NewBlock <- MCNewBlock
    MaxKills = 1
    MaxLost = 1
PROPERTIES
    StopKeepsBestChain
CHECK_DEADLOCK FALSE
