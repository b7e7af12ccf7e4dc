CONSTANTS
    Block <- MCBlock
    Genesis = "g"
    NoBlock = NoBlock
    Prev <- MCPrev
    Height <- MCHeight
    Chain <- MCChain
    ChainTrust <- MCChainTrust
    Tx <- MCTx
    Coinbase <- MCCoinbase
    CoinStake <- MCNoBlocks
    CoinbaseHeight <- MCCoinbaseHeight
    Vtx <- MCVtx
    Vin <- MCVin
    VoutSize <- MCVoutSize
    Rejects <- MCNoBlocks
    CoinbaseMaturity = 2
    Hardened <- MCGenesisOnly
    LastHardened = "g"
    SyncCheckpoints <- MCNoMessages
    NoSyncCheckpoints = FALSE
    MayRewind = FALSE
    MaxRekeys = 0
    MaxCrashes = 1
    MaxFaults = 0
SPECIFICATION Spec
INVARIANTS
    TipMatchesDatabase
CHECK_DEADLOCK FALSE
