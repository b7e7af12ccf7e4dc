CONSTANTS
    Block <- MCSmallBlock
    Genesis = "g"
    NoBlock = NoBlock
    Prev <- MCPrev
    Height <- MCHeight
    Chain <- MCChain
    ChainTrust <- MCChainTrust
    Tx <- MCTx
    Coinbase <- MCCoinbase
    CoinStake <- MCNoBlocks
    CoinbaseHeight <- MCCoinbaseHeight
    Vtx <- MCVtx
    Vin <- MCVin
    VoutSize <- MCVoutSize
    Rejects <- MCNoBlocks
    CoinbaseMaturity = 2
    Hardened <- MCHardened
    LastHardened = "b2"
    SyncCheckpoints <- MCSyncCheckpoints
    NoSyncCheckpoints = FALSE
    MayRewind = TRUE
    MaxRekeys = 1
    MaxCrashes = 1
    MaxFaults = 1
SPECIFICATION LiveSpec
INVARIANTS
    DatabaseIsSound
PROPERTIES
    NodeBecomesIdle
CHECK_DEADLOCK FALSE
