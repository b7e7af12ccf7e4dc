CONSTANTS
    Block <- MCBlock
    Genesis = "g"
    NoBlock = NoBlock
    Prev <- MCPrev
    Height <- MCHeight
    Chain <- MCChain
    ChainTrust <- MCChainTrust
    Tx <- MCTx
    Coinbase <- MCBlock
    CoinStake <- MCCoinStake
    CoinbaseHeight <- MCCoinbaseHeight
    Vtx <- MCVtx
    Vin <- MCVin
    VoutSize <- MCVoutSize
    Rejects <- MCNone
    CoinbaseMaturity = 1
    Hardened <- MCGenesisOnly
    LastHardened = "g"
    SyncCheckpoints <- MCMessages
    NoSyncCheckpoints = FALSE
    MayRewind = FALSE
    MaxRekeys = 0
    MaxCrashes = 0
    MaxFaults = 0
    NonStandard <- MCNonStandard
    Invalid <- MCNone
    RateLimited <- MCNone
    Large <- MCNone
    MaxOrphanTxs = 0
    OwnBlock <- MCOwnBlock
    NextTarget <- MCNextTarget
    MaxBlockTxs = 3
    MaxWork = 1
SPECIFICATION MinerSpec
INVARIANTS
    MinedHeightIsRight
CHECK_DEADLOCK FALSE
