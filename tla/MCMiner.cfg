CONSTANTS
    Block <- MCBlock
    Genesis = "g"
    NoBlock = NoBlock
    Prev <- MCPrev
    Height <- MCHeight
    Chain <- MCChain
    ChainTrust <- MCChainTrust
    Tx <- MCTx
    Coinbase <- MCBlock
    CoinStake <- MCCoinStake
    CoinbaseHeight <- MCCoinbaseHeight
    Vtx <- MCVtx
    Vin <- MCVin
    VoutSize <- MCVoutSize
    Rejects <- MCNone
    CoinbaseMaturity = 1
    Hardened <- MCGenesisOnly
    LastHardened = "g"
    SyncCheckpoints <- MCMessages
    NoSyncCheckpoints = FALSE
    MayRewind = FALSE
    MaxRekeys = 0
    MaxCrashes = 1
    MaxFaults = 0
    NonStandard <- MCNonStandard
    Invalid <- MCNone
    RateLimited <- MCNone
    Large <- MCNone
    MaxOrphanTxs = 0
    OwnBlock <- MCOwnBlock
    NextTarget <- MCNextTarget
    MaxBlockTxs = 3
    MaxWork = 2
SPECIFICATION MinerSpec
INVARIANTS
    WorkIsWhole
    TemplateConnects
    SolvedBlockIsBest
    StaleTemplateIsNoticed
CHECK_DEADLOCK FALSE
