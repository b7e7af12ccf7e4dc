CONSTANTS
    Block <- MCBlock
    Genesis = "g"
    NoBlock = NoBlock
    Prev <- MCPrev
    Height <- MCHeight
    Chain <- MCChain
    ChainTrust <- MCChainTrust
    Tx <- MCTx
    Coinbase <- MCBlock
    CoinStake <- MCCoinStake
    CoinbaseHeight <- MCCoinbaseHeight
    Vtx <- MCVtx
    Vin <- MCVin
    VoutSize <- MCVoutSize
    Rejects <- MCNone
    CoinbaseMaturity = 1
    Hardened <- MCGenesisOnly
    LastHardened = "g"
    SyncCheckpoints <- MCNoMessages
    NoSyncCheckpoints = FALSE
    MayRewind = FALSE
    MaxRekeys = 0
    MaxCrashes = 1
    MaxFaults = 1
    NonStandard <- MCNone
    Invalid <- MCNone
    RateLimited <- MCNone
    Large <- MCNone
    MaxOrphanTxs = 0
    Mine <- MCMine
    WalletMaturity = 1
    MaxRepairs = 1
SPECIFICATION WalletSpec
INVARIANTS
    FlagsAreRight
    WalletKnowsItsBlocks
PROPERTIES
    CoinStakeIsRefunded
CHECK_DEADLOCK FALSE
