CONSTANTS
    Block <- MCBlock
    Genesis = "g"
    NoBlock = NoBlock
    Prev <- MCPrev
    Height <- MCHeight
    Chain <- MCChain
    ChainTrust <- MCChainTrust
    Tx <- MCTx
    Coinbase <- MCBlock
    CoinStake <- MCCoinStake
    CoinbaseHeight <- MCCoinbaseHeight
    Vtx <- MCVtx
    Vin <- MCVin
    VoutSize <- MCVoutSize
    Rejects <- MCNone
    CoinbaseMaturity = 1
    Hardened <- MCGenesisOnly
    LastHardened = "g"
    SyncCheckpoints <- MCMessages
    NoSyncCheckpoints = FALSE
    MayRewind = FALSE
    MaxRekeys = 0
    MaxCrashes = 1
    MaxFaults = 0
    NoStake = NoStake
    Stake <- MCStake
    TooEasy <- MCEasy
    Tips <- MCTips
SPECIFICATION PoolLiveSpec
INVARIANTS
    OrphansAreWhole
    NoOrphanForgotten
PROPERTIES
    EventuallyCaughtUp
CHECK_DEADLOCK FALSE
