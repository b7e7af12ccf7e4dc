SPECIFICATION ThreadsSpec
CONSTANTS
    Root = "g"
    NoItem = "none"
    Item <- MCItem
    Parent <- MCParentOf
    Branch <- MCBranch
    High <- MCHigh
    Kernel <- MCKernelOf
    Time <- MCTime
    MinAge = 3
    Limit = 2
    Dense = 1
    Starts <- MCStarts
    MaxTips = 1
    MaxLosses = 1
    OtherPeers = FALSE
    Timer = {t1, t2, t3}
    MaxTimeout = 2
    PoolGap = 2
    Unset = Unset
    Client = {c1, c2}
    MaxRequests = 2
    Block <- MCBlock
    Genesis = "g"
    NoBlock = NoBlock
    Prev <- MCPrev
    Height <- MCHeight
    Chain <- MCChain
    ChainTrust <- MCChainTrust
    Tx <- MCTx
    Coinbase <- MCCoinbase
    CoinStake <- MCNoBlocks
    CoinbaseHeight <- MCCoinbaseHeight
    Vtx <- MCVtx
    Vin <- MCVin
    VoutSize <- MCVoutSize
    Rejects <- MCNoBlocks
    CoinbaseMaturity = 2
    Hardened <- MCGenesisOnly
    LastHardened = "g"
    SyncCheckpoints <- MCNoMessages
    NoSyncCheckpoints = FALSE
    MayRewind = TRUE
    MaxRekeys = 0
    MaxCrashes = 1
    MaxFaults = 0
INVARIANTS
    DownloadIsSound
    ShutdownIsOrderly
    AnswersFromBestChain
PROPERTIES
    EventuallyDownloaded
    UnlockIsTimed
    ThreadsEnd
CHECK_DEADLOCK FALSE
