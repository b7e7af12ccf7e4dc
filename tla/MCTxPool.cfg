CONSTANTS
    Block <- MCBlock
    Genesis = "g"
    NoBlock = NoBlock
    Prev <- MCPrev
    Height <- MCHeight
    Chain <- MCChain
    ChainTrust <- MCChainTrust
    Tx <- MCTx
    Coinbase <- MCBlock
    CoinStake <- MCNone
    CoinbaseHeight <- MCCoinbaseHeight
    Vtx <- MCVtx
    Vin <- MCVin
    VoutSize <- MCVoutSize
    Rejects <- MCNone
    CoinbaseMaturity = 1
    Hardened <- MCGenesisOnly
    LastHardened = "g"
    SyncCheckpoints <- MCNoMessages
    NoSyncCheckpoints = FALSE
    MayRewind = FALSE
    MaxRekeys = 0
    MaxCrashes = 1
    MaxFaults = 0
    NonStandard <- MCNone
    Invalid <- MCNone
    RateLimited <- MCRateLimited
    Large <- MCLarge
    MaxOrphanTxs = 2
SPECIFICATION TxPoolSpec
INVARIANTS
    PoolMapsAgree
    PoolOutsideChain
PROPERTIES
    DisconnectedStayKnown
    OrphansOfAcceptedAreTaken
CHECK_DEADLOCK FALSE
