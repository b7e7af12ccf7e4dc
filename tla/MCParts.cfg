SPECIFICATION PartsSpec
CONSTANTS
    NetAddr = {"a", "b", "c", "d"}
    Source = {"s1", "s2"}
    Port = {1}
    NewBucket = {1, 2}
    TriedBucket = {1, 2}
    GetNewBucket <- MCNewBucket
    GetTriedBucket <- MCTriedBucket
    NewBucketSize = 1
    TriedBucketSize = 2
    NewBucketsPerAddress = 2
    InspectOnEvict = 2
    GetAddrMaxPct = 30
    GetAddrMax = 1
    MaxTime = 1
    NoAddr = "none"
    Node = {n1, n2}
    Addr = {a1, a2}
    Opener = {open, added}
    MaxOutbound = 2
    MaxInbound = 1
    NoNode = NoNode
    MinerThread = {m1}
    PoolSize = 1
    MaxKey = 5
    MaxStops = 1
    Block <- MCBlock
    Genesis = "g"
    NoBlock = NoBlock
    Prev <- MCPrev
    Height <- MCHeight
    Chain <- MCChain
    ChainTrust <- MCChainTrust
    Tx <- MCBlock
    Coinbase <- MCBlock
    CoinStake <- MCNone
    CoinbaseHeight <- MCHeight
    Vtx <- MCVtx
    Vin <- MCNoInputs
    VoutSize <- MCOneOutput
    Rejects <- MCNone
    NewBlock <- MCNewBlock
    MaxKills = 1
    MaxLost = 1
SYMMETRY MCSymmetry
INVARIANTS
    TablesAreSound
    ConnectionsAreSound
    KeyPoolIsSound
    
PROPERTIES
    TriedAreNotDeleted
CHECK_DEADLOCK FALSE
