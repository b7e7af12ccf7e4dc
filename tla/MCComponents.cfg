SPECIFICATION SequentialSpec
CONSTANTS
    TargetLimit <- MCTargetLimit
    TargetTimespan = 12
    TargetSpacing = 2
    Window = 2
    MedianTimeSpan = 3
    MaxClockDrift = 2
    Day = 4
    NextBlocks <- MCNextBlocks
    MaxHeight = 5
    Clock = {0, 1, 2, 3, 4, 5, 6, 7}
    Miner = {m1, m2}
    FirstReward = 5
    EarlyReward = 1
    LateReward = 2
    EarlyUntil = 2
    StakeReward = 2
    MaxMoney = 6
    MaxMade = 5
    Rounds = 3
    ModifierInterval = 2
    IntervalRatio = 3
    StakeMinAge = 8
    TimeGaps <- MCTimeGaps
    BlockHash <- MCBlockHash
    SelectionHash <- MCSelectionHash
    MaxBlocks = 5
    Coin = {1, 2, 3, 4, 5, 6, 7, 8}
    Value <- MCValue
    Time <- MCTime
    Depth <- MCDepth
    Key <- MCKey
    Parent <- MCParent
    FromMe = {5}
    Immature = {7}
    Confirmed = {1, 2, 3, 4, 5, 6, 7}
    Cent = 2
    TransactionFees = {1, 2}
    KiloByte = 4
    Payments = {2, 5, 8}
    Picks = {{}, {1, 2}, {6, 7}}
    SpendTime = 1
    Aged = {1, 2, 4}
    SplitAge = {4}
    MaxAge = {1, 2, 3}
    CombineThreshold = 5
    MaxStakeInputs = 3
    Reserves = {0, 6}
    Reward = 1
    Account = {"", "x"}
    Address = {"a"}
    Amounts = {2, 3}
    TxFee = 1
    Maturity = 2
    Generated = 5
    Staking = TRUE
    MaxWalletTx = 3
    MaxMoves = 1
    Caller = {"c1", "c2"}
    AllowedCallers = {"c1"}
    Requests <- MCRequests
    WarningFor = {"two"}
    MaxSent = 2
    Base = 6
    Widths <- MCWidths
    MaxSize = 300
    Chunk = 2
    Written <- MCWritten
    Sizes <- MCSizes
    Vectors <- MCVectors
    Maps <- MCMaps
    MaxStream = 4
    LimbBits = 2
    WIDTH = 3
    DigitBits = 1
    ByteBase = 8
    IntBytes = 3
    IntMax = 31
    HexBase = 4
    MinNumber <- MCMinNumber
    MaxNumber = 4200
    Alphabet = 5
    IdSize = 2
    SecretSize = 3
    Texts <- MCTexts
    ByteStrings <- MCByteStrings
    Secrets <- MCSecrets
    Field = 43
    Order = 31
    BasePoint <- MCBasePoint
    KeySecrets = {1, 9, 30}
    Hashes = {0, 5, 40}
    Ten = 3
    Decimals = 4
    PrintedWidth = 2
    WholeDigits = 2
    TextSamples <- MCTextSamples
    SampleAddresses <- MCSampleAddresses
    HostLines <- MCHostLines
    PortLimit = 12
    Targets <- MCTargets
    Answers <- MCAnswers
    MaxSegments = 2
    BeforeNo = {"connect", "listen"}
    AfterNo = {"proxy"}
    CommandLines <- MCCommandLines
    ConfigFiles <- MCConfigFiles
    Pool <- MCPool
    Inputs <- MCInputs
    Coinbases = {"ours", "theirs"}
    MaxTips = 2
    MaxTime = 2
    MaxWork = 2
    OldWallets <- MCOldWallets
    Shown <- MCShown
    OrderTimes = {1, 2, 3}
    MaxItems = 4
    MaxStarts = 3
    TableBlocks <- MCTableBlocks
    PrevBlock <- MCPrevBlock
    BlockHeight <- MCBlockHeight
    BlockTrust <- MCBlockTrust
    TxsOf <- MCTxsOf
    CoinBases = {1, 3}
    PartsOf <- MCPartsOf
    Visible = {2}
    MaxQueue = 2
    WalletTxs <- MCWalletTxs
    BlocksToMature = 2
    NumConfirmations = 2
    MaxDepth = 3
    BookOrder <- MCBookOrder
    BookLabels = {"x", "y"}
    OldBooks <- MCOldBooks
    OwnAddresses = {1}
    MaxEdits = 2
    Coins = {1, 2, 3}
    CoinValue <- MCCoinValue
    InputBytes <- MCInputBytes
    PreviousCoin <- MCPreviousCoin
    ChangeCoins = {2}
    CoinAddress <- MCCoinAddress
    BytesPerFee = 370
    CentValue = 10
    TxFees = {0, 15}
    PayAmounts = {20, 38, 41}
    MaxClicks = 5
    Team <- MCTeam
    Host = {"n1", "n2"}
    Priority <- MCPriority
    Conditions <- MCConditions
    Lifetime = 2
    MaxAlerts = 3
    MaxAlertTime = 1
    MaxLinks = 2
    BlockTx <- MCBlockTx
    MoneyLimit = 10
    MaxSealed = 5
    BlockTimes = {2, 3}
    WalletKeys = {"k1"}
    LockTx <- MCLockTx
    Threshold = 100
    MaxSearch = 2
    MaxLockHeight = 4
    MaxLockTime = 5
    FileBlock = {"b1", "b2", "b3"}
    BlockSize <- MCBlockSize
    FileLimit = 8
    ScanWindow = 5
    Junk <- MCJunk
    MaxFiles = 3
    MaxFileCrashes = 1
    Sender = {"t1", "t2"}
    Payloads <- MCPayloads
    RecvLimit = 9
    MaxPushed = 2
    MaxDamages = 1
    OptionSets <- MCOptionSets
    LocalAddr = {"a1", "a2", "a3", "a4"}
    LocalNet <- MCLocalNet
    FoundScore <- MCFoundScore
    MaxScore = 7
    PushValues <- MCPushValues
    Families <- MCFamilies
    StartStacks <- MCStartStacks
    ValidSigs <- MCValidSigs
    MaxNumSize = 1
    MaxStack = 9
    MaxOpCount = 5
    MaxKeys = 4
    Cosigner = {"s1", "s2", "s3"}
    KeysOf <- MCKeysOf
    Redeemers = {"s1", "s2"}
    Previous <- MCPrevious
    Transactions <- MCTransactions
    Indexes = {2, 3}
    HashType <- MCHashType
    MaxDocuments = 3
INVARIANTS
    RulesAreKept
    MoneyIsRight
    ScriptsAreRight
    NodeIsRight
    EncodingsAreRight
PROPERTIES
    PaymentEnds
CHECK_DEADLOCK FALSE
