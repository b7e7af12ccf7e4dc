-------------------------------- MODULE Wallet --------------------------------
(***************************************************************************)
(* The wallet (CWallet, wallet.cpp) next to the best chain and the memory  *)
(* pool: which transactions it knows, in which block it believes them to   *)
(* be, and which of its coins it has flagged as spent.  It is told of the  *)
(* transactions of a block while the block is being connected, before the  *)
(* block database commits; it writes each of its records at once, in a     *)
(* file of its own, so memory and wallet.dat always say the same.          *)
(***************************************************************************)
EXTENDS TxPool

CONSTANTS
    Mine,           \* the outputs that pay to a key of the wallet
    WalletMaturity, \* nCoinbaseMaturity + 20 (GetBlocksToMaturity)
    MaxRepairs      \* bound on the calls of repairwallet

\* The genesis block that LoadBlockIndex makes pays nobody: its output is empty.
ASSUME WalletAssumption ==
    /\ Mine \subseteq OutPoint
    /\ \A o \in Mine : o[1] \notin Txs(Genesis)
    /\ WalletMaturity \in Nat
    /\ MaxRepairs \in Nat

VARIABLES
    wallet,         \* mapWallet: the transactions known, the block each claims to be in
                    \* (hashBlock), the flagged outputs (vfSpent), those sent from
                    \* here, which carry the transactions that support them (vtxPrev)
    bestblock,      \* the head of the locator in the record "bestblock"
    stage,          \* how far AppInit2 is: "unloaded", "loaded", "running"
    repairs,        \* calls of repairwallet so far
    \* History, read by the properties only.
    refunded,       \* given back for a coinstake whose disconnect is not committed
    misled,         \* a database transaction the wallet had followed was lost
    unheard         \* a block was connected before the wallet was there to hear of it

heardVars == <<refunded, misled, unheard>>
walletVars == <<wallet, bestblock, stage, repairs, heardVars>>

EmptyWallet == [txs |-> {}, hashBlock |-> [t \in Tx |-> NoBlock], vfSpent |-> {}, sent |-> {}]

WalletInit ==
    /\ TxPoolInit
    /\ wallet = EmptyWallet
    /\ bestblock = Genesis
    /\ stage = "running"
    /\ repairs = 0
    /\ refunded = {} /\ misled = FALSE /\ unheard = FALSE

-----------------------------------------------------------------------------
(***************************************************************************)
(* What happens to a wallet w when it hears of a transaction.              *)
(***************************************************************************)
\* The inputs of t that spend coins the wallet has.
OwnInputs(w, t) == {o \in Vin[t] \cap Mine : o[1] \in w.txs}

IsMine(t) == \E o \in Mine : o[1] = t
IsFromMe(w, t) == OwnInputs(w, t) # {}

\* Altered: a coin that is spent by somebody else's copy of the key is not flagged.
WalletUpdateSpent_OwnOnly(w, t) ==
    IF IsMine(t) THEN [w EXCEPT !.vfSpent = @ \cup OwnInputs(w, t)] ELSE w

WalletUpdateSpent(w, t) == [w EXCEPT !.vfSpent = @ \cup OwnInputs(w, t)]

\* Altered: the block of a transaction that is in the wallet already stays.
AddToWallet_NoMerge(w, t, b) ==
    WalletUpdateSpent([w EXCEPT !.txs = @ \cup {t},
                                !.hashBlock[t] = IF t \in w.txs THEN @ ELSE b], t)

AddToWallet(w, t, b) ==
    WalletUpdateSpent([w EXCEPT !.txs = @ \cup {t},
                                !.hashBlock[t] = IF b = NoBlock THEN @ ELSE b], t)

\* Altered: a transaction that only takes coins out of the wallet is not recorded.
AddToWalletIfInvolvingMe_Payee(w, t, b, fUpdate) ==
    IF t \in w.txs /\ ~fUpdate THEN w
    ELSE IF t \in w.txs \/ IsMine(t) THEN AddToWallet(w, t, b)
    ELSE WalletUpdateSpent(w, t)

AddToWalletIfInvolvingMe(w, t, b, fUpdate) ==
    IF t \in w.txs /\ ~fUpdate THEN w
    ELSE IF t \in w.txs \/ IsMine(t) \/ IsFromMe(w, t) THEN AddToWallet(w, t, b)
    ELSE WalletUpdateSpent(w, t)

\* The first n transactions of block b, one after the other.
SyncTxs(w, b, n, fUpdate) ==
    LET after[i \in 0 .. n] ==
            IF i = 0 THEN w ELSE AddToWalletIfInvolvingMe(after[i - 1], Vtx[b][i], b, fUpdate)
    IN  after[n]

\* SyncWithWallets at the end of ConnectBlock; nothing at an earlier return.
SyncConnected(w, b) == SyncTxs(w, b, Len(Vtx[b]), TRUE)

\* The coins DisableTransaction gives back: inputs of the coinstakes of b.
Refunds(w, b) == UNION {OwnInputs(w, t) : t \in Txs(b) \cap CoinStake}

\* Altered: a disconnected coinstake keeps its input.
SyncDisconnected_Keep(w, b) == w

SyncDisconnected(w, b) == [w EXCEPT !.vfSpent = @ \ Refunds(w, b)]

-----------------------------------------------------------------------------
(***************************************************************************)
(* The steps of the chain and the pool, with what the wallet hears.        *)
(***************************************************************************)
\* LoadBlockIndex and the checkpoint reset run before RegisterWallet.
Registered == caller \notin {"load", "reset"}

\* The block that the thread is about to connect, if it will.
Connecting == CASE pc = "setbest" -> goal
                [] pc = "reorg"   -> Toward(cur, mid)
                [] OTHER          -> Toward(cur, goal)

CanConnect ==
    \/ pc = "setbest" /\ Prev[goal] = pindexBest /\ Connects(goal, dbTx, pindexBest)
    \/ /\ pc = "reorg" /\ cur \in Chain[mid] \ {mid}
       /\ Connects(Connecting, txnTx, pindexBest)
    \/ pc = "secondary" /\ cur # goal /\ Connects(Connecting, dbTx, pindexBest)

CanDisconnect == pc = "reorg" /\ cur \notin Chain[mid] /\ Disconnects(cur, txnTx)

\* The wallet when this block has gone through ConnectBlock or DisconnectBlock.
Told == IF CanConnect THEN SyncConnected(wallet, Connecting)
        ELSE IF CanDisconnect THEN SyncDisconnected(wallet, cur) ELSE wallet

BlockConnects == ExtendBestChain \/ ConnectStep \/ ConnectSecondary

(***************************************************************************)
(* The wallet after a step of the chain.  A write that fails may do so     *)
(* before or after the wallet was told: the best block and the commit come *)
(* last.                                                                   *)
(***************************************************************************)
Heard ==
    IF ~Registered THEN {wallet}
    ELSE IF BlockConnects \/ DisconnectStep THEN {Told}
    ELSE IF faults' # faults THEN {wallet, Told}
    ELSE {wallet}

\* ::SetBestChain(locator), unless this still is the initial download.
BestBlocks ==
    IF Registered /\ (ExtendBestChain \/ SecondaryFails \/ FinishSetBestChain)
    THEN {bestblock, goal} ELSE {bestblock}

\* What is left of the coins in given: a new spender, or the commit, settles a coin.
Unsettled(given) == {o \in given : o \notin wallet'.vfSpent /\ dbTx'.spent[o] # NoBlock}

ChainAndWallet ==
    /\ BlockStep \/ OtherChainStep
    /\ pc = "idle" => stage # "unloaded"
    /\ wallet' \in Heard
    /\ bestblock' \in BestBlocks
    /\ refunded' = Unsettled(refunded \cup IF CanDisconnect THEN Refunds(wallet, cur) ELSE {})
    /\ misled' = (misled \/ ReorganizeFails)
    /\ unheard' = (unheard \/ (~Registered /\ BlockConnects))
    /\ UNCHANGED <<stage, repairs>>

\* A transaction message, an orphan that is taken with it, sendrawtransaction.
TxAndWallet ==
    /\ stage # "unloaded"
    /\ \/ \E t \in Tx :
            /\ ReceiveTx(t) \/ SubmitTx(t)
            /\ wallet' = AddToWalletIfInvolvingMe(wallet, t, NoBlock, TRUE)
       \/ \E t \in Tx :
            /\ TryOrphanTx(t)
            /\ wallet' = IF vWorkQueue' # vWorkQueue
                         THEN AddToWalletIfInvolvingMe(wallet, t, NoBlock, TRUE) ELSE wallet
       \/ (NextTxHash \/ \E t \in Tx : ReceiveOrphanTx(t)) /\ UNCHANGED wallet
    /\ refunded' = Unsettled(refunded)
    /\ UNCHANGED <<bestblock, stage, repairs, misled, unheard>>

-----------------------------------------------------------------------------
(***************************************************************************)
(* Spending.                                                               *)
(***************************************************************************)
\* GetDepthInMainChain, which believes hashBlock.
Depth(t) ==
    LET b == wallet.hashBlock[t]
    IN  IF b # NoBlock /\ IsInMainChain(b) THEN Height[pindexBest] - Height[b] + 1 ELSE 0

\* IsConfirmed: in the chain, or from here and so are all it rests on.
IsConfirmed(t) ==
    LET deep == {s \in wallet.txs : Depth(s) >= 1}
        Rests[n \in 0 .. Cardinality(wallet.sent)] ==
            IF n = 0 THEN deep
            ELSE Rests[n - 1] \cup {s \in wallet.sent : \A o \in Vin[s] : o[1] \in Rests[n - 1]}
    IN  t \in Rests[Cardinality(wallet.sent)]

AvailableCoins ==
    {o \in Mine \ wallet.vfSpent :
        /\ o[1] \in wallet.txs
        /\ IsConfirmed(o[1])
        /\ o[1] \in Minted => Depth(o[1]) >= WalletMaturity}

\* Altered: the transaction is not added to the wallet before its coins are flagged.
CommitTransaction_NotAdded(t) ==
    /\ wallet' = [wallet EXCEPT !.vfSpent = @ \cup Vin[t], !.sent = @ \cup {t}]
    /\ mempool' = IF Accepted(t) THEN addUnchecked(mempool, {t}) ELSE mempool

(***************************************************************************)
(* SendMoney: CreateTransaction picks coins and CommitTransaction records  *)
(* the transaction, flags its coins and puts it into the pool, under both  *)
(* locks.  The transaction may be refused by the pool; what was recorded   *)
(* stays.                                                                  *)
(***************************************************************************)
CommitTransaction(t) ==
    /\ wallet' = [AddToWallet(wallet, t, NoBlock) EXCEPT !.vfSpent = @ \cup Vin[t],
                                                         !.sent = @ \cup {t}]
    /\ mempool' = IF Accepted(t) THEN addUnchecked(mempool, {t}) ELSE mempool

SendMoney(t) ==
    /\ Ready
    /\ stage # "unloaded"
    /\ t \notin Minted \cup wallet.txs
    /\ Vin[t] \subseteq AvailableCoins
    /\ CommitTransaction(t)
    /\ UNCHANGED <<vars, orphans, work, bestblock, stage, repairs, misled, unheard>>
    /\ refunded' = Unsettled(refunded)

(***************************************************************************)
(* FixSpentCoins (repairwallet): the flags of the transactions that are in *)
(* the index become those of the index.                                    *)
(***************************************************************************)
FixSpentCoins ==
    LET indexed == {o \in Mine : o[1] \in wallet.txs /\ Confirmed(o[1])}
        spent   == {o \in indexed : dbTx.spent[o] # NoBlock}
    IN  [wallet EXCEPT !.vfSpent = (@ \ indexed) \cup spent]

RepairWallet ==
    /\ Ready
    /\ stage = "running"
    /\ repairs < MaxRepairs
    /\ repairs' = repairs + 1
    /\ wallet' = FixSpentCoins
    /\ UNCHANGED <<vars, txVars, bestblock, stage, misled, unheard>>
    /\ refunded' = Unsettled(refunded)

-----------------------------------------------------------------------------
(***************************************************************************)
(* A crash, and what AppInit2 does for the wallet after it.                *)
(***************************************************************************)
\* The wallet may have heard the first transactions of the block being connected.
HalfConnected ==
    {SyncTxs(wallet, Connecting, n, TRUE) : n \in 0 .. Len(Vtx[Connecting])}

CrashWallet ==
    /\ CrashNode
    /\ wallet' \in IF Registered /\ CanConnect THEN HalfConnected ELSE {wallet}
    /\ stage' = "unloaded"
    /\ misled' = (misled \/ pc = "reorg")
    /\ refunded' = Unsettled(refunded)
    /\ UNCHANGED <<bestblock, repairs, unheard>>

\* The locator's first block that is in the main chain, or else the genesis block.
RescanFrom ==
    LET common == {b \in Chain[bestblock] : IsInMainChain(b)}
    IN  IF common = {} THEN Genesis
        ELSE CHOOSE b \in common : \A c \in common : Height[c] <= Height[b]

\* The block of the best chain that is n blocks above b.
Above(b, n) == CHOOSE c \in Chain[pindexBest] : Height[c] = Height[b] + n

\* All blocks of the best chain from b on.
ScanForWalletTransactions(w, b, fUpdate) ==
    LET blocks == Height[pindexBest] - Height[b] + 1
        after[n \in 0 .. blocks] ==
            IF n = 0 THEN w
            ELSE SyncTxs(after[n - 1], Above(b, n - 1), Len(Vtx[Above(b, n - 1)]), fUpdate)
    IN  after[blocks]

Rescanned == IF Height[pindexBest] > Height[RescanFrom]
             THEN ScanForWalletTransactions(wallet, RescanFrom, TRUE) ELSE wallet

\* Step 8 of AppInit2.
LoadWallet ==
    /\ Ready
    /\ stage = "unloaded"
    /\ wallet' = Rescanned
    /\ stage' = "loaded"
    /\ UNCHANGED <<vars, txVars, bestblock, repairs, misled, unheard>>
    /\ refunded' = Unsettled(refunded)

\* Minted transactions whose first own output is flagged are passed over.
PassedOver(t) == \/ t \in Coinbase /\ <<t, 0>> \in wallet.vfSpent
                 \/ t \in CoinStake /\ <<t, 1>> \in wallet.vfSpent

(***************************************************************************)
(* ReacceptWalletTransactions, when the node has begun to take messages:   *)
(* what the index says is spent is flagged (and the whole chain scanned    *)
(* for the spender), what is not in the index goes back to the pool        *)
(* without a look at its inputs.  It reads records of the index, so it     *)
(* waits for an open database transaction that has written them.           *)
(***************************************************************************)
ReacceptWalletTransactions ==
    LET looked  == {t \in wallet.txs : ~PassedOver(t)}
        flagged == {o \in Mine \ wallet.vfSpent :
                       o[1] \in looked /\ Confirmed(o[1]) /\ dbTx.spent[o] # NoBlock}
        marked  == [wallet EXCEPT !.vfSpent = @ \cup flagged]
        again   == {t \in looked \ Minted : ~Confirmed(t)}
    IN  /\ Ready
        /\ stage = "loaded"
        /\ wallet' = IF flagged = {} THEN wallet
                     ELSE ScanForWalletTransactions(marked, Genesis, FALSE)
        /\ mempool' \in Resurrect(mempool, again)
        /\ stage' = "running"
        /\ UNCHANGED <<vars, orphans, work, bestblock, repairs, misled, unheard>>
        /\ refunded' = Unsettled(refunded)

WalletNext ==
    \/ ChainAndWallet
    \/ TxAndWallet
    \/ \E t \in Tx : SendMoney(t)
    \/ RepairWallet
    \/ CrashWallet \/ LoadWallet \/ ReacceptWalletTransactions

WalletSpec == WalletInit /\ [][WalletNext]_<<allTxVars, walletVars>>

-----------------------------------------------------------------------------
\* Every variable has its type, and a flag belongs to a transaction of the wallet.
WalletTypeOK ==
    /\ wallet \in [txs : SUBSET Tx, hashBlock : [Tx -> BlockOrNone],
                   vfSpent : SUBSET Mine, sent : SUBSET Tx]
    /\ \A o \in wallet.vfSpent : o[1] \in wallet.txs
    /\ wallet.sent \subseteq wallet.txs
    /\ bestblock \in mapBlockIndex
    /\ stage \in {"unloaded", "loaded", "running"}
    /\ repairs \in 0 .. MaxRepairs
    /\ refunded \subseteq Mine
    /\ misled \in BOOLEAN /\ unheard \in BOOLEAN

(***************************************************************************)
(* A coin of the wallet that the committed chain has spent is flagged, so  *)
(* it is not offered again, at every moment: in the middle of a reorganize *)
(* and after a crash between the wallet's write and the chain's commit.    *)
(* (Not the input of a coinstake that a reorganize has given back before   *)
(* its commit, and not after a checkpoint reset at start-up has connected  *)
(* blocks the wallet does not hear of.)                                    *)
(***************************************************************************)
SpentCoinsAreFlagged ==
    unheard \/ \A o \in Mine \ refunded : dbTx.spent[o] # NoBlock => o \in wallet.vfSpent

(***************************************************************************)
(* The wallet finds each of its confirmed transactions in the block that   *)
(* has it, so that its depth and the balance are right, also when the same *)
(* transaction is in blocks of two branches.  (A reorganize that fails may *)
(* leave it with the block of the other branch: SyncWithWallets is not     *)
(* undone.)                                                                *)
(***************************************************************************)
WalletKnowsItsBlocks ==
    pc # "reorg" /\ ~desynced /\ ~misled /\ ~unheard =>
        \A t \in Tx : IsMine(t) /\ Confirmed(t) =>
            t \in wallet.txs /\ wallet.hashBlock[t] = dbTx.pos[t]

(***************************************************************************)
(* No coin disappears: for every flag the wallet has a transaction that    *)
(* spends the coin.                                                        *)
(***************************************************************************)
FlaggedCoinsHaveSpender ==
    unheard \/ \A o \in wallet.vfSpent : \E t \in wallet.txs : o \in Vin[t]

(***************************************************************************)
(* The types, and both: the flags of the wallet are right in both directions. *)
(***************************************************************************)
FlagsAreRight == WalletTypeOK /\ SpentCoinsAreFlagged /\ FlaggedCoinsHaveSpender

(***************************************************************************)
(* A reorganize that takes a coinstake of the wallet out of the chain      *)
(* gives its input back, unless the new chain spends it.                   *)
(***************************************************************************)
CoinStakeIsRefunded ==
    [][CommitReorganize /\ Registered /\ ~desynced =>
          \A t \in CoinStake : Confirmed(t) /\ ~Confirmed(t)' =>
             \A o \in OwnInputs(wallet, t) :
                dbTx'.spent[o] = NoBlock => o \notin wallet'.vfSpent]_<<allTxVars, walletVars>>

(***************************************************************************)
(* CommitTransaction says of AcceptToMemoryPool, "This must not fail. The  *)
(* transaction has already been signed and recorded.": a transaction whose *)
(* coins AvailableCoins offers is accepted.                                *)
(***************************************************************************)
CommitMustNotFail ==
    [][\A t \in Tx : t \in wallet'.sent \ wallet.sent => t \in mempool'.mapTx]_<<allTxVars, walletVars>>

=============================================================================
