-------------------------------- MODULE TxPool --------------------------------
(***************************************************************************)
(* The memory pool (CTxMemPool) and the orphan transactions of one node,   *)
(* main.cpp, next to the best chain of module ChainState: transactions     *)
(* come from peers and from the node's own users, blocks take them out,    *)
(* and a reorganize puts those of the disconnected blocks back.            *)
(***************************************************************************)
EXTENDS ChainState

CONSTANTS
    NonStandard,    \* refused whoever sends them: IsStandard(), nLockTime
    Invalid,        \* refused once their inputs are known: signature, value, fee
    RateLimited,    \* free transactions, which the rate limiter may refuse
    Large,          \* serialized to more than 5000 bytes
    MaxOrphanTxs    \* MAX_ORPHAN_TRANSACTIONS

ASSUME PoolAssumption ==
    /\ NonStandard \subseteq Tx
    /\ Invalid \subseteq Tx
    /\ RateLimited \subseteq Tx
    /\ Large \subseteq Tx
    /\ MaxOrphanTxs \in Nat

VARIABLES
    mempool,        \* mapTx, the transactions of the pool, and mapNextTx, pairs
                    \* <<outpoint, the transaction of the pool that spends it>>
    mapOrphanTransactions,
    mapOrphanTransactionsByPrev,    \* [previous transaction -> its orphans]
    vWorkQueue,     \* the transactions accepted while one "tx" message is handled
    vEraseQueue,    \* what is to be erased from the orphans in the end
    at,             \* the loop tries the orphans of vWorkQueue[at]
    tried           \* and has passed these

orphans == <<mapOrphanTransactions, mapOrphanTransactionsByPrev>>
work    == <<vWorkQueue, vEraseQueue, at, tried>>
txVars  == <<mempool, orphans, work>>

EmptyPool == [mapTx |-> {}, mapNextTx |-> {}]
NoOrphans == [p \in {} |-> {}]

TxPoolInit ==
    /\ Init
    /\ mempool = EmptyPool
    /\ mapOrphanTransactions = {} /\ mapOrphanTransactionsByPrev = NoOrphans
    /\ vWorkQueue = << >> /\ vEraseQueue = {} /\ at = 1 /\ tried = {}

-----------------------------------------------------------------------------
(***************************************************************************)
(* CTxMemPool.  A pool m takes in transactions, loses them.                *)
(***************************************************************************)
addUnchecked(m, txs) ==
    [mapTx     |-> m.mapTx \cup txs,
     mapNextTx |-> {e \in m.mapNextTx : \A t \in txs : e[1] \notin Vin[t]}
                   \cup UNION {Vin[t] \X {t} : t \in txs}]

\* Altered: mapNextTx is cleaned for transactions that are not in the pool too.
remove_Always(m, txs) ==
    [mapTx     |-> m.mapTx \ txs,
     mapNextTx |-> {e \in m.mapNextTx : \A t \in txs : e[1] \notin Vin[t]}]

remove(m, txs) ==
    [mapTx     |-> m.mapTx \ txs,
     mapNextTx |-> {e \in m.mapNextTx : \A t \in txs \cap m.mapTx : e[1] \notin Vin[t]}]

\* The checks of accept that are made even when fCheckInputs is false.
Admissible(m, t) ==
    /\ t \notin Minted \cup NonStandard \cup m.mapTx
    /\ \A e \in m.mapNextTx : e[1] \notin Vin[t]

Confirmed(t) == dbTx.pos[t] # NoBlock

\* FetchInputs: a previous transaction is neither in the index nor in the pool.
MissingInputs(t) == \E o \in Vin[t] : ~Confirmed(o[1]) /\ o[1] \notin mempool.mapTx

Fresh(t) == Admissible(mempool, t) /\ ~Confirmed(t)

\* FetchInputs and ConnectInputs when all previous transactions are there.
InputsConnect(t) ==
    /\ t \notin Invalid
    /\ \A o \in Vin[t] :
          /\ o \in OutPoint
          /\ Confirmed(o[1]) => dbTx.spent[o] = NoBlock
          /\ Confirmed(o[1]) /\ o[1] \in Minted => ~Immature(pindexBest, dbTx.pos[o[1]])

(***************************************************************************)
(* accept with fCheckInputs returns true; false with *pfMissingInputs;     *)
(* false without.                                                          *)
(***************************************************************************)
Accepted(t) == Fresh(t) /\ ~MissingInputs(t) /\ InputsConnect(t)
Missing(t)  == Fresh(t) /\ MissingInputs(t)
Refused(t)  == ~Missing(t) /\ (Accepted(t) => t \in RateLimited)

-----------------------------------------------------------------------------
(***************************************************************************)
(* Orphan transactions.                                                    *)
(***************************************************************************)
PrevTxs(t) == {o[1] : o \in Vin[t]}

OrphansOf(p) == IF p \in DOMAIN mapOrphanTransactionsByPrev
                THEN mapOrphanTransactionsByPrev[p] ELSE {}

\* Altered: the entry under the first previous transaction only is erased.
WithoutOrphans_One(byPrev, txs) ==
    LET first == {CHOOSE p \in PrevTxs(t) : TRUE : t \in txs}
    IN  [p \in {q \in DOMAIN byPrev : q \in first => byPrev[q] \ txs # {}} |->
            IF p \in first THEN byPrev[p] \ txs ELSE byPrev[p]]

(***************************************************************************)
(* mapOrphanTransactionsByPrev after EraseOrphanTx of txs: an entry that   *)
(* becomes empty goes too, if an orphan was erased from it.                *)
(***************************************************************************)
WithoutOrphans(byPrev, txs) ==
    LET touched == UNION {PrevTxs(t) : t \in txs}
    IN  [p \in {q \in DOMAIN byPrev : q \in touched => byPrev[q] \ txs # {}} |-> byPrev[p] \ txs]

\* Altered: one orphan too many is allowed to stay.
TooMany_OneMore(txs) == Cardinality(txs) > MaxOrphanTxs + 1

TooMany(txs) == Cardinality(txs) > MaxOrphanTxs

-----------------------------------------------------------------------------
(***************************************************************************)
(* The "tx" message: the transaction, and the orphans that depend on it.   *)
(***************************************************************************)
Ready == pc = "idle" /\ vWorkQueue = << >>

ReceiveTx(t) ==
    /\ Ready
    /\ Accepted(t)
    /\ mempool' = addUnchecked(mempool, {t})
    /\ vWorkQueue' = <<t>>
    /\ vEraseQueue' = {t}
    /\ UNCHANGED <<vars, orphans, at, tried>>

\* There is one orphan too many at most, so LimitOrphanTxSize evicts one.
ReceiveOrphanTx(t) ==
    /\ Ready
    /\ Missing(t)
    /\ t \notin mapOrphanTransactions \cup Large
    /\ LET now == mapOrphanTransactions \cup {t}
           byPrev == [p \in DOMAIN mapOrphanTransactionsByPrev \cup PrevTxs(t) |->
                         OrphansOf(p) \cup {o \in {t} : p \in PrevTxs(t)}]
       IN  \E evicted \in IF TooMany(now) THEN {{o} : o \in now} ELSE {{}} :
              /\ mapOrphanTransactions' = now \ evicted
              /\ mapOrphanTransactionsByPrev' = WithoutOrphans(byPrev, evicted)
    /\ UNCHANGED <<vars, mempool, work>>

\* A child of the transaction whose turn it is.
TryOrphanTx(t) ==
    /\ vWorkQueue # << >>
    /\ t \in OrphansOf(vWorkQueue[at]) \ tried
    /\ tried' = tried \cup {t}
    /\ \/ /\ Accepted(t)
          /\ mempool' = addUnchecked(mempool, {t})
          /\ vWorkQueue' = Append(vWorkQueue, t)
          /\ vEraseQueue' = vEraseQueue \cup {t}
       \/ /\ Refused(t)
          /\ vEraseQueue' = vEraseQueue \cup {t}
          /\ UNCHANGED <<mempool, vWorkQueue>>
       \/ /\ Missing(t)
          /\ UNCHANGED <<mempool, vWorkQueue, vEraseQueue>>
    /\ UNCHANGED <<vars, orphans, at>>

\* mapOrphanTransactionsByPrev[hashPrev] in the loop makes an entry for hashPrev.
Looked(h) == [p \in DOMAIN mapOrphanTransactionsByPrev \cup {h} |-> OrphansOf(p)]

\* Altered: an orphan that was tried for one parent is not tried for the next.
Again_Not == tried

\* What has been tried when the next hash of the queue gets its turn.
Again == {}

\* All children of vWorkQueue[at] were tried; after the last hash orphans are erased.
NextTxHash ==
    LET h == vWorkQueue[at]
        erased == vEraseQueue \cap mapOrphanTransactions
    IN  /\ vWorkQueue # << >>
        /\ OrphansOf(h) \subseteq tried
        /\ IF at = Len(vWorkQueue)
           THEN /\ mapOrphanTransactions' = mapOrphanTransactions \ erased
                /\ mapOrphanTransactionsByPrev' = WithoutOrphans(Looked(h), erased)
                /\ vWorkQueue' = << >> /\ vEraseQueue' = {} /\ at' = 1 /\ tried' = {}
           ELSE /\ mapOrphanTransactionsByPrev' = Looked(h)
                /\ at' = at + 1
                /\ tried' = Again
                /\ UNCHANGED <<mapOrphanTransactions, vWorkQueue, vEraseQueue>>
        /\ UNCHANGED <<vars, mempool>>

(***************************************************************************)
(* sendrawtransaction and CommitTransaction: no orphan is looked at.       *)
(***************************************************************************)
SubmitTx(t) ==
    /\ Ready
    /\ Accepted(t)
    /\ mempool' = addUnchecked(mempool, {t})
    /\ UNCHANGED <<vars, orphans, work>>

-----------------------------------------------------------------------------
(***************************************************************************)
(* The pool and the best chain.  SetBestChainInner removes the             *)
(* transactions of the block it has connected.  Reorganize first accepts   *)
(* those of the disconnected blocks without a look at their inputs, then   *)
(* removes those of the connected ones.                                    *)
(***************************************************************************)
TxsOf(blocks) == UNION {Txs(b) : b \in blocks}

Conflict(s, t) == s # t /\ Vin[s] \cap Vin[t] # {}

(***************************************************************************)
(* vResurrect is accepted one by one: what gets in is as much as goes in   *)
(* without a conflict.  The order decides what that is only where two of   *)
(* them spend the same output, which they do not on a sound chain.         *)
(***************************************************************************)
Resurrect(m, txs) ==
    LET admissible == {t \in txs : Admissible(m, t)}
    IN  {addUnchecked(m, in) : in \in
            {x \in SUBSET admissible :
                /\ \A s, t \in x : ~Conflict(s, t)
                /\ \A t \in admissible \ x : \E s \in x : Conflict(s, t)}}

\* Altered: the connected transactions are removed before the others come back.
Reorganized_RemoveFirst(from, to) ==
    Resurrect(remove(mempool, TxsOf(Chain[to] \ Chain[from])), TxsOf(Chain[from] \ Chain[to]))

\* Altered: the transactions of the disconnected blocks are not put back.
Reorganized_NotResurrected(from, to) == {remove(mempool, TxsOf(Chain[to] \ Chain[from]))}

Reorganized(from, to) ==
    {remove(m, TxsOf(Chain[to] \ Chain[from])) :
        m \in Resurrect(mempool, TxsOf(Chain[from] \ Chain[to]))}

BlockStep ==
    /\ vWorkQueue = << >>
    /\ \/ ExtendBestChain  /\ mempool' = remove(mempool, Txs(goal))
       \/ CommitReorganize /\ mempool' \in Reorganized(pindexBest, mid)
       \/ ConnectSecondary /\ mempool' = remove(mempool, Txs(Toward(cur, goal)))
    /\ UNCHANGED <<orphans, work>>

\* Every other step of the chain leaves the pool alone.
OtherChainStep ==
    /\ vWorkQueue = << >>
    /\ Step \/ \E b \in Block : AcceptBlock(b) \/ ProcessSyncCheckpoint(b)
    /\ ~(ExtendBestChain \/ CommitReorganize \/ ConnectSecondary)
    /\ UNCHANGED txVars

\* All of it is in memory.
CrashNode ==
    /\ Crash
    /\ mempool' = EmptyPool
    /\ mapOrphanTransactions' = {} /\ mapOrphanTransactionsByPrev' = NoOrphans
    /\ vWorkQueue' = << >> /\ vEraseQueue' = {} /\ at' = 1 /\ tried' = {}

TxPoolNext ==
    \/ \E t \in Tx : ReceiveTx(t) \/ ReceiveOrphanTx(t) \/ SubmitTx(t) \/ TryOrphanTx(t)
    \/ NextTxHash
    \/ BlockStep \/ OtherChainStep \/ CrashNode

allTxVars == <<vars, txVars>>

TxPoolSpec == TxPoolInit /\ [][TxPoolNext]_allTxVars

-----------------------------------------------------------------------------
\* Every variable has its type; the orphans never outgrow MAX_ORPHAN_TRANSACTIONS.
TxPoolTypeOK ==
    /\ mempool \in [mapTx : SUBSET (Tx \ Minted), mapNextTx : SUBSET ((Tx \X Nat) \X Tx)]
    /\ mapOrphanTransactions \subseteq Tx
    /\ Cardinality(mapOrphanTransactions) <= MaxOrphanTxs
    /\ DOMAIN mapOrphanTransactionsByPrev \subseteq Tx
    /\ \A p \in DOMAIN mapOrphanTransactionsByPrev :
          mapOrphanTransactionsByPrev[p] \subseteq Tx
    /\ vWorkQueue \in Seq(Tx)
    /\ vEraseQueue \subseteq Tx
    /\ at \in 1 .. Len(vWorkQueue) \/ at = 1
    /\ tried \subseteq Tx

(***************************************************************************)
(* mapNextTx is exactly the inputs of the pool, so no two transactions of  *)
(* the pool spend the same output, through any number of blocks and        *)
(* reorganizes that take out and put back conflicting transactions.        *)
(***************************************************************************)
NextTxMatchesPool ==
    /\ mempool.mapNextTx = UNION {Vin[t] \X {t} : t \in mempool.mapTx}
    /\ \A s, t \in mempool.mapTx : s # t => Vin[s] \cap Vin[t] = {}

(***************************************************************************)
(* No transaction of the pool is in the best chain: what a block confirms  *)
(* leaves the pool at its commit, also when a reorganize disconnects the   *)
(* transaction on one branch and connects it on the other.                 *)
(***************************************************************************)
PoolOutsideChain == desynced \/ \A t \in mempool.mapTx : ~Confirmed(t)

(***************************************************************************)
(* A reorganize loses no transaction: what it takes out of the chain is in *)
(* the pool, or something in the pool or in the new chain spends one of    *)
(* its outputs.                                                            *)
(***************************************************************************)
DisconnectedStayKnown ==
    [][\A t \in Tx \ (Minted \cup NonStandard) :
          Confirmed(t) /\ ~Confirmed(t)' /\ ~desynced =>
             \/ t \in mempool'.mapTx
             \/ \E o \in Vin[t] : \/ o \in {e[1] : e \in mempool'.mapNextTx}
                                  \/ dbTx'.spent[o] # NoBlock]_allTxVars

(***************************************************************************)
(* The two orphan maps agree: an orphan is listed under each of its        *)
(* previous transactions, and what is listed is an orphan (a dangling      *)
(* pointer to its bytes otherwise).                                        *)
(***************************************************************************)
OrphanMapsAgree ==
    /\ \A t \in mapOrphanTransactions : \A p \in PrevTxs(t) : t \in OrphansOf(p)
    /\ \A p \in DOMAIN mapOrphanTransactionsByPrev :
          \A t \in mapOrphanTransactionsByPrev[p] :
             t \in mapOrphanTransactions /\ p \in PrevTxs(t)

(***************************************************************************)
(* Both: the maps of the pool and of its orphans say the same of every     *)
(* transaction (CTxMemPool, AddOrphanTx, EraseOrphanTx).                   *)
(***************************************************************************)
PoolMapsAgree == NextTxMatchesPool /\ OrphanMapsAgree

(***************************************************************************)
(* When the "tx" handler ends, no orphan that spends an output of a        *)
(* transaction it has accepted could be accepted too, however many parents *)
(* the orphan has and in whatever order they got in.                       *)
(***************************************************************************)
OrphansOfAcceptedAreTaken ==
    [][vWorkQueue # << >> /\ vWorkQueue' = << >> =>
          \A t \in mapOrphanTransactions' :
             (\E i \in DOMAIN vWorkQueue : vWorkQueue[i] \in PrevTxs(t)) => ~Accepted(t)']_allTxVars

(***************************************************************************)
(* What CreateNewBlock says of the pool, "all transactions in the memory   *)
(* pool should connect to either transactions in the chain or other        *)
(* transactions in the memory pool" (and asserts under -debug).            *)
(***************************************************************************)
PoolConnects ==
    pc = "idle" => \A t \in mempool.mapTx : \A p \in PrevTxs(t) :
                      Confirmed(p) \/ p \in mempool.mapTx

=============================================================================
