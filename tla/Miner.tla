--------------------------------- MODULE Miner ---------------------------------
(***************************************************************************)
(* The node's own blocks: a miner thread (BitcoinMiner, CreateNewBlock,    *)
(* IncrementExtraNonce, CheckWork of main.cpp) and the "getwork" call of   *)
(* rpcmining.cpp, next to the chain and the memory pool of module TxPool.  *)
(*                                                                         *)
(* The miner thread reads pindexBest three times for one block: twice      *)
(* without a lock, for the height in the coinbase and for the target, and  *)
(* once under cs_main, for the parent and the transactions.  An RPC call   *)
(* holds cs_main from beginning to end.                                    *)
(***************************************************************************)
EXTENDS TxPool

CONSTANTS
    OwnBlock,       \* the blocks with a coinbase that pays to this node
    NextTarget,     \* [block -> GetNextTargetRequired() of a child of it]
    MaxBlockTxs,    \* what fits into nBlockMaxSize, in transactions
    MaxWork         \* bound on the blocks that "getwork" has handed out

ASSUME MinerAssumption ==
    /\ OwnBlock \subseteq Block
    /\ NextTarget \in [Block -> Nat]
    /\ MaxBlockTxs \in Nat
    /\ MaxWork \in Nat

VARIABLES
    miner,          \* where the miner thread is
    pindexPrev,     \* BitcoinMiner: pindexBest before CreateNewBlock
    bitsPrev,       \* CreateNewBlock: pindexBest before the lock is taken
    coinstake,      \* <<the transaction of CreateCoinStake>>, or empty
    template,       \* the block: [hashPrevBlock, vtx without the coinbase]
    workPrev,       \* getwork: the static pindexPrev
    mapNewBlock,    \* getwork: the blocks handed out
    solved          \* the block CheckWork gives to ProcessBlock, or NoBlock

thread    == <<miner, pindexPrev, bitsPrev, coinstake, template>>
getwork   == <<workPrev, mapNewBlock>>
minerVars == <<thread, getwork, solved>>

NoTemplate == [hashPrevBlock |-> NoBlock, vtx |-> << >>]

MinerInit ==
    /\ TxPoolInit
    /\ miner = "off"
    /\ pindexPrev = NoBlock /\ bitsPrev = NoBlock
    /\ coinstake = << >> /\ template = NoTemplate
    /\ workPrev = NoBlock /\ mapNewBlock = {}
    /\ solved = NoBlock

\* Nobody holds cs_main.
LockFree == Ready /\ solved = NoBlock

-----------------------------------------------------------------------------
(***************************************************************************)
(* CreateNewBlock.                                                         *)
(***************************************************************************)
\* Altered: the miner takes an output that the index says is spent.
Takes_SpentAgain(vtx, i, o) ==
    /\ o \in OutPoint
    /\ Confirmed(o[1]) \/ o[1] \in {vtx[j] : j \in 1 .. i - 1}

(***************************************************************************)
(* FetchInputs and ConnectInputs with fMiner for input o of vtx[i]: what   *)
(* the transactions before it have created and spent is in mapTestPool,    *)
(* the rest in the index.                                                  *)
(***************************************************************************)
Takes(vtx, i, o) ==
    /\ o \in OutPoint
    /\ o[1] \in {vtx[j] : j \in 1 .. i - 1} \/ (Confirmed(o[1]) /\ dbTx.spent[o] = NoBlock)
    /\ \A j \in 1 .. i - 1 : o \notin Vin[vtx[j]]
    /\ o[1] \in Minted => ~Immature(pindexBest, dbTx.pos[o[1]])

(***************************************************************************)
(* The lists of transactions CreateNewBlock can take from the pool: one    *)
(* that waits for others of the pool comes after them (mapDependers), and  *)
(* one with an input that is nowhere is left out; Takes takes none twice.  *)
(* Fees, sizes, times and priorities, which decide what else is left out,  *)
(* and the order are a                                                     *)
(* free choice.  An input that is nowhere can leave a pointer to a freed   *)
(* COrphan in mapDependers; what is read there can put its transaction     *)
(* into the queue again, where FetchInputs refuses it.                     *)
(***************************************************************************)
Collected ==
    {vtx \in UNION {[1 .. n -> mempool.mapTx \ Invalid] : n \in 0 .. MaxBlockTxs} :
        \A i \in DOMAIN vtx : \A o \in Vin[vtx[i]] : Takes(vtx, i, o)}

\* Under the lock pindexBest is read anew; a coinstake comes first.
NewBlocks(stake) ==
    {[hashPrevBlock |-> pindexBest, vtx |-> stake \o vtx] : vtx \in Collected}

(***************************************************************************)
(* Block b is the template t with height in its coinbase and a proof.      *)
(***************************************************************************)
Solves(b, t, height) ==
    /\ Prev[b] = t.hashPrevBlock
    /\ Tail(Vtx[b]) = t.vtx
    /\ CoinbaseHeight[Head(Vtx[b])] = height

\* Altered: work is submitted though the best block is another one.
IsStale_Never(b) == FALSE

IsStale(b) == Prev[b] # pindexBest

(***************************************************************************)
(* CheckWork under cs_main.  A block that is stale or has a target that is *)
(* not the one of its parent changes nothing; ProcessBlock accepts it or   *)
(* not like one from a peer.                                               *)
(***************************************************************************)
CheckWorkAccepts(b, bits) == ~IsStale(b) /\ bits = NextTarget[Prev[b]] /\ Accepts(b)

CheckWork(b, bits) ==
    IF CheckWorkAccepts(b, bits)
    THEN AcceptBlock(b) /\ solved' = b /\ UNCHANGED txVars
    ELSE UNCHANGED <<allTxVars, solved>>

-----------------------------------------------------------------------------
(***************************************************************************)
(* The miner thread.                                                       *)
(***************************************************************************)
\* Altered: the block outlives its turn of the loop.
DropsBlock_Keeps == pindexPrev' = NoBlock /\ bitsPrev' = NoBlock /\ coinstake' = << >> /\ UNCHANGED template

\* The auto_ptr of the block and the locals of this turn of the loop go.
DropsBlock == pindexPrev' = NoBlock /\ bitsPrev' = NoBlock /\ coinstake' = << >> /\ template' = NoTemplate

MinerStarts ==
    /\ miner = "off"
    /\ LockFree
    /\ miner' = "read"
    /\ UNCHANGED <<allTxVars, pindexPrev, bitsPrev, coinstake, template, getwork, solved>>

\* BitcoinMiner: pindexPrev = pindexBest, without the lock.
ReadBest ==
    /\ miner = "read"
    /\ pindexPrev' = pindexBest
    /\ miner' = "bits"
    /\ UNCHANGED <<allTxVars, bitsPrev, coinstake, template, getwork, solved>>

\* CreateNewBlock: pindexPrev = pindexBest, without the lock.
ReadForTarget ==
    /\ miner = "bits"
    /\ bitsPrev' = pindexBest
    /\ miner' = "collect"
    /\ UNCHANGED <<allTxVars, pindexPrev, coinstake, template, getwork, solved>>

(***************************************************************************)
(* CreateCoinStake: an output of the wallet that is confirmed, mature and  *)
(* unspent, in the chain and by the pool.  The locks are given back before *)
(* the transactions are collected.                                         *)
(***************************************************************************)
CreateCoinStake(t) ==
    /\ miner = "collect"
    /\ LockFree
    /\ coinstake = << >>
    /\ \A o \in Vin[t] :
          /\ o \in OutPoint
          /\ Confirmed(o[1]) /\ dbTx.spent[o] = NoBlock
          /\ o \notin {e[1] : e \in mempool.mapNextTx}
          /\ o[1] \in Minted => ~Immature(pindexBest, dbTx.pos[o[1]])
    /\ coinstake' = <<t>>
    /\ UNCHANGED <<allTxVars, miner, pindexPrev, bitsPrev, template, getwork, solved>>

\* The part of CreateNewBlock under the lock, and IncrementExtraNonce.
CreateNewBlock ==
    /\ miner = "collect"
    /\ LockFree
    /\ template' \in NewBlocks(coinstake)
    /\ miner' = "search"
    /\ UNCHANGED <<allTxVars, pindexPrev, bitsPrev, coinstake, getwork, solved>>

\* A proof is found or the coinstake signed, for the height after pindexPrev.
Solve(b) ==
    /\ miner = "search"
    /\ LockFree
    /\ Solves(b, template, Height[pindexPrev] + 1)
    /\ CheckWork(b, NextTarget[bitsPrev])
    /\ miner' = IF solved' = b THEN "submitted" ELSE "read"
    /\ DropsBlock
    /\ UNCHANGED getwork

\* Altered: the loop looks at the height of the best block only.
Outdated_ByHeight == Height[pindexPrev] # Height[pindexBest]

\* The test of the search loop for a new best block.
Outdated == pindexPrev # pindexBest

LeavesSearch ==
    /\ miner = "search"
    /\ miner' = "read"
    /\ DropsBlock
    /\ UNCHANGED <<allTxVars, getwork, solved>>

NoticesNewBest == miner = "search" /\ Outdated /\ LeavesSearch

(***************************************************************************)
(* The nonces, the time of the coinbase or the peers ran out, transactions *)
(* came in a minute ago, or the block could not be signed.                 *)
(***************************************************************************)
RunsOut == LeavesSearch

-----------------------------------------------------------------------------
(***************************************************************************)
(* getwork without data: a new block when there is a new best block (the   *)
(* old ones are deleted) or new transactions, the last one otherwise.      *)
(***************************************************************************)
\* Altered: the blocks of the last best block are kept.
Kept_All == mapNewBlock

\* The blocks that stay when a new one is made.
Kept == IF workPrev # pindexBest THEN {} ELSE mapNewBlock

GetWork ==
    /\ LockFree
    /\ \E t \in NewBlocks(<< >>) : mapNewBlock' = Kept \cup {t}
    /\ Cardinality(mapNewBlock') <= MaxWork
    /\ workPrev' = pindexBest
    /\ UNCHANGED <<allTxVars, thread, solved>>

\* getwork with data: what was handed out comes back solved.
SubmitWork(b) ==
    /\ LockFree
    /\ \E t \in mapNewBlock : Solves(b, t, Height[workPrev] + 1)
    /\ CheckWork(b, NextTarget[workPrev])
    /\ UNCHANGED <<thread, getwork>>

\* ProcessBlock returns to CheckWork, and cs_main is free again.
ProcessBlockReturns ==
    /\ solved # NoBlock
    /\ pc = "idle"
    /\ solved' = NoBlock
    /\ miner' = IF miner = "submitted" THEN "read" ELSE miner
    /\ UNCHANGED <<allTxVars, pindexPrev, bitsPrev, coinstake, template, getwork>>

-----------------------------------------------------------------------------
\* All the others: the message thread, users, the chain's steps in any thread.
\* Nobody else makes the node's own blocks.
NodeStep ==
    /\ TxPoolNext
    /\ crashes' = crashes
    /\ solved = NoBlock \/ pc # "idle"
    /\ OwnBlock \cap mapBlockIndex' \subseteq mapBlockIndex
    /\ UNCHANGED minerVars

CrashMiner ==
    /\ CrashNode
    /\ miner' = "off"
    /\ DropsBlock
    /\ workPrev' = NoBlock /\ mapNewBlock' = {} /\ solved' = NoBlock

MinerNext ==
    \/ MinerStarts \/ ReadBest \/ ReadForTarget \/ CreateNewBlock
    \/ NoticesNewBest \/ RunsOut
    \/ \E t \in CoinStake : CreateCoinStake(t)
    \/ GetWork \/ ProcessBlockReturns
    \/ \E b \in OwnBlock : Solve(b) \/ SubmitWork(b)
    \/ NodeStep \/ CrashMiner

allMinerVars == <<allTxVars, minerVars>>

MinerSpec == MinerInit /\ [][MinerNext]_allMinerVars

-----------------------------------------------------------------------------
Template == [hashPrevBlock : Block, vtx : Seq(Tx)]

\* Every variable has its type, and belongs to where the thread is.
MinerTypeOK ==
    /\ miner \in {"off", "read", "bits", "collect", "search", "submitted"}
    /\ pindexPrev \in mapBlockIndex <=> miner \in {"bits", "collect", "search"}
    /\ bitsPrev \in mapBlockIndex <=> miner \in {"collect", "search"}
    /\ coinstake \in {<< >>} \cup {<<t>> : t \in CoinStake}
    /\ template \in Template <=> miner = "search"
    /\ mapNewBlock \subseteq Template
    /\ Cardinality(mapNewBlock) <= MaxWork
    /\ solved \in mapBlockIndex \cup {NoBlock}
    /\ miner = "submitted" => solved # NoBlock

\* The blocks somebody is at work on.
AtWork == mapNewBlock \cup (IF miner = "search" THEN {template} ELSE {})

\* A transaction of the pool spends what the coinstake of t spends.
StakeTaken(t) ==
    \E i, j \in DOMAIN t.vtx : /\ i # j
                               /\ t.vtx[i] \in CoinStake
                               /\ Vin[t.vtx[i]] \cap Vin[t.vtx[j]] # {}

\* ConnectBlock takes the i-th of some transactions on index ix, in the block after tip.
ConnectsAfter(vtx, i, ix, tip) ==
    /\ NoOverwrite(vtx[i], ix)
    /\ \A o \in Vin[vtx[i]] :
          /\ o \in OutPoint
          /\ \/ ix.pos[o[1]] # NoBlock /\ ix.spent[o] = NoBlock
             \/ o[1] \in {vtx[j] : j \in 1 .. i - 1}
          /\ \A j \in 1 .. i - 1 : o \notin Vin[vtx[j]]
          /\ o[1] \in Minted =>
                /\ ix.pos[o[1]] # NoBlock
                /\ Height[tip] + 1 - Height[ix.pos[o[1]]] >= CoinbaseMaturity

\* No storage operation has failed and no checkpoint has moved the best chain.
OnlyBlocksMove == hashSyncCheckpoint = Genesis /\ faults = 0

(***************************************************************************)
(* Work is never lost on transactions: as long as the parent is the best   *)
(* block, what CreateNewBlock has put together passes the tests of         *)
(* ConnectBlock, though the pool keeps conflicts with the chain, outputs   *)
(* that a reorganize took away and chains of its own, and whatever comes   *)
(* and goes meanwhile.  The exception is the coinstake, made before the    *)
(* lock is taken: the pool may have spent its output since, and it fits    *)
(* the chain only if the best block read for the target still is the best. *)
(***************************************************************************)
TemplateConnects ==
    pc = "idle" /\ ~desynced =>
        \A t \in AtWork : t.hashPrevBlock = pindexBest /\ ~StakeTaken(t) =>
            \A i \in DOMAIN t.vtx :
                (t.vtx[i] \in CoinStake => bitsPrev = pindexBest /\ OnlyBlocksMove)
                => ConnectsAfter(t.vtx, i, dbTx, pindexBest)

\* The output that the coinstake of b spends was spent meanwhile, or went away.
StakeIsLost(b) ==
    \E i \in DOMAIN Tail(Vtx[b]) :
        /\ Tail(Vtx[b])[i] \in CoinStake
        /\ \/ ~ConnectsAfter(Tail(Vtx[b]), i, IndexOf(Prev[b]), Prev[b])
           \/ \E j \in DOMAIN Tail(Vtx[b]) \ {i} : Vin[Tail(Vtx[b])[i]] \cap Vin[Tail(Vtx[b])[j]] # {}

(***************************************************************************)
(* A block of its own that a node accepts is on its best chain when        *)
(* CheckWork returns, whatever was in the pool, however the chain moved    *)
(* and whoever else was at work, unless its coinstake was lost meanwhile,  *)
(* the pending checkpoint leads elsewhere or a storage operation failed.   *)
(***************************************************************************)
SolvedBlockIsBest ==
    solved # NoBlock /\ pc = "idle" /\ ~desynced /\ faults = 0 =>
        \/ solved \in Chain[pindexBest]
        \/ hashSyncCheckpoint \notin Chain[solved]
        \/ StakeIsLost(solved)

(***************************************************************************)
(* The search loop compares pindexPrev, an earlier read than the one the   *)
(* block is built on.  It still notices each new best block, unless the    *)
(* best chain went back to one with less trust.  (Two checkpoints in a row *)
(* can lead it back to the block of the first read.)                       *)
(***************************************************************************)
StaleTemplateIsNoticed ==
    miner = "search" /\ template.hashPrevBlock # pindexBest /\ OnlyBlocksMove =>
        Outdated \/ ChainTrust[pindexBest] < ChainTrust[template.hashPrevBlock]

(***************************************************************************)
(* Everything "getwork" has handed out and still takes back is built on    *)
(* the block whose height goes into its coinbase, and was not deleted.     *)
(***************************************************************************)
WorkIsOnWorkPrev == \A t \in mapNewBlock : t.hashPrevBlock = workPrev

(***************************************************************************)
(* The types, and that: what the thread and getwork hold belongs together. *)
(***************************************************************************)
WorkIsWhole == MinerTypeOK /\ WorkIsOnWorkPrev

(***************************************************************************)
(* What IncrementExtraNonce says of the coinbase: "Height first in         *)
(* coinbase required for block.version=2", the height of the block.        *)
(***************************************************************************)
MinedHeightIsRight ==
    miner = "search" => Height[pindexPrev] = Height[template.hashPrevBlock]

=============================================================================
