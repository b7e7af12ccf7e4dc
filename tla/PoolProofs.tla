----------------------------- MODULE PoolProofs ------------------------------
(***************************************************************************)
(* Proofs about the memory pool and what stands on it, for every block     *)
(* tree, transactions and bounds.                                          *)
(*                                                                         *)
(* TxPool: the pool keeps its two maps in step and out of the best chain,  *)
(* loses no transaction in a reorganize, and the orphan maps stay right,   *)
(* whatever blocks and transactions there are and in whatever order they   *)
(* arrive.  Wallet: it hears of transactions one by one, before or after   *)
(* the chain has them, and flags coins as it hears; what it says of the    *)
(* committed chain is right all the same.  Miner: a step of the node's own *)
(* blocks is a step of TxPool, so the chain and the pool keep what their   *)
(* modules promise, and what is being worked on stays whole.               *)
(***************************************************************************)
EXTENDS Miner, Wallet, ChainStateProofs, FiniteSetTheorems

-----------------------------------------------------------------------------
(***************************************************************************)
(* A step of the pool is a step of the best chain or leaves it alone.      *)
(***************************************************************************)
LEMMA TxPoolStepIsChainStep == [TxPoolNext]_allTxVars => [Next]_vars
<1> SUFFICES ASSUME [TxPoolNext]_allTxVars PROVE [Next]_vars
  OBVIOUS
<1>1. ASSUME NEW t \in Tx, ReceiveTx(t) \/ ReceiveOrphanTx(t) \/ SubmitTx(t) \/ TryOrphanTx(t)
      PROVE  UNCHANGED vars
  BY <1>1 DEF ReceiveTx, ReceiveOrphanTx, SubmitTx, TryOrphanTx
<1>2. CASE NextTxHash
  BY <1>2 DEF NextTxHash
<1>3. CASE BlockStep
  BY <1>3 DEF BlockStep, Next, Step
<1>4. CASE OtherChainStep
  BY <1>4 DEF OtherChainStep, Next
<1>5. CASE CrashNode
  BY <1>5 DEF CrashNode, Next
<1>6. CASE UNCHANGED allTxVars
  BY <1>6 DEF allTxVars
<1> QED
  BY <1>1, <1>2, <1>3, <1>4, <1>5, <1>6 DEF TxPoolNext

(***************************************************************************)
(* The memory pool never gets in the way of the best chain: with it the    *)
(* node still does what module ChainState allows, and no more.             *)
(***************************************************************************)
THEOREM TxPoolImplementsChain == TxPoolSpec => Spec
<1>1. TxPoolInit => Init
  BY DEF TxPoolInit
<1> QED
  BY <1>1, TxPoolStepIsChainStep, PTL DEF TxPoolSpec, Spec

-----------------------------------------------------------------------------
(***************************************************************************)
(* CTxMemPool: addUnchecked of transactions that were found admissible,    *)
(* and remove of any, keep mapNextTx the inputs of mapTx.                  *)
(***************************************************************************)
NextTxMatches(m) ==
    /\ m.mapNextTx = UNION {Vin[t] \X {t} : t \in m.mapTx}
    /\ \A s, t \in m.mapTx : ~Conflict(s, t)

LEMMA InputPairs ==
  ASSUME NEW T, NEW e
  PROVE  e \in UNION {Vin[t] \X {t} : t \in T} <=> \E t \in T : \E o \in Vin[t] : e = <<o, t>>
OBVIOUS

LEMMA AddKeepsMatch ==
  ASSUME NEW m, NextTxMatches(m), NEW in,
         \A t \in in : Admissible(m, t),
         \A s, t \in in : ~Conflict(s, t)
  PROVE  NextTxMatches(addUnchecked(m, in))
<1> DEFINE n == addUnchecked(m, in)
<1>1. n.mapTx = m.mapTx \cup in
  BY DEF addUnchecked
<1>2. \A t \in in : \A e \in m.mapNextTx : e[1] \notin Vin[t]
  BY DEF Admissible
<1>3. n.mapNextTx = m.mapNextTx \cup UNION {Vin[t] \X {t} : t \in in}
  BY <1>2 DEF addUnchecked
<1>4. n.mapNextTx = UNION {Vin[t] \X {t} : t \in n.mapTx}
  BY <1>1, <1>3 DEF NextTxMatches
<1>5. ASSUME NEW s \in m.mapTx, NEW t \in in PROVE ~Conflict(s, t) /\ ~Conflict(t, s)
  <2>1. \A o \in Vin[s] : <<o, s>> \in m.mapNextTx
    BY InputPairs DEF NextTxMatches
  <2> QED
    BY <2>1, <1>2 DEF Conflict
<1> QED
  BY <1>1, <1>4, <1>5 DEF NextTxMatches

LEMMA RemoveKeepsMatch ==
  ASSUME NEW m, NextTxMatches(m), NEW out
  PROVE  NextTxMatches(remove(m, out))
<1> DEFINE n == remove(m, out)
<1>1. n.mapTx = m.mapTx \ out
  BY DEF remove
<1>2. n.mapNextTx = {e \in m.mapNextTx : \A t \in out \cap m.mapTx : e[1] \notin Vin[t]}
  BY DEF remove
<1>3. ASSUME NEW t \in m.mapTx, NEW o \in Vin[t]
      PROVE  (\A s \in out \cap m.mapTx : o \notin Vin[s]) <=> t \notin out
  BY <1>3 DEF NextTxMatches, Conflict
<1>4. ASSUME NEW e PROVE e \in n.mapNextTx <=> \E t \in n.mapTx : \E o \in Vin[t] : e = <<o, t>>
  <2>1. e \in m.mapNextTx <=> \E t \in m.mapTx : \E o \in Vin[t] : e = <<o, t>>
    BY InputPairs DEF NextTxMatches
  <2>2. ASSUME NEW t \in m.mapTx, NEW o \in Vin[t], e = <<o, t>>
        PROVE  e \in n.mapNextTx <=> t \in n.mapTx
    BY <2>1, <2>2, <1>1, <1>2, <1>3
  <2>3. CASE e \in m.mapNextTx
    <3>1. PICK t \in m.mapTx : \E o \in Vin[t] : e = <<o, t>>
      BY <2>1, <2>3
    <3>2. \A s : (\E o \in Vin[s] : e = <<o, s>>) => s = t
      BY <3>1
    <3> QED
      BY <3>1, <3>2, <2>2
  <2>4. CASE e \notin m.mapNextTx
    BY <2>1, <2>4, <1>1, <1>2
  <2> QED
    BY <2>3, <2>4
<1>5. n.mapNextTx = UNION {Vin[t] \X {t} : t \in n.mapTx}
  BY <1>4, InputPairs
<1> QED
  BY <1>1, <1>5 DEF NextTxMatches

-----------------------------------------------------------------------------
(***************************************************************************)
(* mapNextTx is the inputs of mapTx.                                       *)
(***************************************************************************)
LEMMA NextTxInit == TxPoolInit => NextTxMatchesPool
BY DEF TxPoolInit, EmptyPool, NextTxMatchesPool

LEMMA NextTxStep == NextTxMatchesPool /\ [TxPoolNext]_allTxVars => NextTxMatchesPool'
<1> SUFFICES ASSUME NextTxMatchesPool, [TxPoolNext]_allTxVars PROVE NextTxMatchesPool'
  OBVIOUS
<1>a. NextTxMatches(mempool)
  BY DEF NextTxMatchesPool, NextTxMatches, Conflict
<1>b. SUFFICES NextTxMatches(mempool')
  BY DEF NextTxMatchesPool, NextTxMatches, Conflict
<1>c. ASSUME NEW t, Accepted(t) PROVE NextTxMatches(addUnchecked(mempool, {t}))
  <2>1. Admissible(mempool, t) /\ ~Conflict(t, t)
    BY <1>c DEF Accepted, Fresh, Conflict
  <2> QED
    BY <1>a, <2>1, AddKeepsMatch
<1>1. ASSUME NEW t \in Tx, ReceiveTx(t) \/ SubmitTx(t) \/ TryOrphanTx(t)
      PROVE  NextTxMatches(mempool')
  BY <1>1, <1>a, <1>c DEF ReceiveTx, SubmitTx, TryOrphanTx
<1>2. ASSUME NEW t \in Tx, ReceiveOrphanTx(t) PROVE NextTxMatches(mempool')
  BY <1>2, <1>a DEF ReceiveOrphanTx
<1>3. CASE NextTxHash
  BY <1>3, <1>a DEF NextTxHash
<1>4. CASE BlockStep
  <2>1. CASE CommitReorganize /\ mempool' \in Reorganized(pindexBest, mid)
    <3>1. PICK m \in Resurrect(mempool, TxsOf(Chain[pindexBest] \ Chain[mid])) :
             mempool' = remove(m, TxsOf(Chain[mid] \ Chain[pindexBest]))
      BY <2>1 DEF Reorganized
    <3>2. NextTxMatches(m)
      BY <1>a, AddKeepsMatch DEF Resurrect
    <3> QED
      BY <3>1, <3>2, RemoveKeepsMatch
  <2> QED
    BY <1>4, <1>a, <2>1, RemoveKeepsMatch DEF BlockStep
<1>5. CASE OtherChainStep
  BY <1>5, <1>a DEF OtherChainStep, txVars
<1>6. CASE CrashNode
  BY <1>6 DEF CrashNode, EmptyPool, NextTxMatches
<1>7. CASE UNCHANGED allTxVars
  BY <1>7, <1>a DEF allTxVars, txVars
<1> QED
  BY <1>1, <1>2, <1>3, <1>4, <1>5, <1>6, <1>7 DEF TxPoolNext

(***************************************************************************)
(* mapNextTx is the inputs of mapTx and no two transactions of the pool    *)
(* spend the same output, for every block tree and every set of            *)
(* transactions (CTxMemPool, Reorganize).                                  *)
(***************************************************************************)
THEOREM NextTxIsRight == TxPoolSpec => []NextTxMatchesPool
  BY NextTxInit, NextTxStep, PTL DEF TxPoolSpec

-----------------------------------------------------------------------------
(***************************************************************************)
(* The pool and the best chain.                                            *)
(***************************************************************************)
\* Only the three commits of SetBestChain change the transaction index.
LEMMA OthersKeepIndex ==
  ASSUME Step \/ \E b \in Block : AcceptBlock(b) \/ ProcessSyncCheckpoint(b),
         ~(ExtendBestChain \/ CommitReorganize \/ ConnectSecondary)
  PROVE  UNCHANGED <<dbTx, dbBest>> /\ (desynced => desynced')
<1>1. ASSUME NEW b \in Block, AcceptBlock(b) \/ ProcessSyncCheckpoint(b)
      PROVE  UNCHANGED <<dbTx, dbBest>> /\ (desynced => desynced')
  BY <1>1 DEF AcceptBlock, ProcessSyncCheckpoint, db, history
<1>2. CASE Step
  <2>1. CASE SetBestChainFails \/ StartReorganize \/ DisconnectStep \/ ConnectStep \/ ReorganizeFails
    BY <2>1 DEF SetBestChainFails, StartReorganize, DisconnectStep, ConnectStep, ReorganizeFails,
                TxnAbort, db, history
  <2>2. CASE SecondaryFails \/ FinishSetBestChain \/ AcceptPendingSyncCheckpoint
    BY <2>2 DEF SecondaryFails, FinishSetBestChain, AcceptPendingSyncCheckpoint, db, history
  <2>3. CASE WriteSyncCheckpoint \/ WriteSyncCheckpointFails \/ ResetSyncCheckpoint
             \/ LoadBlockIndex \/ CheckMasterKey
    BY <2>3 DEF WriteSyncCheckpoint, WriteSyncCheckpointFails, ResetSyncCheckpoint,
                LoadBlockIndex, CheckMasterKey, db, history
  <2> QED
    BY <1>2, <2>1, <2>2, <2>3 DEF Step
<1> QED
  BY <1>1, <1>2

\* What connecting b confirms is what was confirmed and the transactions of b.
LEMMA ConnectConfirms ==
  ASSUME NEW b, NEW ix, NEW t \in Tx, ConnectBlock(b, ix).pos[t] # NoBlock
  PROVE  t \in Txs(b) \/ ix.pos[t] # NoBlock
BY DEF ConnectBlock

\* In the index of a sound chain a transaction is confirmed iff the chain has it.
LEMMA ConfirmedOnChain ==
  ASSUME NEW tip \in Block, SoundChain(tip), NEW t \in Tx
  PROVE  IndexOf(tip).pos[t] # NoBlock <=> \E b \in Chain[tip] : t \in Txs(b)
<1>1. IndexOf(tip).pos[t] = BlockOf(t, tip)
  BY DEF IndexOf
<1>2. \A b \in Chain[tip] : b # NoBlock
  BY ChainEnds, BlockAssumption
<1> QED
  BY <1>1, <1>2, IndexOfSoundChain

(***************************************************************************)
(* Reorganize moves the index from one sound chain to another.  What it    *)
(* confirms in the end was confirmed before, on the common part of the     *)
(* chains, or it is in a connected block.                                  *)
(***************************************************************************)
LEMMA ReorganizeChains ==
  ASSUME TypeOK, IndexFollowsChain, ~desynced, CommitReorganize
  PROVE  /\ pindexBest \in Block /\ mid \in Block
         /\ dbTx = IndexOf(pindexBest) /\ SoundChain(pindexBest)
         /\ dbTx' = IndexOf(mid) /\ SoundChain(mid)
<1>1. pindexBest = dbBest /\ Follows(dbTx, dbBest) /\ Follows(txnTx, cur)
  BY DEF CommitReorganize, IndexFollowsChain
<1>2. dbTx' = txnTx /\ cur = mid
  BY DEF CommitReorganize, TxnCommit
<1> QED
  BY <1>1, <1>2 DEF Follows, TypeOK

LEMMA ReorganizeConfirms ==
  ASSUME TypeOK, IndexFollowsChain, ~desynced, CommitReorganize, NEW t \in Tx
  PROVE  /\ dbTx'.pos[t] # NoBlock =>
              \/ t \in TxsOf(Chain[mid] \ Chain[pindexBest])
              \/ dbTx.pos[t] # NoBlock /\ t \notin TxsOf(Chain[pindexBest] \ Chain[mid])
         /\ dbTx.pos[t] # NoBlock /\ dbTx'.pos[t] = NoBlock =>
              t \in TxsOf(Chain[pindexBest] \ Chain[mid])
<1> DEFINE from == pindexBest
           to == mid
<1>1. dbTx.pos[t] # NoBlock <=> \E b \in Chain[from] : t \in Txs(b)
  BY ReorganizeChains, ConfirmedOnChain
<1>2. dbTx'.pos[t] # NoBlock <=> \E b \in Chain[to] : t \in Txs(b)
  BY ReorganizeChains, ConfirmedOnChain
<1>3. \A a, c \in Chain[from] : t \in Txs(a) /\ t \in Txs(c) => a = c
  BY ReorganizeChains, SoundBlocks
<1> QED
  BY <1>1, <1>2, <1>3 DEF TxsOf

LEMMA OutsideInit == TxPoolInit => PoolOutsideChain
BY DEF TxPoolInit, EmptyPool, PoolOutsideChain

LEMMA OutsideStep ==
  TypeOK /\ IndexFollowsChain /\ PoolOutsideChain /\ mempool.mapTx \subseteq Tx
    /\ [TxPoolNext]_allTxVars => PoolOutsideChain'
<1> SUFFICES ASSUME TypeOK, IndexFollowsChain, PoolOutsideChain, mempool.mapTx \subseteq Tx,
                    [TxPoolNext]_allTxVars,
                    ~desynced'
             PROVE  \A t \in mempool'.mapTx : dbTx'.pos[t] = NoBlock
  BY DEF PoolOutsideChain, Confirmed
<1>a. ASSUME ~desynced PROVE \A t \in mempool.mapTx : dbTx.pos[t] = NoBlock
  BY <1>a DEF PoolOutsideChain, Confirmed
<1>b. ASSUME NEW t, Accepted(t) PROVE dbTx.pos[t] = NoBlock /\ addUnchecked(mempool, {t}).mapTx = mempool.mapTx \cup {t}
  BY <1>b DEF Accepted, Fresh, Confirmed, addUnchecked
<1>c. ASSUME NEW b PROVE remove(mempool, Txs(b)).mapTx = mempool.mapTx \ Txs(b)
  BY DEF remove
<1>1. ASSUME NEW t \in Tx, ReceiveTx(t) \/ SubmitTx(t) \/ TryOrphanTx(t)
      PROVE  \A s \in mempool'.mapTx : dbTx'.pos[s] = NoBlock
  <2>1. UNCHANGED <<dbTx, desynced>>
    BY <1>1 DEF ReceiveTx, SubmitTx, TryOrphanTx, vars, db, history
  <2>2. mempool' = mempool \/ (Accepted(t) /\ mempool' = addUnchecked(mempool, {t}))
    BY <1>1 DEF ReceiveTx, SubmitTx, TryOrphanTx
  <2> QED
    BY <2>1, <2>2, <1>a, <1>b
<1>2. ASSUME NextTxHash \/ \E t \in Tx : ReceiveOrphanTx(t)
      PROVE  \A s \in mempool'.mapTx : dbTx'.pos[s] = NoBlock
  <2>1. UNCHANGED <<vars, mempool>>
    BY <1>2 DEF NextTxHash, ReceiveOrphanTx
  <2> QED
    BY <2>1, <1>a DEF vars, db, history
<1>3. CASE BlockStep
  <2>1. CASE ExtendBestChain /\ mempool' = remove(mempool, Txs(goal))
    <3>1. dbTx' = ConnectBlock(goal, dbTx) /\ desynced' = desynced
      BY <2>1 DEF ExtendBestChain, TxnCommit, history
    <3>2. mempool'.mapTx = mempool.mapTx \ Txs(goal)
      BY <2>1, <1>c
    <3>3. \A t \in Tx : dbTx'.pos[t] # NoBlock => t \in Txs(goal) \/ dbTx.pos[t] # NoBlock
      BY <3>1, ConnectConfirms
    <3> QED
      BY <3>1, <3>2, <3>3, <1>a
  <2>2. CASE ConnectSecondary /\ mempool' = remove(mempool, Txs(Toward(cur, goal)))
    <3>1. dbTx' = ConnectBlock(Toward(cur, goal), dbTx) /\ desynced' = desynced
      BY <2>2 DEF ConnectSecondary, TxnCommit, history
    <3>2. mempool'.mapTx = mempool.mapTx \ Txs(Toward(cur, goal))
      BY <2>2, <1>c
    <3>3. \A t \in Tx : dbTx'.pos[t] # NoBlock => t \in Txs(Toward(cur, goal)) \/ dbTx.pos[t] # NoBlock
      BY <3>1, ConnectConfirms
    <3> QED
      BY <3>1, <3>2, <3>3, <1>a
  <2>3. CASE CommitReorganize /\ mempool' \in Reorganized(pindexBest, mid)
    <3> DEFINE C == TxsOf(Chain[mid] \ Chain[pindexBest])
               D == TxsOf(Chain[pindexBest] \ Chain[mid])
    <3>1. ~desynced
      BY <2>3 DEF CommitReorganize, history
    <3>2. D \subseteq Tx
      <4>1. \A b \in Block : Txs(b) \subseteq Tx
        BY TxAssumption DEF Txs
      <4>2. Chain[pindexBest] \subseteq Block
        BY ChainEnds DEF TypeOK
      <4> QED
        BY <4>1, <4>2 DEF TxsOf
    <3>3. PICK m \in Resurrect(mempool, D) : mempool' = remove(m, C)
      BY <2>3 DEF Reorganized
    <3>4. m.mapTx \subseteq mempool.mapTx \cup D
      <4>1. PICK in \in SUBSET D : m = addUnchecked(mempool, in)
        BY DEF Resurrect
      <4> QED
        BY <4>1 DEF addUnchecked
    <3>5. mempool'.mapTx \subseteq (mempool.mapTx \cup D) \ C
      BY <3>3, <3>4 DEF remove
    <3>6. \A t \in Tx : dbTx'.pos[t] # NoBlock => t \in C \/ (dbTx.pos[t] # NoBlock /\ t \notin D)
      BY <2>3, <3>1, ReorganizeConfirms
    <3> QED
      BY <3>1, <3>2, <3>5, <3>6, <1>a
  <2> QED
    BY <1>3, <2>1, <2>2, <2>3 DEF BlockStep
<1>4. CASE OtherChainStep
  <2>1. UNCHANGED dbTx /\ (desynced => desynced') /\ UNCHANGED mempool
    BY <1>4, OthersKeepIndex DEF OtherChainStep, txVars
  <2> QED
    BY <2>1, <1>a
<1>5. CASE CrashNode
  BY <1>5 DEF CrashNode, EmptyPool
<1>6. CASE UNCHANGED allTxVars
  BY <1>6, <1>a DEF allTxVars, txVars, vars, db, history
<1> QED
  BY <1>1, <1>2, <1>3, <1>4, <1>5, <1>6 DEF TxPoolNext


-----------------------------------------------------------------------------
(***************************************************************************)
(* What a reorganize takes out of the chain.                               *)
(***************************************************************************)
\* An input of a block of a sound chain is an output that is marked spent.
LEMMA SpentOnChain ==
  ASSUME NEW tip \in Block, SoundChain(tip), NEW b \in Chain[tip], NEW t \in Txs(b),
         NEW o \in Vin[t]
  PROVE  o \in OutPoint /\ IndexOf(tip).spent[o] # NoBlock
<1>1. o \in Spends(b)
  BY DEF Spends
<1>2. o \in OutPoint
  BY <1>1, SoundBlocks
<1>3. SpenderOf(o, tip) = b
  BY <1>1, IndexOfSoundChain
<1>4. b # NoBlock
  BY ChainEnds, BlockAssumption
<1> QED
  BY <1>2, <1>3, <1>4 DEF IndexOf

\* A transaction that vResurrect holds gets in, or a conflict keeps it out.
LEMMA ResurrectTakes ==
  ASSUME NEW txs, NEW m \in Resurrect(mempool, txs), NextTxMatchesPool,
         NEW t \in txs, t \notin Minted \cup NonStandard \cup mempool.mapTx
  PROVE  t \in m.mapTx \/ \E e \in m.mapNextTx : e[1] \in Vin[t]
<1>1. PICK in \in SUBSET txs :
         /\ m = addUnchecked(mempool, in)
         /\ \A x \in in : Admissible(mempool, x)
         /\ Admissible(mempool, t) /\ t \notin in => \E s \in in : Conflict(s, t)
  BY DEF Resurrect
<1>2. m.mapTx = mempool.mapTx \cup in
  BY <1>1 DEF addUnchecked
<1>3. m.mapNextTx = mempool.mapNextTx \cup UNION {Vin[x] \X {x} : x \in in}
  BY <1>1 DEF addUnchecked, Admissible
<1>4. CASE t \in in
  BY <1>4, <1>2
<1>5. CASE t \notin in /\ Admissible(mempool, t)
  <2>1. PICK s \in in, o \in Vin[t] : o \in Vin[s]
    BY <1>1, <1>5 DEF Conflict
  <2>2. <<o, s>> \in UNION {Vin[x] \X {x} : x \in in}
    BY <2>1, InputPairs
  <2> QED
    BY <2>1, <2>2, <1>3
<1>6. CASE ~Admissible(mempool, t)
  BY <1>6, <1>3 DEF Admissible
<1> QED
  BY <1>4, <1>5, <1>6

\* Spelled out for one transaction and one step.
StaysKnown(t) ==
    \/ t \in mempool'.mapTx
    \/ \E o \in Vin[t] : \/ o \in {e[1] : e \in mempool'.mapNextTx}
                         \/ dbTx'.spent[o] # NoBlock

LEMMA ReorganizeKeepsKnown ==
  ASSUME TypeOK, IndexFollowsChain, PoolOutsideChain, NextTxMatchesPool, ~desynced,
         CommitReorganize, mempool' \in Reorganized(pindexBest, mid),
         NEW t \in Tx \ (Minted \cup NonStandard), Confirmed(t), ~Confirmed(t)'
  PROVE  StaysKnown(t)
<1> DEFINE C == TxsOf(Chain[mid] \ Chain[pindexBest])
           D == TxsOf(Chain[pindexBest] \ Chain[mid])
<1>1. PICK m \in Resurrect(mempool, D) : mempool' = remove(m, C)
  BY DEF Reorganized
<1>2. t \in D /\ t \notin mempool.mapTx
  BY ReorganizeConfirms DEF PoolOutsideChain, Confirmed
<1>3. t \notin C
  <2>1. \A b \in Chain[mid] : t \notin Txs(b)
    BY ReorganizeChains, ConfirmedOnChain DEF Confirmed
  <2> QED
    BY <2>1 DEF TxsOf
<1>4. CASE t \in m.mapTx
  BY <1>1, <1>3, <1>4 DEF remove, StaysKnown
<1>5. ASSUME NEW e \in m.mapNextTx, e[1] \in Vin[t] PROVE StaysKnown(t)
  <2>1. CASE e \in mempool'.mapNextTx
    BY <2>1, <1>5 DEF StaysKnown
  <2>2. CASE e \notin mempool'.mapNextTx
    <3>1. PICK c \in C : e[1] \in Vin[c]
      BY <2>2, <1>1 DEF remove
    <3>2. PICK b \in Chain[mid] : c \in Txs(b)
      BY DEF TxsOf
    <3>3. dbTx'.spent[e[1]] # NoBlock
      BY <3>1, <3>2, ReorganizeChains, SpentOnChain
    <3> QED
      BY <3>3, <1>5 DEF StaysKnown
  <2> QED
    BY <2>1, <2>2
<1> QED
  BY <1>1, <1>2, <1>4, <1>5, ResurrectTakes

LEMMA StayKnownStep ==
  TypeOK /\ WorksTowardGoal /\ IndexFollowsChain /\ PoolOutsideChain /\ NextTxMatchesPool
    /\ [TxPoolNext]_allTxVars
    => \A t \in Tx \ (Minted \cup NonStandard) :
          Confirmed(t) /\ ~Confirmed(t)' /\ ~desynced => StaysKnown(t)
<1> SUFFICES ASSUME TypeOK, WorksTowardGoal, IndexFollowsChain, PoolOutsideChain,
                    NextTxMatchesPool, [TxPoolNext]_allTxVars, ~desynced,
                    NEW t \in Tx \ (Minted \cup NonStandard), Confirmed(t), ~Confirmed(t)'
             PROVE  StaysKnown(t)
  OBVIOUS
<1>1. dbTx' # dbTx
  BY DEF Confirmed
<1>2. ASSUME NEW b, dbTx' = ConnectBlock(b, dbTx), b # NoBlock PROVE FALSE
  BY <1>2 DEF ConnectBlock, Confirmed
<1>3. ~ (ReceiveTx(t) \/ NextTxHash \/ UNCHANGED allTxVars)
  BY <1>1 DEF ReceiveTx, NextTxHash, allTxVars, vars, db
<1>4. ASSUME NEW s \in Tx, ReceiveTx(s) \/ ReceiveOrphanTx(s) \/ SubmitTx(s) \/ TryOrphanTx(s)
      PROVE  FALSE
  BY <1>1, <1>4 DEF ReceiveTx, ReceiveOrphanTx, SubmitTx, TryOrphanTx, vars, db
<1>5. CASE BlockStep
  <2>1. ~ExtendBestChain
    <3>1. goal # NoBlock
      BY BlockAssumption DEF TypeOK
    <3> QED
      BY <3>1, <1>2 DEF ExtendBestChain, TxnCommit
  <2>2. ~ConnectSecondary
    <3>1. SUFFICES ASSUME ConnectSecondary PROVE FALSE
      OBVIOUS
    <3>2. goal \in Block /\ cur \in Chain[goal] /\ cur # goal
      BY <3>1 DEF ConnectSecondary, WorksTowardGoal, TypeOK
    <3>3. Toward(cur, goal) # NoBlock
      BY <3>2, TowardOnChain, ChainEnds, BlockAssumption
    <3> QED
      BY <3>1, <3>3, <1>2 DEF ConnectSecondary, TxnCommit
  <2> QED
    BY <1>5, <2>1, <2>2, ReorganizeKeepsKnown DEF BlockStep
<1>6. ~OtherChainStep
  BY <1>1, OthersKeepIndex DEF OtherChainStep
<1>7. ~CrashNode
  BY <1>1 DEF CrashNode, Crash, TxnAbort, db
<1> QED
  BY <1>3, <1>4, <1>5, <1>6, <1>7 DEF TxPoolNext

-----------------------------------------------------------------------------
(***************************************************************************)
(* The orphan transactions.                                                *)
(***************************************************************************)
\* What byPrev lists under p.
Listed(byPrev, p) == IF p \in DOMAIN byPrev THEN byPrev[p] ELSE {}

\* The two maps agree, said of any pair of maps.
Agree(txs, byPrev) == \A p, t : t \in Listed(byPrev, p) <=> t \in txs /\ p \in PrevTxs(t)

LEMMA AgreeIsAgree ==
  /\ OrphanMapsAgree <=> Agree(mapOrphanTransactions, mapOrphanTransactionsByPrev)
  /\ OrphanMapsAgree' <=> Agree(mapOrphanTransactions', mapOrphanTransactionsByPrev')
BY DEF OrphanMapsAgree, OrphansOf, Agree, Listed

LEMMA EraseKeepsAgree ==
  ASSUME NEW txs, NEW byPrev, Agree(txs, byPrev), NEW out
  PROVE  Agree(txs \ out, WithoutOrphans(byPrev, out))
<1> DEFINE new == WithoutOrphans(byPrev, out)
           touched == UNION {PrevTxs(t) : t \in out}
<1>1. DOMAIN new = {q \in DOMAIN byPrev : q \in touched => byPrev[q] \ out # {}}
  BY DEF WithoutOrphans
<1>2. \A p \in DOMAIN new : new[p] = byPrev[p] \ out
  BY DEF WithoutOrphans
<1>3. ASSUME NEW p PROVE Listed(new, p) = Listed(byPrev, p) \ out
  BY <1>1, <1>2 DEF Listed
<1> QED
  BY <1>3 DEF Agree

LEMMA AddKeepsAgree ==
  ASSUME OrphanMapsAgree, NEW t, NEW byPrev,
         byPrev = [p \in DOMAIN mapOrphanTransactionsByPrev \cup PrevTxs(t) |->
                      OrphansOf(p) \cup {o \in {t} : p \in PrevTxs(t)}]
  PROVE  Agree(mapOrphanTransactions \cup {t}, byPrev)
<1>1. ASSUME NEW p PROVE Listed(byPrev, p) = OrphansOf(p) \cup {o \in {t} : p \in PrevTxs(t)}
  BY DEF Listed, OrphansOf
<1>2. \A p, o : o \in OrphansOf(p) <=> o \in mapOrphanTransactions /\ p \in PrevTxs(o)
  BY DEF OrphanMapsAgree, OrphansOf
<1> QED
  BY <1>1, <1>2 DEF Agree

LEMMA LookedAgrees ==
  ASSUME OrphanMapsAgree, NEW h
  PROVE  Agree(mapOrphanTransactions, Looked(h))
<1>1. ASSUME NEW p PROVE Listed(Looked(h), p) = OrphansOf(p)
  BY DEF Looked, Listed, OrphansOf
<1> QED
  BY <1>1 DEF Agree, OrphanMapsAgree, OrphansOf

LEMMA PrevTxsTypes == \A t \in Tx : PrevTxs(t) \subseteq Tx
BY TxAssumption DEF PrevTxs

(***************************************************************************)
(* The inductive invariant: the types, the position in the work queue, the *)
(* two orphan maps.                                                        *)
(***************************************************************************)
OrphansAreRight ==
    /\ TxPoolTypeOK
    /\ IsFiniteSet(mapOrphanTransactions)
    /\ vWorkQueue # << >> => at \in 1 .. Len(vWorkQueue)
    /\ vWorkQueue = << >> => at = 1 /\ tried = {}
    /\ OrphanMapsAgree

\* Nothing in memory: after the start and after a crash.
LEMMA NothingIsRight ==
  /\ /\ mempool = EmptyPool
     /\ mapOrphanTransactions = {} /\ mapOrphanTransactionsByPrev = NoOrphans
     /\ vWorkQueue = << >> /\ vEraseQueue = {} /\ at = 1 /\ tried = {}
     => OrphansAreRight
  /\ /\ mempool' = EmptyPool
     /\ mapOrphanTransactions' = {} /\ mapOrphanTransactionsByPrev' = NoOrphans
     /\ vWorkQueue' = << >> /\ vEraseQueue' = {} /\ at' = 1 /\ tried' = {}
     => OrphansAreRight'
<1>1. << >> \in Seq(Tx)
  OBVIOUS
<1>2. EmptyPool \in [mapTx : SUBSET (Tx \ Minted), mapNextTx : SUBSET ((Tx \X Nat) \X Tx)]
  BY DEF EmptyPool
<1>3. DOMAIN NoOrphans = {}
  BY DEF NoOrphans
<1>4. IsFiniteSet({}) /\ Cardinality({}) <= MaxOrphanTxs
  BY FS_EmptySet, PoolAssumption
<1> QED
  BY <1>1, <1>2, <1>3, <1>4 DEF OrphansAreRight, TxPoolTypeOK, OrphanMapsAgree, OrphansOf

\* An evicted orphan makes room for the new one.
LEMMA LimitHolds ==
  ASSUME IsFiniteSet(mapOrphanTransactions), Cardinality(mapOrphanTransactions) <= MaxOrphanTxs,
         NEW t, NEW now, now = mapOrphanTransactions \cup {t},
         NEW evicted \in IF TooMany(now) THEN {{o} : o \in now} ELSE {{}}
  PROVE  IsFiniteSet(now \ evicted) /\ Cardinality(now \ evicted) <= MaxOrphanTxs
<1>1. /\ IsFiniteSet(now) /\ Cardinality(now) \in Nat
      /\ Cardinality(now) <= Cardinality(mapOrphanTransactions) + 1
      /\ Cardinality(mapOrphanTransactions) \in Nat
  <2>1. IsFiniteSet(now) /\ Cardinality(now) = IF t \in mapOrphanTransactions
                                                THEN Cardinality(mapOrphanTransactions)
                                                ELSE Cardinality(mapOrphanTransactions) + 1
    BY FS_AddElement
  <2>2. Cardinality(mapOrphanTransactions) \in Nat
    BY FS_CardinalityType
  <2> QED
    BY <2>1, <2>2
<1>2. CASE TooMany(now)
  <2>1. PICK o \in now : evicted = {o}
    BY <1>2
  <2>2. IsFiniteSet(now \ {o}) /\ Cardinality(now \ {o}) = Cardinality(now) - 1
    BY <1>1, FS_RemoveElement
  <2> QED
    BY <1>1, <2>1, <2>2, PoolAssumption
<1>3. CASE ~TooMany(now)
  <2>1. now \ evicted = now
    BY <1>3
  <2>2. Cardinality(now) <= MaxOrphanTxs
    BY <1>1, <1>3, PoolAssumption DEF TooMany
  <2> QED
    BY <1>1, <2>1, <2>2
<1> QED
  BY <1>2, <1>3


\* What the pool holds after addUnchecked and remove is still of its type.
PoolType == [mapTx : SUBSET (Tx \ Minted), mapNextTx : SUBSET ((Tx \X Nat) \X Tx)]

LEMMA PoolOperationTypes ==
  ASSUME NEW m \in PoolType
  PROVE  /\ \A in \in SUBSET (Tx \ Minted) : addUnchecked(m, in) \in PoolType
         /\ \A out : remove(m, out) \in PoolType
<1>1. ASSUME NEW in \in SUBSET (Tx \ Minted) PROVE addUnchecked(m, in) \in PoolType
  <2>1. UNION {Vin[t] \X {t} : t \in in} \subseteq (Tx \X Nat) \X Tx
    BY TxAssumption
  <2> QED
    BY <2>1 DEF addUnchecked, PoolType
<1>2. ASSUME NEW out PROVE remove(m, out) \in PoolType
  BY DEF remove, PoolType
<1> QED
  BY <1>1, <1>2

LEMMA PoolTypeStep ==
  TypeOK /\ mempool \in PoolType /\ [TxPoolNext]_allTxVars => mempool' \in PoolType
<1> SUFFICES ASSUME TypeOK, mempool \in PoolType, [TxPoolNext]_allTxVars
             PROVE  mempool' \in PoolType
  OBVIOUS
<1>1. ASSUME NEW t \in Tx, Accepted(t) PROVE addUnchecked(mempool, {t}) \in PoolType
  BY <1>1, PoolOperationTypes DEF Accepted, Fresh, Admissible
<1>2. ASSUME NEW t \in Tx, ReceiveTx(t) \/ ReceiveOrphanTx(t) \/ SubmitTx(t) \/ TryOrphanTx(t)
      PROVE  mempool' \in PoolType
  BY <1>1, <1>2 DEF ReceiveTx, ReceiveOrphanTx, SubmitTx, TryOrphanTx
<1>3. CASE NextTxHash
  BY <1>3 DEF NextTxHash
<1>4. CASE BlockStep
  <2>1. ASSUME NEW from \in Block, NEW to \in Block, NEW m \in Reorganized(from, to)
        PROVE  m \in PoolType
    <3>1. PICK r \in Resurrect(mempool, TxsOf(Chain[from] \ Chain[to])) :
             m = remove(r, TxsOf(Chain[to] \ Chain[from]))
      BY DEF Reorganized
    <3>2. PICK in \in SUBSET TxsOf(Chain[from] \ Chain[to]) :
             r = addUnchecked(mempool, in) /\ \A t \in in : Admissible(mempool, t)
      BY DEF Resurrect
    <3>3. TxsOf(Chain[from] \ Chain[to]) \subseteq Tx
      <4>1. \A b \in Block : Txs(b) \subseteq Tx
        BY TxAssumption DEF Txs
      <4> QED
        BY <4>1, ChainEnds DEF TxsOf
    <3>4. in \subseteq Tx \ Minted
      BY <3>2, <3>3 DEF Admissible
    <3> QED
      BY <3>1, <3>2, <3>4, PoolOperationTypes
  <2>2. pindexBest \in Block /\ mid \in Block
    BY DEF TypeOK
  <2> QED
    BY <1>4, <2>1, <2>2, PoolOperationTypes DEF BlockStep
<1>5. CASE OtherChainStep
  BY <1>5 DEF OtherChainStep, txVars
<1>6. CASE CrashNode
  BY <1>6 DEF CrashNode, EmptyPool, PoolType
<1>7. CASE UNCHANGED allTxVars
  BY <1>7 DEF allTxVars, txVars
<1> QED
  BY <1>2, <1>3, <1>4, <1>5, <1>6, <1>7 DEF TxPoolNext

(***************************************************************************)
(* The orphan maps and the work queue, without the pool.                   *)
(***************************************************************************)
QueueIsRight ==
    /\ mapOrphanTransactions \subseteq Tx
    /\ Cardinality(mapOrphanTransactions) <= MaxOrphanTxs
    /\ DOMAIN mapOrphanTransactionsByPrev \subseteq Tx
    /\ IsFiniteSet(mapOrphanTransactions)
    /\ OrphanMapsAgree
    /\ vWorkQueue \in Seq(Tx)
    /\ vEraseQueue \subseteq Tx
    /\ tried \subseteq Tx
    /\ vWorkQueue # << >> => at \in 1 .. Len(vWorkQueue)
    /\ vWorkQueue = << >> => at = 1 /\ tried = {}

LEMMA QueueIsRightOrphansAre ==
  /\ OrphansAreRight <=> QueueIsRight /\ mempool \in PoolType
  /\ (OrphansAreRight <=> QueueIsRight /\ mempool \in PoolType)'
<1>1. OrphanMapsAgree /\ mapOrphanTransactions \subseteq Tx =>
        \A p \in DOMAIN mapOrphanTransactionsByPrev : mapOrphanTransactionsByPrev[p] \subseteq Tx
  BY DEF OrphanMapsAgree
<1>2. (OrphanMapsAgree /\ mapOrphanTransactions \subseteq Tx =>
        \A p \in DOMAIN mapOrphanTransactionsByPrev : mapOrphanTransactionsByPrev[p] \subseteq Tx)'
  BY DEF OrphanMapsAgree
<1> QED
  BY <1>1, <1>2 DEF OrphansAreRight, QueueIsRight, TxPoolTypeOK, PoolType

LEMMA QueueStep == QueueIsRight /\ [TxPoolNext]_allTxVars => QueueIsRight'
<1> SUFFICES ASSUME QueueIsRight, [TxPoolNext]_allTxVars PROVE QueueIsRight'
  OBVIOUS
<1>a. ASSUME UNCHANGED <<orphans, work>> PROVE QueueIsRight'
  BY <1>a DEF QueueIsRight, orphans, work, OrphanMapsAgree, OrphansOf
<1>b. ASSUME UNCHANGED orphans PROVE OrphanMapsAgree'
  BY <1>b DEF QueueIsRight, orphans, OrphanMapsAgree, OrphansOf
<1>1. ASSUME NEW t \in Tx, ReceiveTx(t) PROVE QueueIsRight'
  <2>1. vWorkQueue' = <<t>> /\ at' = 1 /\ tried' = tried /\ vEraseQueue' = {t}
    BY <1>1 DEF ReceiveTx, Ready, QueueIsRight
  <2>2. vWorkQueue' \in Seq(Tx) /\ Len(vWorkQueue') = 1
    BY <2>1
  <2> QED
    BY <1>1, <1>b, <2>1, <2>2 DEF ReceiveTx, QueueIsRight, orphans
<1>2. ASSUME NEW t \in Tx, ReceiveOrphanTx(t) PROVE QueueIsRight'
  <2> DEFINE now == mapOrphanTransactions \cup {t}
             byPrev == [p \in DOMAIN mapOrphanTransactionsByPrev \cup PrevTxs(t) |->
                           OrphansOf(p) \cup {o \in {t} : p \in PrevTxs(t)}]
  <2>1. PICK evicted \in IF TooMany(now) THEN {{o} : o \in now} ELSE {{}} :
           /\ mapOrphanTransactions' = now \ evicted
           /\ mapOrphanTransactionsByPrev' = WithoutOrphans(byPrev, evicted)
    BY <1>2 DEF ReceiveOrphanTx
  <2>2. Agree(now, byPrev)
    BY AddKeepsAgree DEF QueueIsRight
  <2>3. OrphanMapsAgree'
    BY <2>1, <2>2, EraseKeepsAgree, AgreeIsAgree
  <2>4. IsFiniteSet(now \ evicted) /\ Cardinality(now \ evicted) <= MaxOrphanTxs
    BY LimitHolds DEF QueueIsRight
  <2>5. DOMAIN mapOrphanTransactionsByPrev' \subseteq Tx
    BY <2>1, PrevTxsTypes DEF WithoutOrphans, QueueIsRight
  <2> QED
    BY <1>2, <2>1, <2>3, <2>4, <2>5 DEF ReceiveOrphanTx, QueueIsRight, work
<1>3. ASSUME NEW t \in Tx, TryOrphanTx(t) PROVE QueueIsRight'
  <2>1. vWorkQueue # << >> /\ vWorkQueue' \in Seq(Tx) /\ vWorkQueue' # << >>
        /\ Len(vWorkQueue) \in Nat /\ Len(vWorkQueue') \in Nat
        /\ Len(vWorkQueue') >= Len(vWorkQueue)
    BY <1>3 DEF TryOrphanTx, QueueIsRight
  <2>2. at' \in 1 .. Len(vWorkQueue')
    BY <1>3, <2>1 DEF TryOrphanTx, QueueIsRight
  <2> QED
    BY <1>3, <1>b, <2>1, <2>2 DEF TryOrphanTx, QueueIsRight, orphans
<1>4. CASE NextTxHash
  <2> DEFINE h == vWorkQueue[at]
             erased == vEraseQueue \cap mapOrphanTransactions
  <2>1. vWorkQueue # << >> /\ h \in Tx /\ Len(vWorkQueue) \in Nat
    BY <1>4 DEF NextTxHash, QueueIsRight
  <2>2. DOMAIN Looked(h) \subseteq Tx /\ Agree(mapOrphanTransactions, Looked(h))
    BY <2>1, LookedAgrees DEF Looked, QueueIsRight
  <2>3. CASE at = Len(vWorkQueue)
    <3>1. OrphanMapsAgree'
      BY <1>4, <2>2, <2>3, EraseKeepsAgree, AgreeIsAgree DEF NextTxHash
    <3>2. DOMAIN mapOrphanTransactionsByPrev' \subseteq Tx
      BY <1>4, <2>2, <2>3 DEF NextTxHash, WithoutOrphans
    <3>3. IsFiniteSet(mapOrphanTransactions') /\ Cardinality(mapOrphanTransactions') <= MaxOrphanTxs
      <4>1. mapOrphanTransactions' \in SUBSET mapOrphanTransactions
        BY <1>4, <2>3 DEF NextTxHash
      <4>2. IsFiniteSet(mapOrphanTransactions')
            /\ Cardinality(mapOrphanTransactions') <= Cardinality(mapOrphanTransactions)
        BY <4>1, FS_Subset DEF QueueIsRight
      <4>3. Cardinality(mapOrphanTransactions) \in Nat /\ Cardinality(mapOrphanTransactions') \in Nat
        BY <4>2, FS_CardinalityType DEF QueueIsRight
      <4> QED
        BY <4>2, <4>3, PoolAssumption DEF QueueIsRight
    <3>4. << >> \in Seq(Tx)
      OBVIOUS
    <3>5. /\ mapOrphanTransactions' \subseteq Tx
          /\ vWorkQueue' = << >> /\ vEraseQueue' = {} /\ at' = 1 /\ tried' = {}
      BY <1>4, <2>3 DEF NextTxHash, QueueIsRight
    <3> QED
      BY <3>1, <3>2, <3>3, <3>4, <3>5 DEF QueueIsRight
  <2>4. CASE at # Len(vWorkQueue)
    <3>1. OrphanMapsAgree'
      BY <1>4, <2>2, <2>4, AgreeIsAgree DEF NextTxHash
    <3>2. at' \in 1 .. Len(vWorkQueue) /\ vWorkQueue' = vWorkQueue
      BY <1>4, <2>1, <2>4 DEF NextTxHash, QueueIsRight
    <3> QED
      BY <1>4, <2>1, <2>2, <2>4, <3>1, <3>2 DEF NextTxHash, QueueIsRight, Again
  <2> QED
    BY <2>3, <2>4
<1>5. CASE CrashNode
  BY <1>5, NothingIsRight, QueueIsRightOrphansAre DEF CrashNode
<1>6. CASE BlockStep \/ OtherChainStep \/ (\E t \in Tx : SubmitTx(t)) \/ UNCHANGED allTxVars
  BY <1>6, <1>a DEF BlockStep, OtherChainStep, SubmitTx, allTxVars, txVars
<1> QED
  BY <1>1, <1>2, <1>3, <1>4, <1>5, <1>6 DEF TxPoolNext


-----------------------------------------------------------------------------
(***************************************************************************)
(* The loop over the orphans of what was accepted.  An orphan that could   *)
(* be accepted now, and is a child of something in the work queue, has its *)
(* turn still to come.                                                     *)
(***************************************************************************)
IsChild(t) == \E i \in DOMAIN vWorkQueue : vWorkQueue[i] \in PrevTxs(t)

HasTurn(t) ==
    \E i \in at .. Len(vWorkQueue) : vWorkQueue[i] \in PrevTxs(t) /\ (i = at => t \notin tried)

WaitingHaveTurn ==
    vWorkQueue # << >> =>
        \A t \in mapOrphanTransactions \ vEraseQueue : Accepted(t) /\ IsChild(t) => HasTurn(t)

\* accept looks at the pool, the transaction index and the best block.
LEMMA SameAcceptance ==
  ASSUME UNCHANGED <<vars, mempool>>, NEW t
  PROVE  Accepted(t)' <=> Accepted(t)
<1>1. dbTx' = dbTx /\ pindexBest' = pindexBest /\ mempool' = mempool
  BY DEF vars, db, best
<1> QED
  BY <1>1 DEF Accepted, Fresh, MissingInputs, InputsConnect, Confirmed, Admissible

\* What becomes acceptable when s is accepted spends an output of s.
LEMMA NewlyAccepted ==
  ASSUME UNCHANGED vars, NEW s, Accepted(s), mempool' = addUnchecked(mempool, {s}),
         NEW t, Accepted(t)', s \notin PrevTxs(t)
  PROVE  Accepted(t)
<1>1. dbTx' = dbTx /\ pindexBest' = pindexBest
  BY DEF vars, db, best
<1>2. mempool'.mapTx = mempool.mapTx \cup {s} /\ mempool.mapNextTx \subseteq mempool'.mapNextTx
  BY DEF addUnchecked, Accepted, Fresh, Admissible
<1>3. Fresh(t)
  BY <1>1, <1>2 DEF Accepted, Fresh, Admissible, Confirmed
<1>4. ~MissingInputs(t)
  <2>1. \A o \in Vin[t] : o[1] # s
    BY DEF PrevTxs
  <2> QED
    BY <1>1, <1>2, <2>1 DEF Accepted, MissingInputs, Confirmed
<1>5. InputsConnect(t)
  BY <1>1 DEF Accepted, InputsConnect, Confirmed
<1> QED
  BY <1>3, <1>4, <1>5 DEF Accepted

LEMMA WaitingStep ==
  QueueIsRight /\ WaitingHaveTurn /\ [TxPoolNext]_allTxVars => WaitingHaveTurn'
<1> SUFFICES ASSUME QueueIsRight, WaitingHaveTurn, [TxPoolNext]_allTxVars,
                    vWorkQueue' # << >>,
                    NEW t \in mapOrphanTransactions' \ vEraseQueue', Accepted(t)', IsChild(t)'
             PROVE  HasTurn(t)'
  BY DEF WaitingHaveTurn
<1>1. ASSUME NEW s \in Tx, ReceiveTx(s) PROVE HasTurn(t)'
  <2>1. vWorkQueue' = <<s>> /\ at' = 1 /\ tried' = {}
    BY <1>1 DEF ReceiveTx, Ready, QueueIsRight
  <2>2. Len(vWorkQueue') = 1 /\ DOMAIN vWorkQueue' = {1}
    BY <2>1
  <2> QED
    BY <2>1, <2>2 DEF IsChild, HasTurn
<1>2. ASSUME NEW s \in Tx, TryOrphanTx(s) PROVE HasTurn(t)'
  <2>1. /\ vWorkQueue # << >> /\ t \in mapOrphanTransactions \ vEraseQueue
        /\ vWorkQueue \in Seq(Tx) /\ Len(vWorkQueue) \in Nat /\ at \in 1 .. Len(vWorkQueue)
        /\ at' = at /\ tried' = tried \cup {s} /\ UNCHANGED vars
    BY <1>2 DEF TryOrphanTx, QueueIsRight, orphans
  <2>2. CASE Accepted(s) /\ mempool' = addUnchecked(mempool, {s})
             /\ vWorkQueue' = Append(vWorkQueue, s) /\ vEraseQueue' = vEraseQueue \cup {s}
    <3>1. /\ Len(vWorkQueue') = Len(vWorkQueue) + 1
          /\ vWorkQueue'[Len(vWorkQueue) + 1] = s
          /\ \A i \in 1 .. Len(vWorkQueue) : vWorkQueue'[i] = vWorkQueue[i]
          /\ DOMAIN vWorkQueue' = 1 .. Len(vWorkQueue) + 1 /\ DOMAIN vWorkQueue = 1 .. Len(vWorkQueue)
      BY <2>1, <2>2
    <3>2. CASE s \in PrevTxs(t)
      BY <2>1, <3>1, <3>2 DEF HasTurn
    <3>3. CASE s \notin PrevTxs(t)
      <4>1. Accepted(t) /\ IsChild(t)
        BY <2>1, <2>2, <3>1, <3>3, NewlyAccepted DEF IsChild
      <4>2. PICK i \in at .. Len(vWorkQueue) :
               vWorkQueue[i] \in PrevTxs(t) /\ (i = at => t \notin tried)
        BY <2>1, <4>1 DEF WaitingHaveTurn, HasTurn
      <4>3. t # s
        BY <2>2
      <4> QED
        BY <2>1, <3>1, <4>2, <4>3 DEF HasTurn
    <3> QED
      BY <3>2, <3>3
  <2>3. CASE UNCHANGED <<mempool, vWorkQueue>>
             /\ (vEraseQueue' = vEraseQueue \cup {s} \/ (Missing(s) /\ UNCHANGED vEraseQueue))
    <3>1. Accepted(t) /\ IsChild(t)
      BY <2>1, <2>3, SameAcceptance DEF IsChild
    <3>2. PICK i \in at .. Len(vWorkQueue) :
             vWorkQueue[i] \in PrevTxs(t) /\ (i = at => t \notin tried)
      BY <2>1, <3>1 DEF WaitingHaveTurn, HasTurn
    <3>3. t # s
      BY <2>3, <3>1 DEF Missing, Accepted
    <3> QED
      BY <2>1, <2>3, <3>2, <3>3 DEF HasTurn
  <2> QED
    BY <1>2, <2>2, <2>3 DEF TryOrphanTx
<1>3. CASE NextTxHash
  <2>1. /\ at # Len(vWorkQueue) /\ vWorkQueue # << >>
        /\ vWorkQueue' = vWorkQueue /\ at' = at + 1 /\ tried' = {}
        /\ t \in mapOrphanTransactions \ vEraseQueue
        /\ OrphansOf(vWorkQueue[at]) \subseteq tried
    BY <1>3 DEF NextTxHash, Again
  <2>2. at \in Nat /\ Len(vWorkQueue) \in Nat
    BY <2>1 DEF QueueIsRight
  <2>3. Accepted(t) /\ IsChild(t)
    BY <1>3, <2>1, SameAcceptance DEF NextTxHash, IsChild
  <2>4. PICK i \in at .. Len(vWorkQueue) :
           vWorkQueue[i] \in PrevTxs(t) /\ (i = at => t \notin tried)
    BY <2>1, <2>3 DEF WaitingHaveTurn, HasTurn
  <2>5. i # at
    BY <2>1, <2>4 DEF QueueIsRight, OrphanMapsAgree
  <2> QED
    BY <2>1, <2>2, <2>4, <2>5 DEF HasTurn
<1>4. CASE CrashNode
  BY <1>4 DEF CrashNode
<1>5. CASE BlockStep \/ OtherChainStep \/ \E s \in Tx : SubmitTx(s) \/ ReceiveOrphanTx(s)
  BY <1>5 DEF BlockStep, OtherChainStep, SubmitTx, ReceiveOrphanTx, Ready, work, txVars
<1>6. CASE UNCHANGED allTxVars
  <2>1. Accepted(t) /\ UNCHANGED <<orphans, work>>
    BY <1>6, SameAcceptance DEF allTxVars, txVars
  <2> QED
    BY <2>1 DEF WaitingHaveTurn, IsChild, HasTurn, orphans, work
<1> QED
  BY <1>1, <1>2, <1>3, <1>4, <1>5, <1>6 DEF TxPoolNext

LEMMA TakenStep ==
  QueueIsRight /\ WaitingHaveTurn /\ [TxPoolNext]_allTxVars =>
    (vWorkQueue # << >> /\ vWorkQueue' = << >> =>
       \A t \in mapOrphanTransactions' :
          (\E i \in DOMAIN vWorkQueue : vWorkQueue[i] \in PrevTxs(t)) => ~Accepted(t)')
<1> SUFFICES ASSUME QueueIsRight, WaitingHaveTurn, [TxPoolNext]_allTxVars,
                    vWorkQueue # << >>, vWorkQueue' = << >>,
                    NEW t \in mapOrphanTransactions', IsChild(t), Accepted(t)'
             PROVE  FALSE
  BY DEF IsChild
<1>1. ASSUME NEW s \in Tx, ReceiveTx(s) \/ ReceiveOrphanTx(s) \/ SubmitTx(s) PROVE FALSE
  BY <1>1 DEF ReceiveTx, ReceiveOrphanTx, SubmitTx, Ready
<1>2. ASSUME NEW s \in Tx, TryOrphanTx(s) PROVE FALSE
  <2>1. Append(vWorkQueue, s) # << >>
    BY DEF QueueIsRight
  <2> QED
    BY <1>2, <2>1 DEF TryOrphanTx
<1>3. CASE NextTxHash
  <2>1. /\ at = Len(vWorkQueue) /\ t \in mapOrphanTransactions \ vEraseQueue
        /\ OrphansOf(vWorkQueue[at]) \subseteq tried
    BY <1>3 DEF NextTxHash
  <2>2. Accepted(t)
    BY <1>3, SameAcceptance DEF NextTxHash
  <2>3. PICK i \in at .. Len(vWorkQueue) :
           vWorkQueue[i] \in PrevTxs(t) /\ (i = at => t \notin tried)
    BY <2>1, <2>2 DEF WaitingHaveTurn, HasTurn
  <2>4. i = at
    BY <2>1, <2>3 DEF QueueIsRight
  <2> QED
    BY <2>1, <2>3, <2>4 DEF QueueIsRight, OrphanMapsAgree
<1>4. CASE CrashNode
  BY <1>4 DEF CrashNode
<1>5. CASE BlockStep \/ OtherChainStep \/ UNCHANGED allTxVars
  BY <1>5 DEF BlockStep, OtherChainStep, allTxVars, txVars, work
<1> QED
  BY <1>1, <1>2, <1>3, <1>4, <1>5 DEF TxPoolNext

-----------------------------------------------------------------------------
LEMMA TxPoolRightInit == TxPoolInit => OrphansAreRight /\ WaitingHaveTurn
BY NothingIsRight DEF TxPoolInit, WaitingHaveTurn

LEMMA OrphansAlways == TxPoolSpec => [](OrphansAreRight /\ WaitingHaveTurn)
<1>1. TypeOK /\ OrphansAreRight /\ WaitingHaveTurn /\ [TxPoolNext]_allTxVars
        => (OrphansAreRight /\ WaitingHaveTurn)'
  BY PoolTypeStep, QueueStep, WaitingStep, QueueIsRightOrphansAre
<1> QED
  BY <1>1, TxPoolRightInit, TxPoolImplementsChain, TypeCorrect, PTL DEF TxPoolSpec

(***************************************************************************)
(* The types of the pool, and never more than MAX_ORPHAN_TRANSACTIONS      *)
(* orphans (CTxMemPool, AddOrphanTx, LimitOrphanTxSize).                   *)
(***************************************************************************)
THEOREM TxPoolTypeCorrect == TxPoolSpec => []TxPoolTypeOK
  BY OrphansAlways, PTL DEF OrphansAreRight

(***************************************************************************)
(* The two orphan maps agree, so mapOrphanTransactionsByPrev points to no  *)
(* deleted transaction, for any number of orphans with any parents.        *)
(***************************************************************************)
THEOREM OrphanMapsAlwaysAgree == TxPoolSpec => []OrphanMapsAgree
  BY OrphansAlways, PTL DEF OrphansAreRight

(***************************************************************************)
(* The "tx" handler leaves no orphan behind that what it accepted has made *)
(* acceptable (ProcessMessage).                                            *)
(***************************************************************************)
THEOREM AcceptedOrphansAreTaken == TxPoolSpec => OrphansOfAcceptedAreTaken
<1>1. OrphansAreRight => QueueIsRight
  BY QueueIsRightOrphansAre
<1> QED
  BY <1>1, TakenStep, OrphansAlways, PTL DEF TxPoolSpec, OrphansOfAcceptedAreTaken

LEMMA PoolAlways == TxPoolSpec => [](IndexFollowsChain /\ PoolOutsideChain)
<1>1. OrphansAreRight => mempool.mapTx \subseteq Tx
  BY DEF OrphansAreRight, TxPoolTypeOK
<1>2. TypeOK /\ IndexFollowsChain /\ OrphansAreRight /\ PoolOutsideChain /\ [TxPoolNext]_allTxVars
        => PoolOutsideChain'
  BY <1>1, OutsideStep
<1> QED
  BY <1>2, OutsideInit, TxPoolImplementsChain, TypeCorrect, IndexFollowsAlways, OrphansAlways, PTL
  DEF TxPoolSpec

(***************************************************************************)
(* No transaction of the pool is in the best chain, through any sequence   *)
(* of blocks, reorganizes, failures and crashes, until a postponed connect *)
(* has failed (SetBestChainInner, Reorganize).                             *)
(***************************************************************************)
THEOREM PoolStaysOutsideChain == TxPoolSpec => []PoolOutsideChain
  BY PoolAlways, PTL

(***************************************************************************)
(* A reorganize loses no transaction: whatever it takes out of the chain   *)
(* is in the pool afterwards or conflicts with the pool or the new chain   *)
(* (Reorganize).                                                           *)
(***************************************************************************)
THEOREM NothingIsLost == TxPoolSpec => DisconnectedStayKnown
<1>1. TypeOK /\ WorksTowardGoal /\ IndexFollowsChain /\ PoolOutsideChain /\ NextTxMatchesPool
        /\ [TxPoolNext]_allTxVars
      => \A t \in Tx \ (Minted \cup NonStandard) :
            Confirmed(t) /\ ~Confirmed(t)' /\ ~desynced =>
               \/ t \in mempool'.mapTx
               \/ \E o \in Vin[t] : \/ o \in {e[1] : e \in mempool'.mapNextTx}
                                    \/ dbTx'.spent[o] # NoBlock
  BY StayKnownStep DEF StaysKnown
<1> QED
  BY <1>1, TxPoolImplementsChain, TypeCorrect, PoolAlways, NextTxIsRight, PTL
  DEF TxPoolSpec, DisconnectedStayKnown

(***************************************************************************)
(* The maps of the pool and of its orphans always agree (CTxMemPool,       *)
(* AddOrphanTx, EraseOrphanTx).                                            *)
(***************************************************************************)
THEOREM PoolMapsAlwaysAgree == TxPoolSpec => []PoolMapsAgree
  BY NextTxIsRight, OrphanMapsAlwaysAgree, PTL DEF PoolMapsAgree

-----------------------------------------------------------------------------
(***************************************************************************)
(* The wallet.                                                             *)
(***************************************************************************)
WalletType == [txs : SUBSET Tx, hashBlock : [Tx -> BlockOrNone],
               vfSpent : SUBSET Mine, sent : SUBSET Tx]

LEMMA MineTypes == \A o \in Mine : o \in OutPoint /\ o \in Tx \X Nat /\ o[1] \in Tx
  BY WalletAssumption DEF OutPoint

-----------------------------------------------------------------------------
(***************************************************************************)
(* What a wallet w has become, v, when it has heard the pairs of told: a   *)
(* transaction and the block it came with.                                 *)
(***************************************************************************)
Grows(w, v, told) ==
    /\ v \in WalletType
    /\ w.txs \subseteq v.txs /\ w.vfSpent \subseteq v.vfSpent
    /\ v.sent \subseteq w.sent \cup v.txs
    /\ \A o \in v.vfSpent \ w.vfSpent :
          o[1] \in v.txs /\ \E p \in told : p[1] \in v.txs /\ o \in Vin[p[1]]
    /\ \A t \in Tx : \/ v.hashBlock[t] = w.hashBlock[t]
                     \/ v.hashBlock[t] # NoBlock /\ <<t, v.hashBlock[t]>> \in told

LEMMA GrowsNot ==
  ASSUME NEW w \in WalletType, NEW told
  PROVE  Grows(w, w, told)
  BY DEF Grows

LEMMA GrowsMore ==
  ASSUME NEW u, NEW v, NEW w, NEW told, Grows(u, v, told), Grows(v, w, told)
  PROVE  Grows(u, w, told)
  BY DEF Grows

LEMMA GrowsWider ==
  ASSUME NEW v, NEW w, NEW told, NEW more, Grows(v, w, told), told \subseteq more
  PROVE  Grows(v, w, more)
  BY DEF Grows

\* One call of AddToWallet.
LEMMA AddToWalletGrows ==
  ASSUME NEW w \in WalletType, NEW t \in Tx, NEW b \in BlockOrNone
  PROVE  LET v == AddToWallet(w, t, b)
         IN  /\ Grows(w, v, {<<t, b>>})
             /\ t \in v.txs
             /\ b # NoBlock => v.hashBlock[t] = b
             /\ \A o \in Vin[t] \cap Mine : o[1] \in w.txs => o \in v.vfSpent
<1> DEFINE u == [w EXCEPT !.txs = @ \cup {t}, !.hashBlock[t] = IF b = NoBlock THEN @ ELSE b]
           v == AddToWallet(w, t, b)
<1>1. /\ u \in WalletType /\ u.txs = w.txs \cup {t} /\ u.sent = w.sent /\ u.vfSpent = w.vfSpent
      /\ u.hashBlock = [w.hashBlock EXCEPT ![t] = IF b = NoBlock THEN @ ELSE b]
  BY DEF WalletType
<1> HIDE DEF u
<1>2. v = [u EXCEPT !.vfSpent = @ \cup OwnInputs(u, t)]
  BY DEF AddToWallet, WalletUpdateSpent, u
<1>3. OwnInputs(u, t) = {o \in Vin[t] \cap Mine : o[1] \in u.txs}
  BY DEF OwnInputs
<1>4. /\ v \in WalletType /\ v.txs = u.txs /\ v.sent = u.sent /\ v.hashBlock = u.hashBlock
      /\ v.vfSpent = u.vfSpent \cup OwnInputs(u, t)
  BY <1>1, <1>2, <1>3 DEF WalletType
<1> HIDE DEF v
<1>5. \A s \in Tx : \/ v.hashBlock[s] = w.hashBlock[s]
                    \/ s = t /\ v.hashBlock[s] = b /\ b # NoBlock
  BY <1>1, <1>4 DEF WalletType
<1>6. b # NoBlock => v.hashBlock[t] = b
  BY <1>1, <1>4 DEF WalletType
<1>7. Grows(w, v, {<<t, b>>})
  <2>1. \A o \in v.vfSpent \ w.vfSpent : o[1] \in v.txs /\ t \in v.txs /\ o \in Vin[t]
    BY <1>1, <1>3, <1>4
  <2>2. \A s \in Tx : \/ v.hashBlock[s] = w.hashBlock[s]
                      \/ v.hashBlock[s] # NoBlock /\ <<s, v.hashBlock[s]>> \in {<<t, b>>}
    BY <1>5
  <2>3. v.sent = w.sent /\ w.txs \subseteq v.txs /\ w.vfSpent \subseteq v.vfSpent
    BY <1>1, <1>4
  <2>4. \A o \in v.vfSpent \ w.vfSpent :
           o[1] \in v.txs /\ \E p \in {<<t, b>>} : p[1] \in v.txs /\ o \in Vin[p[1]]
    BY <2>1
  <2> QED
    BY <1>4, <2>2, <2>3, <2>4 DEF Grows
<1> QED
  BY <1>1, <1>3, <1>4, <1>6, <1>7 DEF v

\* One call of AddToWalletIfInvolvingMe; with fUpdate the wallet misses nothing of its own.
LEMMA HearGrows ==
  ASSUME NEW w \in WalletType, NEW t \in Tx, NEW b \in BlockOrNone, NEW fUpdate \in BOOLEAN
  PROVE  LET v == AddToWalletIfInvolvingMe(w, t, b, fUpdate)
         IN  /\ Grows(w, v, {<<t, b>>})
             /\ fUpdate /\ IsMine(t) => t \in v.txs /\ (b # NoBlock => v.hashBlock[t] = b)
             /\ fUpdate => \A o \in Vin[t] \cap Mine :
                              o[1] \in w.txs => o \in v.vfSpent /\ t \in v.txs
<1> DEFINE v == AddToWalletIfInvolvingMe(w, t, b, fUpdate)
<1>1. CASE t \in w.txs /\ ~fUpdate
  BY <1>1, GrowsNot DEF AddToWalletIfInvolvingMe
<1>2. CASE ~(t \in w.txs /\ ~fUpdate) /\ (t \in w.txs \/ IsMine(t) \/ IsFromMe(w, t))
  <2>1. v = AddToWallet(w, t, b)
    BY <1>2 DEF AddToWalletIfInvolvingMe
  <2> QED
    BY <2>1, AddToWalletGrows
<1>3. CASE ~(t \in w.txs /\ ~fUpdate) /\ ~(t \in w.txs \/ IsMine(t) \/ IsFromMe(w, t))
  <2>1. v = [w EXCEPT !.vfSpent = @ \cup OwnInputs(w, t)] /\ OwnInputs(w, t) = {}
    BY <1>3 DEF AddToWalletIfInvolvingMe, WalletUpdateSpent, IsFromMe
  <2>2. v = w
    BY <2>1 DEF WalletType
  <2>3. \A o \in Vin[t] \cap Mine : o[1] \notin w.txs
    BY <2>1 DEF OwnInputs
  <2> QED
    BY <1>3, <2>2, <2>3, GrowsNot
<1> QED
  BY <1>1, <1>2, <1>3

-----------------------------------------------------------------------------
(***************************************************************************)
(* The transactions of a block, one after the other.                       *)
(***************************************************************************)
LEMMA TxsOfBlock ==
  ASSUME NEW b \in Block
  PROVE  /\ Len(Vtx[b]) \in Nat /\ DOMAIN Vtx[b] = 1 .. Len(Vtx[b])
         /\ \A i \in 1 .. Len(Vtx[b]) : Vtx[b][i] \in Tx
         /\ Txs(b) = {Vtx[b][i] : i \in 1 .. Len(Vtx[b])}
<1>1. Vtx[b] \in Seq(Tx)
  BY TxAssumption
<1>2. Len(Vtx[b]) \in Nat /\ DOMAIN Vtx[b] = 1 .. Len(Vtx[b])
  BY <1>1
<1>3. \A i \in 1 .. Len(Vtx[b]) : Vtx[b][i] \in Tx
  BY <1>1
<1> QED
  BY <1>2, <1>3 DEF Txs

\* f[i] is the wallet w when it has heard i transactions of b.
Hears(f, n, w, b, fUpdate) ==
    /\ f \in [0 .. n -> WalletType] /\ f[0] = w
    /\ \A i \in 1 .. n : f[i] = AddToWalletIfInvolvingMe(f[i - 1], Vtx[b][i], b, fUpdate)

LEMMA SyncTxsHears ==
  ASSUME NEW w \in WalletType, NEW b \in Block, NEW n \in 0 .. Len(Vtx[b]), NEW fUpdate \in BOOLEAN
  PROVE  \E f : Hears(f, n, w, b, fUpdate) /\ SyncTxs(w, b, n, fUpdate) = f[n]
<1> DEFINE Hear(v, i) == AddToWalletIfInvolvingMe(v, Vtx[b][i], b, fUpdate)
           after == CHOOSE f : f = [i \in 0 .. n |-> IF i = 0 THEN w ELSE Hear(f[i - 1], i)]
<1>1. n \in Nat
  BY TxsOfBlock
<1>2. \A v \in WalletType : \A i \in 1 .. n : Hear(v, i) \in WalletType
  <2>1. \A i \in 1 .. n : Vtx[b][i] \in Tx
    BY TxsOfBlock
  <2> QED
    BY <2>1, HearGrows DEF Grows, BlockOrNone
<1>3. SyncTxs(w, b, n, fUpdate) = after[n]
  BY DEF SyncTxs
<1> HIDE DEF Hear
<1>4. \E f : f = [i \in 0 .. n |-> IF i = 0 THEN w ELSE Hear(f[i - 1], i)]
  <2> DEFINE Advance == [i \in 1 .. n |-> [v \in WalletType |-> Hear(v, i)]]
  <2>1. Advance \in [1 .. n -> [WalletType -> WalletType]]
    BY <1>2
  <2>2. \A i \in 1 .. n : \A v \in WalletType : Advance[i][v] = Hear(v, i)
    OBVIOUS
  <2> HIDE DEF Advance
  <2>3. PICK f : Iterates(f, n, WalletType, w, Advance)
    BY <1>1, <2>1, Recursion
  <2>4. f = [i \in 0 .. n |-> IF i = 0 THEN w ELSE Hear(f[i - 1], i)]
    BY <1>1, <2>2, <2>3 DEF Iterates
  <2> QED
    BY <2>4
<1>5. after = [i \in 0 .. n |-> IF i = 0 THEN w ELSE Hear(after[i - 1], i)]
  BY <1>4
<1> HIDE DEF after
<1>6. after[0] = w /\ \A i \in 1 .. n : after[i] = Hear(after[i - 1], i)
  BY <1>1, <1>5
<1>7. 0 .. n \subseteq {i \in 0 .. n : after[i] \in WalletType}
  <2> DEFINE S == {i \in 0 .. n : after[i] \in WalletType}
  <2>1. 0 \in S /\ \A i \in 1 .. n : i - 1 \in S => i \in S
    BY <1>1, <1>2, <1>6
  <2> HIDE DEF S
  <2>2. 0 .. n \subseteq S
    BY <1>1, <2>1, UpTo
  <2> QED
    BY <2>2 DEF S
<1>8. Hears(after, n, w, b, fUpdate)
  BY <1>5, <1>6, <1>7 DEF Hears, Hear
<1> QED
  BY <1>3, <1>8

\* Whatever it hears, the wallet only grows.
LEMMA SyncTxsGrows ==
  ASSUME NEW w \in WalletType, NEW b \in Block, NEW n \in 0 .. Len(Vtx[b]), NEW fUpdate \in BOOLEAN
  PROVE  Grows(w, SyncTxs(w, b, n, fUpdate), Txs(b) \X {b})
<1>1. PICK f : Hears(f, n, w, b, fUpdate) /\ SyncTxs(w, b, n, fUpdate) = f[n]
  BY SyncTxsHears
<1> DEFINE told == Txs(b) \X {b}
           S == {i \in 0 .. n : Grows(w, f[i], told)}
<1>2. n \in Nat
  BY TxsOfBlock
<1>3. 0 \in S
  BY <1>1, <1>2, GrowsNot DEF Hears
<1>4. ASSUME NEW i \in 1 .. n, i - 1 \in S PROVE i \in S
  <2> DEFINE u == f[i - 1]
             v == f[i]
             t == Vtx[b][i]
  <2>1. u \in WalletType /\ v = AddToWalletIfInvolvingMe(u, t, b, fUpdate)
    BY <1>1, <1>2 DEF Hears
  <2>2. i \in 1 .. Len(Vtx[b])
    BY <1>2, TxsOfBlock
  <2>3. t \in Tx /\ t \in Txs(b)
    BY <2>2, TxsOfBlock
  <2>4. Grows(w, u, told)
    BY <1>4
  <2> HIDE DEF u, v, t
  <2>5. Grows(u, v, {<<t, b>>})
    BY <2>1, <2>3, HearGrows DEF BlockOrNone
  <2>6. Grows(u, v, told)
    BY <2>3, <2>5, GrowsWider
  <2>7. Grows(w, v, told)
    BY <2>4, <2>6, GrowsMore
  <2> QED
    BY <1>2, <2>7 DEF v
<1>5. 0 .. n \subseteq S
  <2> HIDE DEF S
  <2> QED
    BY <1>2, <1>3, <1>4, UpTo
<1>6. n \in S
  <2> HIDE DEF S
  <2>1. n \in 0 .. n
    BY <1>2
  <2> QED
    BY <1>5, <2>1
<1> QED
  BY <1>1, <1>6

\* With fUpdate the wallet misses nothing of its own in the first n transactions.
LEMMA SyncTxsMissesNothing ==
  ASSUME NEW w \in WalletType, NEW b \in Block, NEW n \in 0 .. Len(Vtx[b]),
         \A i \in 1 .. n : \A o \in Vin[Vtx[b][i]] \cap Mine :
            o[1] \in w.txs \/ \E j \in 1 .. i - 1 : o[1] = Vtx[b][j]
  PROVE  LET v == SyncTxs(w, b, n, TRUE)
         IN  \A i \in 1 .. n :
                /\ IsMine(Vtx[b][i]) => Vtx[b][i] \in v.txs /\ v.hashBlock[Vtx[b][i]] = b
                /\ \A o \in Vin[Vtx[b][i]] \cap Mine : o \in v.vfSpent /\ Vtx[b][i] \in v.txs
<1>1. PICK f : Hears(f, n, w, b, TRUE) /\ SyncTxs(w, b, n, TRUE) = f[n]
  BY SyncTxsHears
<1> DEFINE Knows(v, t) ==
              /\ IsMine(t) => t \in v.txs /\ v.hashBlock[t] = b
              /\ \A o \in Vin[t] \cap Mine : o \in v.vfSpent /\ t \in v.txs
           S == {i \in 0 .. n : w.txs \subseteq f[i].txs /\ \A j \in 1 .. i : Knows(f[i], Vtx[b][j])}
<1>2. n \in Nat /\ b # NoBlock /\ b \in BlockOrNone
  BY TxsOfBlock, BlockAssumption DEF BlockOrNone
<1>3. 0 \in S
  BY <1>1, <1>2 DEF Hears
<1>4. ASSUME NEW i \in 1 .. n, i - 1 \in S PROVE i \in S
  <2> DEFINE u == f[i - 1]
             v == f[i]
             t == Vtx[b][i]
  <2>1. u \in WalletType /\ t \in Tx /\ v = AddToWalletIfInvolvingMe(u, t, b, TRUE)
    BY <1>1, <1>2, TxsOfBlock DEF Hears
  <2>2. w.txs \subseteq u.txs /\ \A j \in 1 .. i - 1 : Knows(u, Vtx[b][j])
    BY <1>4
  <2>3. \A j \in 1 .. i - 1 : Vtx[b][j] \in Tx
    BY <1>2, TxsOfBlock
  <2> HIDE DEF u, v, t
  <2>4. /\ Grows(u, v, {<<t, b>>})
        /\ IsMine(t) => t \in v.txs /\ v.hashBlock[t] = b
        /\ \A o \in Vin[t] \cap Mine : o[1] \in u.txs => o \in v.vfSpent /\ t \in v.txs
    BY <1>2, <2>1, HearGrows
  <2>5. w.txs \subseteq v.txs
    BY <2>2, <2>4 DEF Grows
  <2>6. ASSUME NEW j \in 1 .. i - 1 PROVE Knows(v, Vtx[b][j])
    <3>1. Knows(u, Vtx[b][j]) /\ Vtx[b][j] \in Tx
      BY <2>2, <2>3
    <3>2. v.hashBlock[Vtx[b][j]] = u.hashBlock[Vtx[b][j]] \/ v.hashBlock[Vtx[b][j]] = b
      BY <2>4, <3>1 DEF Grows
    <3> QED
      BY <2>4, <3>1, <3>2 DEF Grows
  <2>7. \A o \in Vin[t] \cap Mine : o[1] \in u.txs
    <3>1. ASSUME NEW o \in Vin[t] \cap Mine, NEW j \in 1 .. i - 1, o[1] = Vtx[b][j]
          PROVE  o[1] \in u.txs
      BY <2>2, <3>1 DEF IsMine
    <3> QED
      BY <2>2, <3>1 DEF t
  <2>8. Knows(v, t)
    BY <2>4, <2>7
  <2>9. \A j \in 1 .. i : Knows(v, Vtx[b][j])
    <3> HIDE DEF Knows
    <3>1. \A j \in 1 .. i : j = i \/ j \in 1 .. i - 1
      BY <1>2
    <3> QED
      BY <2>6, <2>8, <3>1 DEF t
  <2> QED
    BY <2>5, <2>9 DEF v
<1>5. 0 .. n \subseteq S
  <2> HIDE DEF S
  <2> QED
    BY <1>2, <1>3, <1>4, UpTo
<1>6. n \in S
  BY <1>2, <1>5
<1> QED
  BY <1>1, <1>6

-----------------------------------------------------------------------------
(***************************************************************************)
(* A scan of the best chain, from a block of it or from any other.         *)
(***************************************************************************)
\* A chain has a block at each height.
LEMMA BlockAtHeight ==
  ASSUME NEW g \in Block, NEW h \in 0 .. Height[g]
  PROVE  \E c \in Chain[g] : Height[c] = h
<1> DEFINE S == {c \in Chain[g] : h <= Height[c]}
<1>1. Chain[g] \subseteq Block /\ g \in Chain[g] /\ Height \in [Block -> Nat]
  BY ChainEnds, BlockAssumption
<1>2. PICK c \in S : \A d \in S : Height[c] <= Height[d]
  <2>1. S \subseteq Block /\ g \in S
    BY <1>1
  <2> HIDE DEF S
  <2> QED
    BY <2>1, LowestBlock
<1>3. CASE Height[c] # h
  <2>1. c # Genesis /\ c \in Block /\ Height[c] \in Nat
    BY <1>1, <1>2, <1>3, BlockAssumption
  <2>2. Prev[c] \in Block /\ Height[c] = Height[Prev[c]] + 1
    BY <2>1, BlockAssumption
  <2>3. Prev[c] \in Chain[g]
    BY <1>2, <2>1, ParentOnChain
  <2>4. Prev[c] \in S
    BY <1>1, <1>2, <1>3, <2>1, <2>2, <2>3
  <2> QED
    BY <1>1, <1>2, <2>2, <2>4
<1> QED
  BY <1>2, <1>3

\* A nonempty set of blocks that is bounded has a highest block.
LEMMA HighestBlock ==
  ASSUME NEW S, S \subseteq Block, S # {}, NEW n \in Nat, \A c \in S : Height[c] <= n
  PROVE  \E b \in S : \A c \in S : Height[c] <= Height[b]
<1> DEFINE T == {n - Height[c] : c \in S}
<1>1. \A c \in S : Height[c] \in Nat
  BY BlockAssumption
<1>2. T \subseteq Nat /\ T # {}
  BY <1>1
<1>3. PICK x \in T : \A y \in T : x <= y
  BY <1>2, LeastNatural
<1>4. PICK b \in S : x = n - Height[b]
  BY <1>3
<1>5. \A c \in S : n - Height[b] <= n - Height[c]
  BY <1>3, <1>4
<1> QED
  BY <1>1, <1>4, <1>5

\* The transactions of the best chain, each with its block.
InBestChain == {p \in Tx \X Block : p[2] \in Chain[pindexBest] /\ p[1] \in Txs(p[2])}

LEMMA ScanGrows ==
  ASSUME pindexBest \in Block, NEW w \in WalletType, NEW b \in Block,
         Height[b] <= Height[pindexBest], NEW fUpdate \in BOOLEAN
  PROVE  Grows(w, ScanForWalletTransactions(w, b, fUpdate), InBestChain)
<1> DEFINE blocks == Height[pindexBest] - Height[b] + 1
           Scan(v, i) == SyncTxs(v, Above(b, i - 1), Len(Vtx[Above(b, i - 1)]), fUpdate)
           after == CHOOSE f : f = [i \in 0 .. blocks |-> IF i = 0 THEN w ELSE Scan(f[i - 1], i)]
<1>1. blocks \in Nat /\ Height[b] \in Nat /\ Height[pindexBest] \in Nat
  BY BlockAssumption
<1>2. ASSUME NEW i \in 1 .. blocks PROVE Above(b, i - 1) \in Chain[pindexBest]
  <2>1. Height[b] + (i - 1) \in 0 .. Height[pindexBest]
    BY <1>1
  <2>2. \E c \in Chain[pindexBest] : Height[c] = Height[b] + (i - 1)
    BY <2>1, BlockAtHeight
  <2> QED
    BY <2>2 DEF Above
<1>3. ASSUME NEW v \in WalletType, NEW i \in 1 .. blocks
      PROVE  Grows(v, Scan(v, i), InBestChain)
  <2> DEFINE c == Above(b, i - 1)
  <2>1. c \in Chain[pindexBest] /\ c \in Block
    BY <1>2, ChainEnds
  <2> HIDE DEF c
  <2>2. Len(Vtx[c]) \in 0 .. Len(Vtx[c]) /\ Txs(c) \subseteq Tx
    BY <2>1, TxsOfBlock
  <2>3. Grows(v, SyncTxs(v, c, Len(Vtx[c]), fUpdate), Txs(c) \X {c})
    BY <2>1, <2>2, SyncTxsGrows
  <2>4. Txs(c) \X {c} \subseteq InBestChain
    BY <2>1, <2>2 DEF InBestChain
  <2>5. Grows(v, SyncTxs(v, c, Len(Vtx[c]), fUpdate), InBestChain)
    BY <2>3, <2>4, GrowsWider
  <2> QED
    BY <2>5 DEF c
<1>4. ScanForWalletTransactions(w, b, fUpdate) = after[blocks]
  BY DEF ScanForWalletTransactions
<1> HIDE DEF Scan, blocks
<1>5. \E f : f = [i \in 0 .. blocks |-> IF i = 0 THEN w ELSE Scan(f[i - 1], i)]
  <2> DEFINE Advance == [i \in 1 .. blocks |-> [v \in WalletType |-> Scan(v, i)]]
  <2>1. Advance \in [1 .. blocks -> [WalletType -> WalletType]]
    BY <1>3 DEF Grows
  <2>2. \A i \in 1 .. blocks : \A v \in WalletType : Advance[i][v] = Scan(v, i)
    OBVIOUS
  <2> HIDE DEF Advance
  <2>3. PICK f : Iterates(f, blocks, WalletType, w, Advance)
    BY <1>1, <2>1, Recursion
  <2>4. f = [i \in 0 .. blocks |-> IF i = 0 THEN w ELSE Scan(f[i - 1], i)]
    BY <1>1, <2>2, <2>3 DEF Iterates
  <2> QED
    BY <2>4
<1>6. after = [i \in 0 .. blocks |-> IF i = 0 THEN w ELSE Scan(after[i - 1], i)]
  BY <1>5
<1> HIDE DEF after
<1>7. after[0] = w /\ \A i \in 1 .. blocks : after[i] = Scan(after[i - 1], i)
  BY <1>1, <1>6
<1> DEFINE S == {i \in 0 .. blocks : Grows(w, after[i], InBestChain)}
<1>8. 0 \in S
  BY <1>1, <1>7, GrowsNot
<1>9. ASSUME NEW i \in 1 .. blocks, i - 1 \in S PROVE i \in S
  <2>1. after[i - 1] \in WalletType /\ Grows(w, after[i - 1], InBestChain)
    BY <1>9 DEF Grows
  <2>2. Grows(after[i - 1], after[i], InBestChain)
    BY <1>3, <1>7, <2>1
  <2>3. Grows(w, after[i], InBestChain)
    BY <2>1, <2>2, GrowsMore
  <2> QED
    BY <1>1, <2>3
<1>10. blocks \in S
  <2> HIDE DEF S
  <2>1. 0 .. blocks \subseteq S /\ blocks \in 0 .. blocks
    BY <1>1, <1>8, <1>9, UpTo
  <2> QED
    BY <2>1
<1> QED
  BY <1>4, <1>10

\* Where the scan of step 8 of AppInit2 begins.
LEMMA RescanFromTypes ==
  ASSUME bestblock \in Block
  PROVE  RescanFrom \in Block
<1> DEFINE common == {b \in Chain[bestblock] : IsInMainChain(b)}
<1>1. CASE common = {}
  BY <1>1, BlockAssumption DEF RescanFrom
<1>2. CASE common # {}
  <2>1. common \subseteq Block /\ Height[bestblock] \in Nat
    BY ChainEnds, BlockAssumption
  <2>2. \A c \in common : Height[c] <= Height[bestblock]
    <3>1. \A c \in Chain[bestblock] : c = bestblock \/ Height[c] < Height[bestblock]
      BY Ancestors
    <3> QED
      BY <2>1, <3>1, BlockAssumption
  <2>3. \E b \in common : \A c \in common : Height[c] <= Height[b]
    <3> HIDE DEF common
    <3> QED
      BY <1>2, <2>1, <2>2, HighestBlock
  <2>4. RescanFrom = CHOOSE b \in common : \A c \in common : Height[c] <= Height[b]
    BY <1>2 DEF RescanFrom
  <2> QED
    BY <2>1, <2>3, <2>4
<1> QED
  BY <1>1, <1>2

-----------------------------------------------------------------------------
(***************************************************************************)
(* The wallet and a transaction index.                                     *)
(***************************************************************************)
\* The wallet knows of every transaction of the index that pays it or that it pays with.
Knows(w, ix) ==
    \A t \in Tx : ix.pos[t] # NoBlock /\ (IsMine(t) \/ Vin[t] \cap Mine # {}) => t \in w.txs

\* A coin that the index says is spent is flagged, unless it was given back.
Flags(w, given, ix) == \A o \in Mine \ given : ix.spent[o] # NoBlock => o \in w.vfSpent

\* Each transaction that pays the wallet is where the wallet believes it to be.
Placed(w, ix) == \A t \in Tx : IsMine(t) /\ ix.pos[t] # NoBlock => w.hashBlock[t] = ix.pos[t]

\* What is spent was created, and is spent by a transaction of the index.
Sane(ix) ==
    \A o \in OutPoint : ix.spent[o] # NoBlock =>
        ix.pos[o[1]] # NoBlock /\ \E t \in Tx : o \in Vin[t] /\ ix.pos[t] # NoBlock

\* The flags belong to transactions of the wallet, and those spend the coins.
FlagsBelong(w) ==
    (\A o \in w.vfSpent : o[1] \in w.txs) /\ w.sent \subseteq w.txs

Spenders(w) == \A o \in w.vfSpent : \E t \in w.txs : o \in Vin[t]

\* Whatever else it hears, the wallet goes on to be right.
LEMMA GrowingStaysRight ==
  ASSUME NEW w \in WalletType, NEW v, NEW told, NEW ix, NEW given, Grows(w, v, told)
  PROVE  /\ FlagsBelong(w) => FlagsBelong(v)
         /\ Spenders(w) => Spenders(v)
         /\ Knows(w, ix) => Knows(v, ix)
         /\ Flags(w, given, ix) => Flags(v, given, ix)
<1>1. FlagsBelong(w) => FlagsBelong(v)
  BY DEF Grows, FlagsBelong
<1>2. Spenders(w) => Spenders(v)
  BY DEF Grows, Spenders
<1>3. Knows(w, ix) => Knows(v, ix)
  BY DEF Grows, Knows
<1>4. Flags(w, given, ix) => Flags(v, given, ix)
  BY DEF Grows, Flags
<1> QED
  BY <1>1, <1>2, <1>3, <1>4

LEMMA ConnectIsSane ==
  ASSUME NEW b \in Block, NEW ix, NEW tip, Connects(b, ix, tip), Sane(ix)
  PROVE  Sane(ConnectBlock(b, ix))
<1> DEFINE new == ConnectBlock(b, ix)
<1>1. /\ b # NoBlock /\ Txs(b) \subseteq Tx
      /\ \A t \in Txs(b) : \E i \in DOMAIN Vtx[b] : t = Vtx[b][i]
      /\ \A i \in DOMAIN Vtx[b] : \A j \in 1 .. i - 1 : Vtx[b][j] \in Txs(b)
  <2>1. \A i \in DOMAIN Vtx[b] : \A j \in 1 .. i - 1 : j \in DOMAIN Vtx[b]
    BY TxsOfBlock
  <2> QED
    BY <2>1, TxsOfBlock, BlockAssumption DEF Txs
<1>2. \A t \in Tx : new.pos[t] = IF t \in Txs(b) THEN b ELSE ix.pos[t]
  BY DEF ConnectBlock
<1>3. \A o \in OutPoint : new.spent[o] = IF o \in Spends(b) THEN b
                                        ELSE IF o[1] \in Txs(b) THEN NoBlock ELSE ix.spent[o]
  BY DEF ConnectBlock
<1> HIDE DEF new
<1>4. ASSUME NEW o \in OutPoint, new.spent[o] # NoBlock
      PROVE  new.pos[o[1]] # NoBlock /\ \E t \in Tx : o \in Vin[t] /\ new.pos[t] # NoBlock
  <2>0. o[1] \in Tx
    BY DEF OutPoint
  <2>1. CASE o \in Spends(b)
    <3>1. PICK t \in Txs(b) : o \in Vin[t]
      BY <2>1 DEF Spends
    <3>2. PICK i \in DOMAIN Vtx[b] : t = Vtx[b][i]
      BY <1>1
    <3>3. InputConnects(b, i, o, ix)
      BY <3>1, <3>2 DEF Connects
    <3>4. o[1] \in Txs(b) \/ ix.pos[o[1]] # NoBlock
      BY <1>1, <3>3 DEF InputConnects
    <3> QED
      BY <1>1, <1>2, <2>0, <3>1, <3>4
  <2>2. CASE o \notin Spends(b)
    <3>1. o[1] \notin Txs(b) /\ ix.spent[o] # NoBlock
      BY <1>3, <1>4, <2>2
    <3>2. ix.pos[o[1]] # NoBlock /\ \E t \in Tx : o \in Vin[t] /\ ix.pos[t] # NoBlock
      BY <3>1 DEF Sane
    <3> QED
      BY <1>1, <1>2, <2>0, <3>1, <3>2
  <2> QED
    BY <2>1, <2>2
<1> QED
  BY <1>4 DEF Sane, new

LEMMA DisconnectIsSane ==
  ASSUME NEW b \in Block, NEW ix, Sane(ix)
  PROVE  Sane(DisconnectBlock(b, ix))
<1> DEFINE new == DisconnectBlock(b, ix)
<1>1. \A t \in Tx : new.pos[t] = IF t \in Txs(b) THEN NoBlock ELSE ix.pos[t]
  BY DEF DisconnectBlock
<1>2. \A o \in OutPoint : new.spent[o] # NoBlock =>
         o \notin Spends(b) /\ o[1] \notin Txs(b) /\ ix.spent[o] # NoBlock
  BY DEF DisconnectBlock
<1> HIDE DEF new
<1>3. ASSUME NEW o \in OutPoint, new.spent[o] # NoBlock
      PROVE  new.pos[o[1]] # NoBlock /\ \E t \in Tx : o \in Vin[t] /\ new.pos[t] # NoBlock
  <2>1. o[1] \in Tx
    BY DEF OutPoint
  <2>2. ix.pos[o[1]] # NoBlock /\ \E t \in Tx : o \in Vin[t] /\ ix.pos[t] # NoBlock
    BY <1>2, <1>3 DEF Sane
  <2>3. PICK t \in Tx : o \in Vin[t] /\ ix.pos[t] # NoBlock
    BY <2>2
  <2>4. t \notin Txs(b)
    BY <1>2, <1>3, <2>3 DEF Spends
  <2> QED
    BY <1>1, <1>2, <1>3, <2>1, <2>2, <2>3, <2>4
<1> QED
  BY <1>3 DEF Sane, new

\* The wallet has heard of a block that connects: it is right of the index with the block.
LEMMA ConnectIsHeard ==
  ASSUME NEW b \in Block, NEW ix, NEW tip, Connects(b, ix, tip),
         NEW w \in WalletType, NEW given, Knows(w, ix), Flags(w, given, ix)
  PROVE  LET v == SyncConnected(w, b)
             new == ConnectBlock(b, ix)
         IN  /\ Knows(v, new) /\ Flags(v, given, new)
             /\ Placed(w, ix) => Placed(v, new)
<1> DEFINE v == SyncConnected(w, b)
           new == ConnectBlock(b, ix)
           n == Len(Vtx[b])
<1>1. /\ n \in Nat /\ n \in 0 .. n /\ DOMAIN Vtx[b] = 1 .. n
      /\ \A i \in 1 .. n : Vtx[b][i] \in Tx
      /\ Txs(b) = {Vtx[b][i] : i \in 1 .. n}
  BY TxsOfBlock
<1>2. v = SyncTxs(w, b, n, TRUE)
  BY DEF SyncConnected
<1>3. \A t \in Tx : new.pos[t] = IF t \in Txs(b) THEN b ELSE ix.pos[t]
  BY DEF ConnectBlock
<1>4. \A o \in OutPoint : new.spent[o] = IF o \in Spends(b) THEN b
                                        ELSE IF o[1] \in Txs(b) THEN NoBlock ELSE ix.spent[o]
  BY DEF ConnectBlock
<1> HIDE DEF v, new, n
<1>5. Grows(w, v, Txs(b) \X {b})
  BY <1>1, <1>2, SyncTxsGrows DEF n
<1>6. \A i \in 1 .. n : \A o \in Vin[Vtx[b][i]] \cap Mine :
         o[1] \in w.txs \/ \E j \in 1 .. i - 1 : o[1] = Vtx[b][j]
  <2> TAKE i \in 1 .. n
  <2> TAKE o \in Vin[Vtx[b][i]] \cap Mine
  <2>1. InputConnects(b, i, o, ix)
    BY <1>1 DEF Connects
  <2>2. (\E j \in 1 .. i - 1 : o[1] = Vtx[b][j]) \/ ix.pos[o[1]] # NoBlock
    BY <2>1 DEF InputConnects
  <2>3. o[1] \in Tx /\ IsMine(o[1])
    BY MineTypes DEF IsMine
  <2> QED
    BY <2>2, <2>3 DEF Knows
<1>7. \A i \in 1 .. n :
         /\ IsMine(Vtx[b][i]) => Vtx[b][i] \in v.txs /\ v.hashBlock[Vtx[b][i]] = b
         /\ \A o \in Vin[Vtx[b][i]] \cap Mine : o \in v.vfSpent /\ Vtx[b][i] \in v.txs
  <2>1. \A i \in 1 .. n :
           /\ IsMine(Vtx[b][i]) => /\ Vtx[b][i] \in SyncTxs(w, b, n, TRUE).txs
                                   /\ SyncTxs(w, b, n, TRUE).hashBlock[Vtx[b][i]] = b
           /\ \A o \in Vin[Vtx[b][i]] \cap Mine :
                 /\ o \in SyncTxs(w, b, n, TRUE).vfSpent
                 /\ Vtx[b][i] \in SyncTxs(w, b, n, TRUE).txs
    BY <1>1, <1>6, SyncTxsMissesNothing DEF n
  <2> QED
    BY <1>2, <2>1
<1>8. \A t \in Txs(b) :
         /\ IsMine(t) => t \in v.txs /\ v.hashBlock[t] = b
         /\ \A o \in Vin[t] \cap Mine : o \in v.vfSpent /\ t \in v.txs
  BY <1>1, <1>7
<1>9. Knows(v, new)
  <2> SUFFICES ASSUME NEW t \in Tx, new.pos[t] # NoBlock, IsMine(t) \/ Vin[t] \cap Mine # {}
               PROVE  t \in v.txs
    BY DEF Knows
  <2>1. CASE t \in Txs(b)
    BY <1>8, <2>1
  <2>2. CASE t \notin Txs(b)
    <3>1. t \in w.txs
      BY <1>3, <2>2 DEF Knows
    <3> QED
      BY <1>5, <3>1 DEF Grows
  <2> QED
    BY <2>1, <2>2
<1>10. Flags(v, given, new)
  <2> SUFFICES ASSUME NEW o \in Mine \ given, new.spent[o] # NoBlock
               PROVE  o \in v.vfSpent
    BY DEF Flags
  <2>1. CASE o \in Spends(b)
    BY <1>8, <2>1 DEF Spends
  <2>2. CASE o \notin Spends(b)
    <3>1. ix.spent[o] # NoBlock
      BY <1>4, <2>2, MineTypes
    <3>2. o \in w.vfSpent
      BY <3>1 DEF Flags
    <3> QED
      BY <1>5, <3>2 DEF Grows
  <2> QED
    BY <2>1, <2>2
<1>11. ASSUME Placed(w, ix) PROVE Placed(v, new)
  <2> SUFFICES ASSUME NEW t \in Tx, IsMine(t), new.pos[t] # NoBlock
               PROVE  v.hashBlock[t] = new.pos[t]
    BY DEF Placed
  <2>1. CASE t \in Txs(b)
    BY <1>3, <1>8, <2>1
  <2>2. CASE t \notin Txs(b)
    <3>1. w.hashBlock[t] = new.pos[t]
      BY <1>3, <1>11, <2>2 DEF Placed
    <3>2. v.hashBlock[t] = w.hashBlock[t]
      BY <1>5, <2>2 DEF Grows
    <3> QED
      BY <3>1, <3>2
  <2> QED
    BY <2>1, <2>2
<1> QED
  BY <1>9, <1>10, <1>11 DEF v, new

\* A block of which no transaction is in the index moves none of the index.
LEMMA NewBlockMovesNothing ==
  ASSUME NEW b, NEW ix, \A t \in Txs(b) : ix.pos[t] = NoBlock,
         NEW w, NEW v, Grows(w, v, Txs(b) \X {b}), Placed(w, ix)
  PROVE  Placed(v, ix)
<1> SUFFICES ASSUME NEW t \in Tx, IsMine(t), ix.pos[t] # NoBlock PROVE v.hashBlock[t] = ix.pos[t]
  BY DEF Placed
<1>1. t \notin Txs(b) /\ w.hashBlock[t] = ix.pos[t]
  BY DEF Placed
<1> QED
  BY <1>1 DEF Grows

\* A disconnected block gives back inputs of its coinstakes, nothing else.
LEMMA DisconnectIsHeard ==
  ASSUME NEW b \in Block, NEW w \in WalletType
  PROVE  LET v == SyncDisconnected(w, b)
         IN  /\ v \in WalletType /\ v.txs = w.txs /\ v.hashBlock = w.hashBlock /\ v.sent = w.sent
             /\ v.vfSpent = w.vfSpent \ Refunds(w, b)
             /\ Refunds(w, b) \subseteq Mine \cap Spends(b)
<1>1. Refunds(w, b) \subseteq Mine \cap Spends(b)
  BY DEF Refunds, OwnInputs, Spends
<1> QED
  BY <1>1 DEF SyncDisconnected, WalletType

-----------------------------------------------------------------------------
(***************************************************************************)
(* The steps of the chain, as the wallet sees them.                        *)
(***************************************************************************)
LEMMA WalletStepIsChainStep == [WalletNext]_<<allTxVars, walletVars>> => [Next]_vars
<1> SUFFICES ASSUME [WalletNext]_<<allTxVars, walletVars>> PROVE [Next]_vars
  OBVIOUS
<1>1. CASE ChainAndWallet
  <2>1. TxPoolNext
    BY <1>1 DEF ChainAndWallet, TxPoolNext
  <2> QED
    BY <2>1, TxPoolStepIsChainStep
<1>2. CASE TxAndWallet
  BY <1>2 DEF TxAndWallet, ReceiveTx, SubmitTx, TryOrphanTx, NextTxHash, ReceiveOrphanTx
<1>3. CASE RepairWallet \/ LoadWallet \/ ReacceptWalletTransactions \/ \E t \in Tx : SendMoney(t)
  BY <1>3 DEF RepairWallet, LoadWallet, ReacceptWalletTransactions, SendMoney
<1>4. CASE CrashWallet
  BY <1>4 DEF CrashWallet, CrashNode, Next
<1>5. CASE UNCHANGED <<allTxVars, walletVars>>
  BY <1>5 DEF allTxVars
<1> QED
  BY <1>1, <1>2, <1>3, <1>4, <1>5 DEF WalletNext

\* The index that has everything the chain has written, committed or not.
Latest == IF pc = "reorg" THEN txnTx ELSE dbTx

\* The block that is about to be connected goes on top of what the index follows.
LEMMA ConnectingBlock ==
  ASSUME TypeOK, WorksTowardGoal, CanConnect
  PROVE  /\ Connecting \in mapBlockIndex \ {Genesis}
         /\ Connecting \in Block
         /\ Connects(Connecting, Latest, pindexBest)
         /\ ~CanDisconnect
         /\ IndexFollowsChain /\ ~desynced => Follows(Latest, Prev[Connecting])
<1>0. {pindexBest, cur, goal, mid} \subseteq Block /\ mapBlockIndex \subseteq Block
  BY DEF TypeOK
<1>1. CASE pc = "setbest" /\ Prev[goal] = pindexBest /\ Connects(goal, dbTx, pindexBest)
  <2>1. Connecting = goal /\ Latest = dbTx /\ ~CanDisconnect
    BY <1>1 DEF Connecting, Latest, CanDisconnect
  <2>2. goal # Genesis
    BY <1>0, <1>1, BlockAssumption
  <2>3. IndexFollowsChain /\ ~desynced => Follows(dbTx, Prev[goal])
    BY <1>1 DEF IndexFollowsChain
  <2> QED
    BY <1>0, <1>1, <2>1, <2>2, <2>3 DEF TypeOK
<1>2. CASE /\ pc = "reorg" /\ cur \in Chain[mid] \ {mid}
           /\ Connects(Connecting, txnTx, pindexBest)
  <2>1. Connecting = Toward(cur, mid) /\ Latest = txnTx /\ ~CanDisconnect
    BY <1>2 DEF Connecting, Latest, CanDisconnect
  <2>2. Toward(cur, mid) \in Chain[mid] \ {Genesis} /\ Prev[Toward(cur, mid)] = cur
    BY <1>0, <1>2, TowardOnChain
  <2>3. Chain[mid] \subseteq mapBlockIndex
    BY IndexedChains DEF TypeOK
  <2>4. IndexFollowsChain /\ ~desynced => Follows(txnTx, cur)
    BY <1>2 DEF IndexFollowsChain
  <2> QED
    BY <1>0, <1>2, <2>1, <2>2, <2>3, <2>4
<1>3. CASE pc = "secondary" /\ cur # goal /\ Connects(Connecting, dbTx, pindexBest)
  <2>1. Connecting = Toward(cur, goal) /\ Latest = dbTx /\ ~CanDisconnect
    BY <1>3 DEF Connecting, Latest, CanDisconnect
  <2>2. cur \in Chain[goal]
    BY <1>3 DEF WorksTowardGoal
  <2>3. Toward(cur, goal) \in Chain[goal] \ {Genesis} /\ Prev[Toward(cur, goal)] = cur
    BY <1>0, <1>3, <2>2, TowardOnChain
  <2>4. Chain[goal] \subseteq mapBlockIndex
    BY IndexedChains DEF TypeOK
  <2>5. IndexFollowsChain /\ ~desynced => Follows(dbTx, cur)
    BY <1>3 DEF IndexFollowsChain
  <2> QED
    BY <1>0, <1>3, <2>1, <2>3, <2>4, <2>5
<1> QED
  BY <1>1, <1>2, <1>3 DEF CanConnect

\* The index has none of its transactions yet.
LEMMA ConnectingIsNew ==
  ASSUME TypeOK, WorksTowardGoal, IndexFollowsChain, ~desynced, CanConnect
  PROVE  \A t \in Txs(Connecting) : Latest.pos[t] = NoBlock
<1> DEFINE b == Connecting
           p == Prev[b]
<1>1. /\ b \in mapBlockIndex \ {Genesis} /\ b \in Block
      /\ Connects(b, Latest, pindexBest) /\ Follows(Latest, p)
  BY ConnectingBlock
<1>2. HeightInCoinbases(b)
  BY <1>1, IndexedHeights DEF IndexFollowsChain
<1>3. p \in Block
  BY <1>1, BlockAssumption
<1> HIDE DEF b
<1>4. \A t \in Txs(b) : \A a \in Chain[p] : t \notin Txs(a)
  BY <1>1, <1>2, ConnectsRepeatsNothing DEF Follows
<1>5. \A t \in Txs(b) : t \in Tx
  BY <1>1, TxsOfBlock
<1>6. \A t \in Txs(b) : IndexOf(p).pos[t] = NoBlock
  BY <1>1, <1>3, <1>4, <1>5, ConfirmedOnChain DEF Follows
<1> QED
  BY <1>1, <1>6 DEF Follows, b

LEMMA BlockConnectsStep ==
  ASSUME BlockConnects
  PROVE  /\ CanConnect /\ UNCHANGED <<faults, desynced>> /\ ~ReorganizeFails
         /\ Latest' = ConnectBlock(Connecting, Latest)
         /\ dbTx' = dbTx \/ dbTx' = Latest'
<1>1. CASE ExtendBestChain
  <2>1. pc' \in {"pending", "keycheck", "writesync"}
    BY <1>1 DEF ExtendBestChain, Succeed, Goto
  <2> QED
    BY <1>1, <2>1 DEF ExtendBestChain, CanConnect, Latest, Connecting, TxnCommit, bounds, history,
                      ReorganizeFails
<1>2. CASE ConnectStep
  <2>1. cur \in Chain[mid] \ {mid}
    BY <1>2 DEF ConnectStep
  <2>2. pc = "reorg" /\ pc' = "reorg" /\ UNCHANGED <<dbTx, faults, desynced>>
    BY <1>2 DEF ConnectStep, db, bounds, history
  <2>3. Connecting = Toward(cur, mid)
    BY <2>2 DEF Connecting
  <2>4. Connects(Connecting, txnTx, pindexBest) /\ txnTx' = ConnectBlock(Connecting, txnTx)
    BY <1>2, <2>3 DEF ConnectStep
  <2>5. ~ReorganizeFails
    BY <2>2 DEF ReorganizeFails, Fail, Goto, AfterFailure
  <2> QED
    BY <2>1, <2>2, <2>4, <2>5 DEF CanConnect, Latest
<1>3. CASE ConnectSecondary
  <2>1. pc = "secondary" /\ pc' = "secondary" /\ UNCHANGED <<faults, desynced>> /\ cur # goal
    BY <1>3 DEF ConnectSecondary, bounds, history
  <2>2. Connecting = Toward(cur, goal)
    BY <2>1 DEF Connecting
  <2>3. Connects(Connecting, dbTx, pindexBest) /\ dbTx' = ConnectBlock(Connecting, dbTx)
    BY <1>3, <2>2 DEF ConnectSecondary, TxnCommit
  <2> QED
    BY <2>1, <2>3 DEF CanConnect, Latest, ReorganizeFails
<1> QED
  BY <1>1, <1>2, <1>3 DEF BlockConnects

LEMMA DisconnectIsStep ==
  ASSUME DisconnectStep
  PROVE  /\ CanDisconnect /\ ~CanConnect /\ UNCHANGED <<faults, dbTx, desynced>>
         /\ ~BlockConnects /\ ~ReorganizeFails
         /\ Latest' = DisconnectBlock(cur, Latest)
<1>1. pc = "reorg" /\ pc' = "reorg" /\ cur \notin Chain[mid] /\ UNCHANGED <<dbTx, faults, desynced>>
  BY DEF DisconnectStep, db, bounds, history
<1>2. CanDisconnect /\ ~CanConnect
  BY <1>1 DEF DisconnectStep, CanDisconnect, CanConnect
<1>3. ~BlockConnects /\ ~ReorganizeFails
  BY <1>1 DEF BlockConnects, ExtendBestChain, ConnectStep, ConnectSecondary, ReorganizeFails,
              Fail, Goto, AfterFailure
<1> QED
  BY <1>1, <1>2, <1>3 DEF DisconnectStep, Latest

\* Every other step leaves no transaction open that has written anything.
LEMMA OtherStep ==
  ASSUME BlockStep \/ OtherChainStep, ~BlockConnects, ~DisconnectStep
  PROVE  /\ Latest' = dbTx'
         /\ dbTx' = dbTx \/ (CommitReorganize /\ dbTx' = Latest)
         /\ Latest' = Latest \/ ReorganizeFails
         /\ faults' # faults => dbTx' = dbTx
         /\ CommitReorganize => faults' = faults /\ cur = mid /\ Latest' = Latest
<1>1. CASE CommitReorganize
  <2>1. pc = "reorg" /\ pc' = "secondary" /\ dbTx' = txnTx /\ faults' = faults /\ cur = mid
    BY <1>1 DEF CommitReorganize, TxnCommit, Goto, bounds
  <2> QED
    BY <1>1, <2>1 DEF Latest
<1>2. CASE ReorganizeFails
  <2>1. pc = "reorg" /\ pc' # "reorg" /\ dbTx' = dbTx /\ pc' # "secondary"
    BY <1>2 DEF ReorganizeFails, Fail, Goto, AfterFailure, TxnAbort, db
  <2>2. ~CommitReorganize
    BY <2>1 DEF CommitReorganize, Goto
  <2> QED
    BY <1>2, <2>1, <2>2 DEF Latest
<1>3. CASE StartReorganize
  <2>1. pc = "setbest" /\ pc' = "reorg" /\ dbTx' = dbTx /\ txnTx' = dbTx
    BY <1>3 DEF StartReorganize, TxnBegin, db
  <2> QED
    BY <2>1 DEF Latest, CommitReorganize
<1>4. CASE ~CommitReorganize /\ ~ReorganizeFails /\ ~StartReorganize
  <2>1. ASSUME NEW b \in Block, AcceptBlock(b) \/ ProcessSyncCheckpoint(b)
        PROVE  dbTx' = dbTx /\ pc # "reorg" /\ pc' # "reorg"
    BY <2>1 DEF AcceptBlock, ProcessSyncCheckpoint, Call, Goto, Enforce, Write, db, control
  <2>2. ASSUME SetBestChainFails \/ SecondaryFails \/ FinishSetBestChain
               \/ AcceptPendingSyncCheckpoint
        PROVE  dbTx' = dbTx /\ pc # "reorg" /\ pc' # "reorg"
    BY <2>2 DEF SetBestChainFails, SecondaryFails, FinishSetBestChain, AcceptPendingSyncCheckpoint,
                Fail, AfterFailure, Succeed, Goto, Enforce, Write, Call, db
  <2>3. ASSUME WriteSyncCheckpoint \/ WriteSyncCheckpointFails \/ ResetSyncCheckpoint
               \/ LoadBlockIndex \/ CheckMasterKey
        PROVE  dbTx' = dbTx /\ pc # "reorg" /\ pc' # "reorg"
    BY <2>3 DEF WriteSyncCheckpoint, WriteSyncCheckpointFails, ResetSyncCheckpoint, LoadBlockIndex,
                CheckMasterKey, Goto, Enforce, Write, Call, db
  <2>4. dbTx' = dbTx /\ pc # "reorg" /\ pc' # "reorg"
    BY <1>4, <2>1, <2>2, <2>3 DEF BlockStep, OtherChainStep, BlockConnects, Step
  <2> QED
    BY <1>4, <2>4 DEF Latest
<1> QED
  BY <1>1, <1>2, <1>3, <1>4

-----------------------------------------------------------------------------
(***************************************************************************)
(* The invariant.  Flags and the transactions known are right of both      *)
(* indexes, the committed one and the one with what is being written: what *)
(* DisconnectBlock takes back in the one stays in the other until the      *)
(* commit, and the wallet must be right whichever of them a crash leaves.  *)
(***************************************************************************)
RightWallet(w) ==
    /\ w \in WalletType /\ FlagsBelong(w)
    /\ unheard \/ /\ \A ix \in {dbTx, Latest} : Knows(w, ix) /\ Flags(w, refunded, ix)
                  /\ Spenders(w)
    /\ desynced \/ misled \/ unheard \/ Placed(w, Latest)

WalletIsRight ==
    /\ WalletTypeOK /\ RightWallet(wallet)
    /\ \A o \in refunded : dbTx.spent[o] # NoBlock
    /\ Sane(dbTx) /\ Sane(Latest)
    /\ pc # "idle" => vWorkQueue = << >>

\* What is no longer exempted is flagged, or the index says it is not spent.
LEMMA UnsettledFlags ==
  ASSUME NEW given, NEW ix, Flags(wallet', given, ix), refunded' = Unsettled(given),
         \A o \in given : ix.spent[o] # NoBlock => dbTx'.spent[o] # NoBlock
  PROVE  Flags(wallet', refunded', ix)
  BY DEF Flags, Unsettled

\* The parts of the invariant that say what wallet, refunded and bestblock are.
LEMMA WalletTypes ==
  WalletTypeOK <=> /\ wallet \in WalletType /\ FlagsBelong(wallet)
                   /\ bestblock \in mapBlockIndex
                   /\ stage \in {"unloaded", "loaded", "running"}
                   /\ repairs \in 0 .. MaxRepairs
                   /\ refunded \subseteq Mine
                   /\ misled \in BOOLEAN /\ unheard \in BOOLEAN
  BY DEF WalletTypeOK, WalletType, FlagsBelong

\* The same of the next state.
LEMMA WalletTypesNext ==
  ASSUME wallet' \in WalletType, FlagsBelong(wallet'), (bestblock \in mapBlockIndex)',
         stage' \in {"unloaded", "loaded", "running"}, repairs' \in 0 .. MaxRepairs,
         refunded' \subseteq Mine, misled' \in BOOLEAN, unheard' \in BOOLEAN
  PROVE  WalletTypeOK'
  BY DEF WalletTypeOK, WalletType, FlagsBelong

\* Nothing is open between operations: both indexes are the committed one.
LEMMA NothingOpen ==
  ASSUME pc # "reorg", UNCHANGED vars
  PROVE  Latest = dbTx /\ Latest' = dbTx /\ dbTx' = dbTx
  BY DEF Latest, vars, control, db

(***************************************************************************)
(* A step in which the wallet, or what the step has made of it first,      *)
(* hears of something and the chain stands still.                          *)
(***************************************************************************)
LEMMA HearingStep ==
  ASSUME WalletIsRight, UNCHANGED <<vars, bestblock, misled, unheard>>,
         NEW u, RightWallet(u), NEW told, Grows(u, wallet', told), refunded' = Unsettled(refunded),
         stage' \in {"unloaded", "loaded", "running"}, repairs' \in 0 .. MaxRepairs,
         desynced \/ misled \/ unheard \/ Placed(wallet', Latest),
         pc # "idle" => vWorkQueue' = << >>
  PROVE  WalletIsRight'
<1>1. /\ UNCHANGED <<dbTx, desynced, pc, mapBlockIndex>> /\ Latest' = Latest
  BY DEF vars, db, history, control, index, txn, Latest
<1>2. u \in WalletType /\ FlagsBelong(u) /\ refunded \subseteq Mine
  BY WalletTypes DEF WalletIsRight, RightWallet
<1>3. FlagsBelong(wallet') /\ (Spenders(u) => Spenders(wallet')) /\ wallet' \in WalletType
  BY <1>2, GrowingStaysRight DEF Grows
<1>4. refunded' \subseteq Mine /\ \A o \in refunded' : dbTx'.spent[o] # NoBlock
  BY <1>2 DEF Unsettled
<1>5. WalletTypeOK'
  BY <1>1, <1>3, <1>4, WalletTypes, WalletTypesNext DEF WalletIsRight
<1>6. ASSUME ~unheard, NEW ix \in {dbTx, Latest}
      PROVE  Knows(wallet', ix) /\ Flags(wallet', refunded', ix)
  <2>1. Knows(wallet', ix) /\ Flags(wallet', refunded, ix)
    BY <1>2, <1>6, GrowingStaysRight DEF RightWallet
  <2> QED
    BY <1>1, <2>1, UnsettledFlags DEF WalletIsRight
<1>7. Sane(dbTx') /\ Sane(Latest')
  BY <1>1 DEF WalletIsRight
<1>8. unheard' \/ \A ix \in {dbTx', Latest'} : Knows(wallet', ix) /\ Flags(wallet', refunded', ix)
  BY <1>1, <1>6
<1>9. desynced' \/ misled' \/ unheard' \/ Placed(wallet', Latest')
  BY <1>1
<1>10. unheard' \/ Spenders(wallet')
  BY <1>3 DEF RightWallet
<1>11. RightWallet(wallet)'
  BY <1>3, <1>8, <1>9, <1>10 DEF RightWallet, Knows, Flags, Placed, FlagsBelong, Spenders
<1> QED
  BY <1>1, <1>4, <1>5, <1>7, <1>11 DEF WalletIsRight, Sane

\* A transaction without a block moves none.
LEMMA NoBlockMovesNothing ==
  ASSUME NEW t \in Tx, NEW w, NEW v, Grows(w, v, {<<t, NoBlock>>}), NEW ix, Placed(w, ix)
  PROVE  Placed(v, ix)
  BY DEF Grows, Placed

LEMMA TxStepIsRight ==
  ASSUME WalletIsRight, TxAndWallet
  PROVE  WalletIsRight'
<1>1. RightWallet(wallet) /\ wallet \in WalletType
  BY DEF WalletIsRight, RightWallet
<1>2. UNCHANGED vars /\ pc = "idle"
  BY DEF TxAndWallet, ReceiveTx, SubmitTx, TryOrphanTx, NextTxHash, ReceiveOrphanTx, Ready,
         WalletIsRight
<1>3. UNCHANGED <<bestblock, stage, repairs, misled, unheard>> /\ refunded' = Unsettled(refunded)
  BY DEF TxAndWallet
<1>4. \E t \in Tx : Grows(wallet, wallet', {<<t, NoBlock>>})
  <2>1. \A t \in Tx : /\ Grows(wallet, wallet, {<<t, NoBlock>>})
                      /\ Grows(wallet, AddToWalletIfInvolvingMe(wallet, t, NoBlock, TRUE),
                               {<<t, NoBlock>>})
    BY <1>1, GrowsNot, HearGrows DEF BlockOrNone
  <2>2. \E t \in Tx : TRUE
    BY TxAssumption, BlockAssumption, TxsOfBlock
  <2>3. \E t \in Tx : wallet' \in {wallet, AddToWalletIfInvolvingMe(wallet, t, NoBlock, TRUE)}
    BY <2>2 DEF TxAndWallet
  <2> QED
    BY <2>1, <2>3
<1>5. PICK t \in Tx : Grows(wallet, wallet', {<<t, NoBlock>>})
  BY <1>4
<1>6. desynced \/ misled \/ unheard \/ Placed(wallet', Latest)
  BY <1>1, <1>5, NoBlockMovesNothing DEF RightWallet
<1>7. stage \in {"unloaded", "loaded", "running"} /\ repairs \in 0 .. MaxRepairs
  BY DEF WalletIsRight, WalletTypeOK
<1> QED
  BY <1>1, <1>2, <1>3, <1>5, <1>6, <1>7, HearingStep

LEMMA SendMoneyIsRight ==
  ASSUME WalletIsRight, NEW t \in Tx, SendMoney(t)
  PROVE  WalletIsRight'
<1> DEFINE w == AddToWallet(wallet, t, NoBlock)
<1>1. RightWallet(wallet) /\ wallet \in WalletType
  BY DEF WalletIsRight, RightWallet
<1>2. Grows(wallet, w, {<<t, NoBlock>>}) /\ t \in w.txs
  BY <1>1, AddToWalletGrows DEF BlockOrNone
<1>3. Vin[t] \subseteq Mine /\ \A o \in Vin[t] : o[1] \in wallet.txs
  BY DEF SendMoney, AvailableCoins
<1>4. wallet' = [w EXCEPT !.vfSpent = @ \cup Vin[t], !.sent = @ \cup {t}]
  BY DEF SendMoney, CommitTransaction
<1> HIDE DEF w
<1>5. /\ wallet' \in WalletType /\ wallet'.txs = w.txs /\ wallet'.hashBlock = w.hashBlock
      /\ wallet'.vfSpent = w.vfSpent \cup Vin[t] /\ wallet'.sent = w.sent \cup {t}
  BY <1>2, <1>3, <1>4 DEF Grows, WalletType
<1>6. Grows(w, wallet', {<<t, NoBlock>>})
  BY <1>2, <1>3, <1>5 DEF Grows
<1>7. Grows(wallet, wallet', {<<t, NoBlock>>})
  BY <1>2, <1>6, GrowsMore
<1>8. desynced \/ misled \/ unheard \/ Placed(wallet', Latest)
  BY <1>1, <1>7, NoBlockMovesNothing DEF RightWallet
<1>9. /\ UNCHANGED <<vars, bestblock, stage, repairs, misled, unheard>>
      /\ refunded' = Unsettled(refunded) /\ pc = "idle"
  BY DEF SendMoney, Ready
<1>10. stage \in {"unloaded", "loaded", "running"} /\ repairs \in 0 .. MaxRepairs
  BY DEF WalletIsRight, WalletTypeOK
<1> QED
  BY <1>1, <1>7, <1>8, <1>9, <1>10, HearingStep

\* A scan finds each transaction in the block that the index has for it.
LEMMA ScanMovesNothing ==
  ASSUME TypeOK, IndexFollowsChain, ~desynced, pc = "idle",
         NEW w, NEW v, Grows(w, v, InBestChain), Placed(w, Latest)
  PROVE  Placed(v, Latest)
<1>1. pindexBest = dbBest /\ Follows(dbTx, dbBest) /\ Latest = dbTx /\ dbBest \in Block
  BY DEF IndexFollowsChain, Latest, TypeOK
<1> SUFFICES ASSUME NEW t \in Tx, IsMine(t), dbTx.pos[t] # NoBlock
             PROVE  v.hashBlock[t] = dbTx.pos[t]
  BY <1>1 DEF Placed
<1>2. w.hashBlock[t] = dbTx.pos[t]
  BY <1>1 DEF Placed
<1>3. CASE <<t, v.hashBlock[t]>> \in InBestChain
  <2>1. v.hashBlock[t] \in Chain[dbBest] /\ t \in Txs(v.hashBlock[t])
    BY <1>1, <1>3 DEF InBestChain
  <2>2. BlockOf(t, dbBest) = v.hashBlock[t]
    BY <1>1, <2>1, IndexOfSoundChain DEF Follows
  <2> QED
    BY <1>1, <2>2 DEF Follows, IndexOf
<1> QED
  BY <1>2, <1>3 DEF Grows

(***************************************************************************)
(* v has other flags than w where the committed index says so: of a coin   *)
(* that is spent, or no longer of one that is not.                         *)
(***************************************************************************)
Mended(w, v) ==
    /\ v \in WalletType
    /\ v.txs = w.txs /\ v.hashBlock = w.hashBlock /\ v.sent = w.sent
    /\ \A o \in v.vfSpent \ w.vfSpent : o[1] \in w.txs /\ dbTx.spent[o] # NoBlock
    /\ \A o \in w.vfSpent \ v.vfSpent : dbTx.spent[o] = NoBlock

LEMMA MendedIsRight ==
  ASSUME WalletIsRight, Latest = dbTx, NEW v, Mended(wallet, v)
  PROVE  RightWallet(v)
<1>1. FlagsBelong(v) /\ v \in WalletType
  BY DEF WalletIsRight, RightWallet, FlagsBelong, Mended
<1>2. ASSUME ~unheard PROVE Knows(v, dbTx) /\ Flags(v, refunded, dbTx) /\ Spenders(v)
  <2>1. Knows(wallet, dbTx) /\ Flags(wallet, refunded, dbTx) /\ Spenders(wallet)
    BY <1>2 DEF WalletIsRight, RightWallet
  <2>2. Knows(v, dbTx)
    BY <2>1 DEF Mended, Knows
  <2>3. Flags(v, refunded, dbTx)
    BY <2>1 DEF Mended, Flags
  <2>4. ASSUME NEW o \in v.vfSpent PROVE \E t \in v.txs : o \in Vin[t]
    <3>1. CASE o \in wallet.vfSpent
      BY <2>1, <3>1 DEF Spenders, Mended
    <3>2. CASE o \notin wallet.vfSpent
      <4>1. dbTx.spent[o] # NoBlock /\ o \in Mine /\ o \in OutPoint
        BY <3>2, MineTypes DEF Mended, WalletType
      <4>2. PICK t \in Tx : o \in Vin[t] /\ dbTx.pos[t] # NoBlock
        BY <4>1 DEF WalletIsRight, Sane
      <4> QED
        BY <2>1, <4>1, <4>2 DEF Knows, Mended
    <3> QED
      BY <3>1, <3>2
  <2> QED
    BY <2>2, <2>3, <2>4 DEF Spenders
<1>3. desynced \/ misled \/ unheard \/ Placed(v, dbTx)
  BY DEF WalletIsRight, RightWallet, Placed, Mended
<1> QED
  BY <1>1, <1>2, <1>3 DEF RightWallet

LEMMA RepairIsRight ==
  ASSUME WalletIsRight, RepairWallet
  PROVE  WalletIsRight'
<1> DEFINE indexed == {o \in Mine : o[1] \in wallet.txs /\ Confirmed(o[1])}
           spent == {o \in indexed : dbTx.spent[o] # NoBlock}
<1>1. wallet \in WalletType /\ Latest = dbTx /\ pc = "idle"
  BY DEF WalletIsRight, RightWallet, Latest, RepairWallet, Ready
<1>2. wallet' = [wallet EXCEPT !.vfSpent = (@ \ indexed) \cup spent]
  BY DEF RepairWallet, FixSpentCoins
<1>3. wallet' \in WalletType /\ wallet'.txs = wallet.txs /\ wallet'.hashBlock = wallet.hashBlock
      /\ wallet'.sent = wallet.sent /\ wallet'.vfSpent = (wallet.vfSpent \ indexed) \cup spent
  BY <1>1, <1>2 DEF WalletType
<1>4. Mended(wallet, wallet')
  BY <1>3 DEF Mended
<1>5. RightWallet(wallet')
  BY <1>1, <1>4, MendedIsRight
<1>6. Grows(wallet', wallet', {})
  BY <1>3, GrowsNot
<1>7. /\ UNCHANGED <<vars, bestblock, stage, misled, unheard>> /\ refunded' = Unsettled(refunded)
      /\ repairs' \in 0 .. MaxRepairs /\ stage \in {"unloaded", "loaded", "running"}
  BY WalletAssumption DEF RepairWallet, WalletIsRight, WalletTypeOK
<1>8. desynced \/ misled \/ unheard \/ Placed(wallet', Latest)
  BY <1>5 DEF RightWallet
<1> QED
  BY <1>1, <1>5, <1>6, <1>7, <1>8, HearingStep

LEMMA LoadIsRight ==
  ASSUME TypeOK, IndexFollowsChain, WalletIsRight, LoadWallet
  PROVE  WalletIsRight'
<1>1. /\ RightWallet(wallet) /\ wallet \in WalletType /\ pc = "idle" /\ pindexBest \in Block
      /\ bestblock \in Block
  BY DEF WalletIsRight, RightWallet, LoadWallet, Ready, TypeOK, WalletTypeOK
<1>2. Grows(wallet, wallet', InBestChain)
  <2>1. CASE Height[pindexBest] > Height[RescanFrom]
    <3>1. RescanFrom \in Block
      BY <1>1, RescanFromTypes
    <3>2. Height[RescanFrom] <= Height[pindexBest]
      BY <1>1, <2>1, <3>1, BlockAssumption
    <3>3. wallet' = ScanForWalletTransactions(wallet, RescanFrom, TRUE)
      BY <2>1 DEF LoadWallet, Rescanned
    <3> QED
      BY <1>1, <3>1, <3>2, <3>3, ScanGrows
  <2>2. CASE ~(Height[pindexBest] > Height[RescanFrom])
    BY <1>1, <2>2, GrowsNot DEF LoadWallet, Rescanned
  <2> QED
    BY <2>1, <2>2
<1>3. desynced \/ misled \/ unheard \/ Placed(wallet', Latest)
  BY <1>1, <1>2, ScanMovesNothing DEF RightWallet
<1>4. /\ UNCHANGED <<vars, bestblock, repairs, misled, unheard>> /\ refunded' = Unsettled(refunded)
      /\ stage' = "loaded" /\ repairs \in 0 .. MaxRepairs
  BY DEF LoadWallet, WalletIsRight, WalletTypeOK
<1> QED
  BY <1>1, <1>2, <1>3, <1>4, HearingStep

LEMMA ReacceptIsRight ==
  ASSUME TypeOK, IndexFollowsChain, WalletIsRight, ReacceptWalletTransactions
  PROVE  WalletIsRight'
<1> DEFINE looked == {t \in wallet.txs : ~PassedOver(t)}
           flagged == {o \in Mine \ wallet.vfSpent :
                          o[1] \in looked /\ Confirmed(o[1]) /\ dbTx.spent[o] # NoBlock}
           marked == [wallet EXCEPT !.vfSpent = @ \cup flagged]
<1>1. /\ wallet \in WalletType /\ pc = "idle" /\ pindexBest \in Block /\ Latest = dbTx
      /\ RightWallet(wallet)
  BY DEF WalletIsRight, RightWallet, ReacceptWalletTransactions, Ready, TypeOK, Latest
<1>2. flagged \subseteq Mine \ wallet.vfSpent
      /\ \A o \in flagged : o[1] \in wallet.txs /\ dbTx.spent[o] # NoBlock
  OBVIOUS
<1>3. wallet' = IF flagged = {} THEN wallet ELSE ScanForWalletTransactions(marked, Genesis, FALSE)
  BY DEF ReacceptWalletTransactions
<1> HIDE DEF flagged
<1>4. /\ marked \in WalletType /\ marked.txs = wallet.txs /\ marked.hashBlock = wallet.hashBlock
      /\ marked.sent = wallet.sent /\ marked.vfSpent = wallet.vfSpent \cup flagged
  BY <1>1, <1>2 DEF WalletType
<1>5. Mended(wallet, marked)
  BY <1>2, <1>4 DEF Mended
<1>6. RightWallet(marked)
  BY <1>1, <1>5, MendedIsRight
<1>7. Genesis \in Block /\ Height[Genesis] <= Height[pindexBest]
  BY <1>1, BlockAssumption
<1> HIDE DEF marked
<1>8. \E u : RightWallet(u) /\ Grows(u, wallet', InBestChain)
  <2>1. CASE flagged = {}
    BY <1>1, <1>3, <2>1, GrowsNot
  <2>2. CASE flagged # {}
    BY <1>1, <1>3, <1>4, <1>6, <1>7, <2>2, ScanGrows
  <2> QED
    BY <2>1, <2>2
<1>9. PICK u : RightWallet(u) /\ Grows(u, wallet', InBestChain)
  BY <1>8
<1>10. desynced \/ misled \/ unheard \/ Placed(wallet', Latest)
  BY <1>1, <1>9, ScanMovesNothing DEF RightWallet
<1>11. /\ UNCHANGED <<vars, bestblock, repairs, misled, unheard>> /\ refunded' = Unsettled(refunded)
       /\ stage' = "running" /\ repairs \in 0 .. MaxRepairs
  BY DEF ReacceptWalletTransactions, WalletIsRight, WalletTypeOK
<1> QED
  BY <1>1, <1>9, <1>10, <1>11, HearingStep

\* A crash in the middle of a block, of which the wallet has heard a part.
LEMMA CrashIsRight ==
  ASSUME TypeOK, WorksTowardGoal, IndexFollowsChain, WalletIsRight, CrashWallet
  PROVE  WalletIsRight'
<1>1. /\ UNCHANGED <<dbTx, desynced, mapBlockIndex>> /\ Latest' = dbTx /\ vWorkQueue' = << >>
  BY DEF CrashWallet, CrashNode, Crash, Goto, TxnAbort, db, history, index, Latest
<1>2. /\ RightWallet(wallet) /\ wallet \in WalletType /\ FlagsBelong(wallet)
      /\ refunded \subseteq Mine /\ bestblock \in mapBlockIndex /\ misled \in BOOLEAN
      /\ unheard \in BOOLEAN /\ repairs \in 0 .. MaxRepairs
  BY DEF WalletIsRight, RightWallet, WalletTypeOK
<1>3. /\ UNCHANGED <<bestblock, repairs, unheard>> /\ stage' = "unloaded"
      /\ misled' = (misled \/ pc = "reorg") /\ refunded' = Unsettled(refunded)
  BY DEF CrashWallet
<1>4. \/ wallet' = wallet
      \/ CanConnect /\ \E n \in 0 .. Len(Vtx[Connecting]) :
                           wallet' = SyncTxs(wallet, Connecting, n, TRUE)
  BY DEF CrashWallet, HalfConnected
<1>5. /\ \E told : Grows(wallet, wallet', told)
      /\ desynced' \/ misled' \/ unheard' \/ Placed(wallet', Latest')
  <2>1. CASE wallet' = wallet
    <3>1. Grows(wallet, wallet', {})
      BY <1>2, <2>1, GrowsNot
    <3>2. desynced' \/ misled' \/ unheard' \/ Placed(wallet', Latest')
      BY <1>1, <1>2, <1>3, <2>1 DEF RightWallet, Latest
    <3> QED
      BY <3>1, <3>2
  <2>2. CASE CanConnect /\ \E n \in 0 .. Len(Vtx[Connecting]) :
                              wallet' = SyncTxs(wallet, Connecting, n, TRUE)
    <3> DEFINE b == Connecting
    <3>1. b \in Block
      BY <2>2, ConnectingBlock
    <3>2. PICK n \in 0 .. Len(Vtx[b]) : wallet' = SyncTxs(wallet, b, n, TRUE)
      BY <2>2
    <3>3. ~desynced => \A t \in Txs(b) : Latest.pos[t] = NoBlock
      BY <2>2, ConnectingIsNew
    <3> HIDE DEF b
    <3>4. Grows(wallet, wallet', Txs(b) \X {b})
      BY <1>2, <3>1, <3>2, SyncTxsGrows
    <3>5. desynced \/ misled \/ unheard \/ Placed(wallet', Latest)
      BY <1>2, <3>3, <3>4, NewBlockMovesNothing DEF RightWallet
    <3> QED
      BY <1>1, <1>3, <3>4, <3>5 DEF Latest
  <2> QED
    BY <1>4, <2>1, <2>2
<1>6. PICK told : Grows(wallet, wallet', told)
  BY <1>5
<1>7. FlagsBelong(wallet') /\ (Spenders(wallet) => Spenders(wallet')) /\ wallet' \in WalletType
  BY <1>2, <1>6, GrowingStaysRight DEF Grows
<1>8. refunded' \subseteq Mine /\ \A o \in refunded' : dbTx'.spent[o] # NoBlock
  BY <1>2, <1>3 DEF Unsettled
<1>9. WalletTypeOK'
  BY <1>1, <1>2, <1>3, <1>7, <1>8, WalletTypesNext
<1>10. ASSUME ~unheard PROVE Knows(wallet', dbTx) /\ Flags(wallet', refunded', dbTx)
  <2>1. Knows(wallet', dbTx) /\ Flags(wallet', refunded, dbTx)
    BY <1>2, <1>6, <1>10, GrowingStaysRight DEF RightWallet
  <2> QED
    BY <1>1, <1>3, <2>1, UnsettledFlags
<1>11. unheard' \/ \A ix \in {dbTx', Latest'} : Knows(wallet', ix) /\ Flags(wallet', refunded', ix)
  BY <1>1, <1>3, <1>10
<1>12. unheard' \/ Spenders(wallet')
  BY <1>2, <1>3, <1>7 DEF RightWallet
<1>13. RightWallet(wallet)'
  BY <1>5, <1>7, <1>11, <1>12 DEF RightWallet, Knows, Flags, Placed, FlagsBelong, Spenders
<1>14. Sane(dbTx') /\ Sane(Latest')
  BY <1>1 DEF WalletIsRight
<1> QED
  BY <1>1, <1>8, <1>9, <1>13, <1>14 DEF WalletIsRight, Sane

-----------------------------------------------------------------------------
(***************************************************************************)
(* A step of the chain.                                                    *)
(***************************************************************************)
\* What one step must show of the wallet; the rest of the invariant follows.
ChainStepKeeps(given) ==
    /\ wallet' \in WalletType /\ FlagsBelong(wallet')
    /\ given \subseteq Mine /\ refunded' = Unsettled(given)
    /\ Sane(dbTx') /\ Sane(Latest')
    /\ unheard' \/ /\ \A ix \in {dbTx', Latest'} :
                          /\ Knows(wallet', ix) /\ Flags(wallet', given, ix)
                          /\ \A o \in given : ix.spent[o] # NoBlock => dbTx'.spent[o] # NoBlock
                   /\ Spenders(wallet')
    /\ desynced' \/ misled' \/ unheard' \/ Placed(wallet', Latest')

LEMMA ChainStepKeepsAll ==
  ASSUME TypeOK, WalletIsRight, ChainAndWallet, mapBlockIndex \subseteq mapBlockIndex',
         NEW given, ChainStepKeeps(given)
  PROVE  WalletIsRight'
<1>1. refunded' \subseteq Mine /\ \A o \in refunded' : dbTx'.spent[o] # NoBlock
  BY DEF ChainStepKeeps, Unsettled
<1>2. bestblock' \in {bestblock, goal}
  BY DEF ChainAndWallet, BestBlocks
<1>3. (bestblock \in mapBlockIndex)'
  BY <1>2 DEF TypeOK, WalletIsRight, WalletTypeOK
<1>4. misled' \in BOOLEAN /\ unheard' \in BOOLEAN
      /\ stage' \in {"unloaded", "loaded", "running"} /\ repairs' \in 0 .. MaxRepairs
  <2>1. misled \in BOOLEAN /\ unheard \in BOOLEAN
    BY DEF WalletIsRight, WalletTypeOK
  <2>2. misled' = (misled \/ ReorganizeFails) /\ unheard' = (unheard \/ (~Registered /\ BlockConnects))
    BY DEF ChainAndWallet
  <2>3. misled' \in BOOLEAN /\ unheard' \in BOOLEAN
    BY <2>1, <2>2
  <2> QED
    BY <2>3 DEF ChainAndWallet, WalletIsRight, WalletTypeOK
<1>5. WalletTypeOK'
  BY <1>1, <1>3, <1>4, WalletTypesNext DEF ChainStepKeeps
<1>6. unheard' \/ \A ix \in {dbTx', Latest'} : Knows(wallet', ix) /\ Flags(wallet', refunded', ix)
  <2> SUFFICES ASSUME ~unheard', NEW ix \in {dbTx', Latest'}
               PROVE  Knows(wallet', ix) /\ Flags(wallet', refunded', ix)
    OBVIOUS
  <2>1. /\ Knows(wallet', ix) /\ Flags(wallet', given, ix) /\ refunded' = Unsettled(given)
        /\ \A o \in given : ix.spent[o] # NoBlock => dbTx'.spent[o] # NoBlock
    BY DEF ChainStepKeeps
  <2>2. Flags(wallet', refunded', ix)
    BY <2>1, UnsettledFlags
  <2> QED
    BY <2>1, <2>2
<1>7. RightWallet(wallet)'
  BY <1>6 DEF ChainStepKeeps, RightWallet, Knows, Flags, Placed, FlagsBelong, Spenders
<1>8. vWorkQueue' = << >>
  BY DEF ChainAndWallet, BlockStep, OtherChainStep, work, txVars
<1>9. Sane(dbTx)' /\ Sane(Latest)'
  BY DEF ChainStepKeeps, Sane
<1> QED
  BY <1>1, <1>5, <1>7, <1>8, <1>9 DEF WalletIsRight

LEMMA ConnectingIsRight ==
  ASSUME TypeOK, WorksTowardGoal, WalletIsRight, ChainAndWallet, BlockConnects
  PROVE  ChainStepKeeps(refunded)
<1> DEFINE b == Connecting
<1>1. /\ CanConnect /\ UNCHANGED <<faults, desynced>> /\ ~ReorganizeFails
      /\ Latest' = ConnectBlock(b, Latest) /\ (dbTx' = dbTx \/ dbTx' = Latest')
  BY BlockConnectsStep
<1>2. b \in Block /\ Connects(b, Latest, pindexBest) /\ ~CanDisconnect
  BY <1>1, ConnectingBlock
<1>3. Sane(dbTx') /\ Sane(Latest')
  BY <1>1, <1>2, ConnectIsSane DEF WalletIsRight
<1>4. /\ RightWallet(wallet) /\ wallet \in WalletType /\ FlagsBelong(wallet)
      /\ refunded \subseteq Mine /\ \A o \in refunded : dbTx.spent[o] # NoBlock
  BY DEF WalletIsRight, RightWallet, WalletTypeOK
<1>5. misled' = misled /\ refunded' = Unsettled(refunded)
  <2>1. misled \in BOOLEAN /\ (refunded \cup {} = refunded)
    BY DEF WalletIsRight, WalletTypeOK
  <2> QED
    BY <1>1, <1>2, <2>1 DEF ChainAndWallet
<1>6. CASE ~Registered
  <2>1. unheard' /\ wallet' = wallet
    <3>1. unheard' = (unheard \/ (~Registered /\ BlockConnects)) /\ wallet' \in Heard
      BY DEF ChainAndWallet
    <3>2. Heard = {wallet}
      BY <1>6 DEF Heard
    <3> QED
      BY <1>6, <3>1, <3>2
  <2> QED
    BY <1>3, <1>4, <1>5, <2>1 DEF ChainStepKeeps
<1>7. CASE Registered
  <2>1. wallet' = SyncConnected(wallet, b) /\ unheard' = unheard
    <3>1. wallet' = Told /\ Told = SyncConnected(wallet, Connecting)
      BY <1>1, <1>7 DEF ChainAndWallet, Heard, Told
    <3>2. unheard \in BOOLEAN
      BY DEF WalletIsRight, WalletTypeOK
    <3> QED
      BY <1>7, <3>1, <3>2 DEF ChainAndWallet
  <2> HIDE DEF b
  <2>2. Grows(wallet, wallet', Txs(b) \X {b})
    <3>1. Len(Vtx[b]) \in 0 .. Len(Vtx[b])
      BY <1>2, TxsOfBlock
    <3> QED
      BY <1>2, <1>4, <2>1, <3>1, SyncTxsGrows DEF SyncConnected
  <2>3. /\ wallet' \in WalletType /\ FlagsBelong(wallet') /\ (Spenders(wallet) => Spenders(wallet'))
    BY <1>4, <2>2, GrowingStaysRight DEF Grows
  <2>4. ASSUME ~unheard
        PROVE  /\ Knows(wallet', Latest') /\ Flags(wallet', refunded, Latest')
               /\ Placed(wallet, Latest) => Placed(wallet', Latest')
    <3>1. Knows(wallet, Latest) /\ Flags(wallet, refunded, Latest)
      BY <1>4, <2>4 DEF RightWallet
    <3> QED
      BY <1>1, <1>2, <1>4, <2>1, <3>1, ConnectIsHeard
  <2>5. ASSUME ~unheard
        PROVE  Knows(wallet', dbTx) /\ Flags(wallet', refunded, dbTx) /\ Spenders(wallet')
    BY <1>4, <2>2, <2>5, GrowingStaysRight DEF RightWallet
  <2>6. desynced' \/ misled' \/ unheard' \/ Placed(wallet', Latest')
    BY <1>1, <1>4, <1>5, <2>1, <2>4 DEF RightWallet
  <2>7. ASSUME ~unheard, NEW ix \in {dbTx', Latest'}
        PROVE  /\ Knows(wallet', ix) /\ Flags(wallet', refunded, ix)
               /\ \A o \in refunded : ix.spent[o] # NoBlock => dbTx'.spent[o] # NoBlock
    BY <1>1, <1>4, <2>4, <2>5, <2>7
  <2> QED
    BY <1>3, <1>4, <1>5, <2>1, <2>3, <2>5, <2>6, <2>7 DEF ChainStepKeeps
<1> QED
  BY <1>6, <1>7

\* What the step takes out of the exemption comes from the wallet or from this block.
Given == refunded \cup IF CanDisconnect THEN Refunds(wallet, cur) ELSE {}

LEMMA DisconnectingIsRight ==
  ASSUME TypeOK, WalletIsRight, ChainAndWallet, DisconnectStep
  PROVE  ChainStepKeeps(Given)
<1>1. /\ CanDisconnect /\ ~CanConnect /\ UNCHANGED <<faults, dbTx, desynced>>
      /\ ~BlockConnects /\ ~ReorganizeFails
      /\ Latest' = DisconnectBlock(cur, Latest)
  BY DisconnectIsStep
<1>2. cur \in Block /\ Given = refunded \cup Refunds(wallet, cur)
  BY <1>1 DEF TypeOK, Given
<1>3. Sane(dbTx') /\ Sane(Latest')
  BY <1>1, <1>2, DisconnectIsSane DEF WalletIsRight
<1>4. /\ RightWallet(wallet) /\ wallet \in WalletType /\ FlagsBelong(wallet)
      /\ refunded \subseteq Mine /\ \A o \in refunded : dbTx.spent[o] # NoBlock
  BY DEF WalletIsRight, RightWallet, WalletTypeOK
<1>5. Refunds(wallet, cur) \subseteq Mine \cap Spends(cur)
  BY <1>2, <1>4, DisconnectIsHeard
<1>6. UNCHANGED <<misled, unheard>> /\ refunded' = Unsettled(Given)
  <2>1. misled \in BOOLEAN /\ unheard \in BOOLEAN
    BY DEF WalletIsRight, WalletTypeOK
  <2>2. misled' = (misled \/ ReorganizeFails) /\ unheard' = (unheard \/ (~Registered /\ BlockConnects))
        /\ refunded' = Unsettled(Given)
    BY DEF ChainAndWallet, Given
  <2> QED
    BY <1>1, <2>1, <2>2
<1>7. /\ wallet' \in WalletType /\ wallet'.txs = wallet.txs /\ wallet'.hashBlock = wallet.hashBlock
      /\ wallet'.sent = wallet.sent
      /\ wallet'.vfSpent \subseteq wallet.vfSpent
      /\ wallet.vfSpent \subseteq wallet'.vfSpent \cup Refunds(wallet, cur)
  <2>1. wallet' \in {wallet, SyncDisconnected(wallet, cur)}
    <3>1. Told = SyncDisconnected(wallet, cur)
      BY <1>1 DEF Told
    <3>2. Heard \subseteq {wallet, Told}
      BY DEF Heard
    <3> QED
      BY <3>1, <3>2 DEF ChainAndWallet
  <2>2. CASE wallet' = wallet
    BY <1>4, <2>2
  <2>3. CASE wallet' = SyncDisconnected(wallet, cur)
    <3>1. /\ wallet' \in WalletType /\ wallet'.txs = wallet.txs
          /\ wallet'.hashBlock = wallet.hashBlock /\ wallet'.sent = wallet.sent
          /\ wallet'.vfSpent = wallet.vfSpent \ Refunds(wallet, cur)
      BY <1>2, <1>4, <2>3, DisconnectIsHeard
    <3> QED
      BY <3>1
  <2> QED
    BY <2>1, <2>2, <2>3
<1>8. /\ \A t \in Tx : Latest'.pos[t] # NoBlock => Latest'.pos[t] = Latest.pos[t]
      /\ \A o \in OutPoint : Latest'.spent[o] # NoBlock => Latest.spent[o] # NoBlock /\ o \notin Spends(cur)
  BY <1>1 DEF DisconnectBlock
<1>9. FlagsBelong(wallet')
  BY <1>4, <1>7 DEF FlagsBelong
<1>10. ASSUME ~unheard
       PROVE  /\ Knows(wallet', dbTx) /\ Flags(wallet', Given, dbTx)
              /\ Knows(wallet', Latest') /\ Flags(wallet', Given, Latest')
              /\ Spenders(wallet')
  <2>1. /\ Knows(wallet, dbTx) /\ Flags(wallet, refunded, dbTx) /\ Spenders(wallet)
        /\ Knows(wallet, Latest) /\ Flags(wallet, refunded, Latest)
    BY <1>4, <1>10 DEF RightWallet
  <2>2. Knows(wallet', dbTx) /\ Knows(wallet', Latest')
    BY <1>7, <1>8, <2>1 DEF Knows
  <2>3. Flags(wallet', Given, dbTx)
    BY <1>2, <1>7, <2>1 DEF Flags
  <2>4. Flags(wallet', Given, Latest')
    BY <1>2, <1>7, <1>8, <2>1, MineTypes DEF Flags
  <2>5. Spenders(wallet')
    BY <1>7, <2>1 DEF Spenders
  <2> QED
    BY <2>2, <2>3, <2>4, <2>5
<1>11. desynced' \/ misled' \/ unheard' \/ Placed(wallet', Latest')
  <2>1. ASSUME Placed(wallet, Latest) PROVE Placed(wallet', Latest')
    BY <1>7, <1>8, <2>1 DEF Placed
  <2> QED
    BY <1>1, <1>4, <1>6, <2>1 DEF RightWallet
<1>12. \A ix \in {dbTx', Latest'} : \A o \in Given : ix.spent[o] # NoBlock => dbTx'.spent[o] # NoBlock
  BY <1>1, <1>2, <1>4, <1>5, <1>8, MineTypes
<1>13. Given \subseteq Mine
  BY <1>2, <1>4, <1>5
<1> QED
  BY <1>1, <1>3, <1>6, <1>7, <1>9, <1>10, <1>11, <1>12, <1>13 DEF ChainStepKeeps

\* What the wallet has been told when the block comes to nothing in the end.
LEMMA OtherIsRight ==
  ASSUME TypeOK, WorksTowardGoal, IndexFollowsChain, ~desynced' => ~desynced,
         WalletIsRight, ChainAndWallet, ~BlockConnects, ~DisconnectStep
  PROVE  ChainStepKeeps(Given)
<1>1. /\ Latest' = dbTx' /\ (dbTx' = dbTx \/ (CommitReorganize /\ dbTx' = Latest))
      /\ Latest' = Latest \/ ReorganizeFails
      /\ faults' # faults => dbTx' = dbTx
      /\ CommitReorganize => faults' = faults /\ cur = mid /\ Latest' = Latest
  BY OtherStep DEF ChainAndWallet
<1>2. dbTx' \in {dbTx, Latest} /\ Sane(dbTx') /\ Sane(Latest')
  BY <1>1 DEF WalletIsRight
<1>3. /\ RightWallet(wallet) /\ wallet \in WalletType /\ FlagsBelong(wallet)
      /\ refunded \subseteq Mine /\ cur \in Block
  BY DEF WalletIsRight, RightWallet, WalletTypeOK, TypeOK
<1>4. Refunds(wallet, cur) \subseteq Mine
  BY <1>3, DisconnectIsHeard
<1>5. Given \subseteq Mine /\ refunded \subseteq Given
  BY <1>3, <1>4 DEF Given
<1>6. /\ misled' = (misled \/ ReorganizeFails) /\ unheard' = unheard /\ refunded' = Unsettled(Given)
      /\ wallet' \in Heard
  <2>1. unheard \in BOOLEAN
    BY DEF WalletIsRight, WalletTypeOK
  <2>2. unheard' = (unheard \/ (~Registered /\ BlockConnects)) /\ refunded' = Unsettled(Given)
    BY DEF ChainAndWallet, Given
  <2> QED
    BY <2>1, <2>2 DEF ChainAndWallet
<1>7. wallet' = wallet \/ (dbTx' = dbTx /\ wallet' = Told)
  BY <1>1, <1>6 DEF Heard
<1>8. CASE wallet' = wallet
  <2>1. unheard' \/ /\ \A ix \in {dbTx', Latest'} :
                          /\ Knows(wallet', ix) /\ Flags(wallet', Given, ix)
                          /\ \A o \in Given : ix.spent[o] # NoBlock => dbTx'.spent[o] # NoBlock
                    /\ Spenders(wallet')
    BY <1>1, <1>2, <1>3, <1>5, <1>6, <1>8 DEF RightWallet, Flags
  <2>2. desynced' \/ misled' \/ unheard' \/ Placed(wallet', Latest')
    BY <1>1, <1>3, <1>6, <1>8 DEF RightWallet
  <2> QED
    BY <1>2, <1>3, <1>5, <1>6, <1>8, <2>1, <2>2 DEF ChainStepKeeps
<1>9. CASE dbTx' = dbTx /\ wallet' = Told /\ CanConnect
  <2> DEFINE b == Connecting
  <2>1. b \in Block /\ wallet' = SyncConnected(wallet, b)
    BY <1>9, ConnectingBlock DEF Told
  <2>2. ~desynced => \A t \in Txs(b) : Latest.pos[t] = NoBlock
    BY <1>9, ConnectingIsNew
  <2> HIDE DEF b
  <2>3. Grows(wallet, wallet', Txs(b) \X {b})
    <3>1. Len(Vtx[b]) \in 0 .. Len(Vtx[b])
      BY <2>1, TxsOfBlock
    <3> QED
      BY <1>3, <2>1, <3>1, SyncTxsGrows DEF SyncConnected
  <2>4. wallet' \in WalletType /\ FlagsBelong(wallet')
    BY <1>3, <2>3, GrowingStaysRight DEF Grows
  <2>5. ASSUME ~unheard PROVE Knows(wallet', dbTx) /\ Flags(wallet', Given, dbTx) /\ Spenders(wallet')
    <3>1. Knows(wallet', dbTx) /\ Flags(wallet', refunded, dbTx) /\ Spenders(wallet')
      BY <1>3, <2>3, <2>5, GrowingStaysRight DEF RightWallet
    <3> QED
      BY <1>5, <3>1 DEF Flags
  <2>6. ASSUME ~desynced, Placed(wallet, Latest) PROVE Placed(wallet', Latest)
    BY <2>2, <2>3, <2>6, NewBlockMovesNothing
  <2>7. desynced' \/ misled' \/ unheard' \/ Placed(wallet', Latest')
    BY <1>1, <1>3, <1>6, <2>6 DEF RightWallet
  <2> QED
    BY <1>1, <1>2, <1>5, <1>6, <1>9, <2>4, <2>5, <2>7 DEF ChainStepKeeps
<1>10. CASE dbTx' = dbTx /\ wallet' = Told /\ ~CanConnect /\ CanDisconnect
  <2>1. /\ wallet' \in WalletType /\ wallet'.txs = wallet.txs
        /\ wallet'.hashBlock = wallet.hashBlock /\ wallet'.sent = wallet.sent
        /\ wallet'.vfSpent = wallet.vfSpent \ Refunds(wallet, cur)
    BY <1>3, <1>10, DisconnectIsHeard DEF Told
  <2>2. Given = refunded \cup Refunds(wallet, cur)
    BY <1>10 DEF Given
  <2>3. FlagsBelong(wallet')
    BY <1>3, <2>1 DEF FlagsBelong
  <2>4. ASSUME ~unheard PROVE Knows(wallet', dbTx) /\ Flags(wallet', Given, dbTx) /\ Spenders(wallet')
    <3>1. Knows(wallet, dbTx) /\ Flags(wallet, refunded, dbTx) /\ Spenders(wallet)
      BY <1>3, <2>4 DEF RightWallet
    <3>2. Knows(wallet', dbTx)
      BY <2>1, <3>1 DEF Knows
    <3>3. Flags(wallet', Given, dbTx)
      BY <2>1, <2>2, <3>1 DEF Flags
    <3>4. Spenders(wallet')
      BY <2>1, <3>1 DEF Spenders
    <3> QED
      BY <3>2, <3>3, <3>4
  <2>5. ASSUME Placed(wallet, Latest) PROVE Placed(wallet', Latest)
    BY <2>1, <2>5 DEF Placed
  <2>6. desynced' \/ misled' \/ unheard' \/ Placed(wallet', Latest')
    BY <1>1, <1>3, <1>6, <2>5 DEF RightWallet
  <2> QED
    BY <1>1, <1>2, <1>5, <1>6, <1>10, <2>1, <2>3, <2>4, <2>6 DEF ChainStepKeeps
<1>11. Told = wallet \/ CanConnect \/ CanDisconnect
  BY DEF Told
<1> QED
  BY <1>7, <1>8, <1>9, <1>10, <1>11

LEMMA ChainIsRight ==
  ASSUME TypeOK, WorksTowardGoal, IndexFollowsChain, [Next]_vars, WalletIsRight, ChainAndWallet
  PROVE  WalletIsRight'
<1>1. mapBlockIndex \subseteq mapBlockIndex' /\ (~desynced' => ~desynced)
  BY IndexOnlyGrows, DesyncedStays
<1>2. \E given : ChainStepKeeps(given)
  BY <1>1, ConnectingIsRight, DisconnectingIsRight, OtherIsRight
<1> QED
  BY <1>1, <1>2, ChainStepKeepsAll

-----------------------------------------------------------------------------
(***************************************************************************)
(* The theorems.                                                           *)
(***************************************************************************)
(***************************************************************************)
(* The wallet never gets in the way of the best chain: next to it the node *)
(* does what module ChainState allows, and no more (RegisterWallet, the    *)
(* calls of SyncWithWallets and SetBestChain's locator).                   *)
(***************************************************************************)
THEOREM WalletImplementsChain == WalletSpec => Spec
<1>1. WalletInit => Init
  BY DEF WalletInit, TxPoolInit
<1> QED
  BY <1>1, WalletStepIsChainStep, PTL DEF WalletSpec, Spec

LEMMA WalletIsRightInit == WalletInit => WalletIsRight
<1> SUFFICES ASSUME WalletInit PROVE WalletIsRight
  OBVIOUS
<1>1. /\ dbTx = ConnectBlock(Genesis, NoIndex) /\ pc = "idle" /\ vWorkQueue = << >>
      /\ wallet = EmptyWallet /\ bestblock = Genesis /\ stage = "running" /\ repairs = 0
      /\ refunded = {} /\ misled = FALSE /\ unheard = FALSE /\ mapBlockIndex = {Genesis}
  BY DEF WalletInit, TxPoolInit, Init
<1>2. Latest = dbTx
  BY <1>1 DEF Latest
<1>3. wallet \in WalletType /\ wallet.txs = {} /\ wallet.vfSpent = {} /\ wallet.sent = {}
  BY <1>1 DEF EmptyWallet, WalletType, BlockOrNone
<1>4. FlagsBelong(wallet) /\ Spenders(wallet)
  BY <1>3 DEF FlagsBelong, Spenders
<1>5. Genesis \in Block /\ DOMAIN Vtx[Genesis] = {1} /\ Txs(Genesis) = {Vtx[Genesis][1]}
      /\ Vtx[Genesis][1] \in Coinbase /\ Vin[Vtx[Genesis][1]] = {}
  BY BlockAssumption, TxAssumption DEF Txs
<1>6. Spends(Genesis) = {}
  BY <1>5 DEF Spends
<1>7. /\ \A t \in Tx : dbTx.pos[t] # NoBlock => t = Vtx[Genesis][1]
      /\ \A o \in OutPoint : dbTx.spent[o] = NoBlock
  BY <1>1, <1>5, <1>6 DEF ConnectBlock, NoIndex, OutPoint
<1>8. ~IsMine(Vtx[Genesis][1])
  BY <1>5, WalletAssumption DEF IsMine
<1>9. Knows(wallet, dbTx) /\ Flags(wallet, refunded, dbTx) /\ Placed(wallet, dbTx) /\ Sane(dbTx)
  BY <1>5, <1>7, <1>8, MineTypes DEF Knows, Flags, Placed, Sane
<1>10. WalletTypeOK
  <2>1. repairs \in 0 .. MaxRepairs
    BY <1>1, WalletAssumption
  <2>2. misled \in BOOLEAN /\ unheard \in BOOLEAN
    BY <1>1
  <2>3. /\ bestblock \in mapBlockIndex /\ refunded \subseteq Mine
        /\ stage \in {"unloaded", "loaded", "running"}
    BY <1>1
  <2>4. wallet.sent \subseteq wallet.txs
    BY <1>3
  <2> QED
    BY <1>3, <1>4, <2>1, <2>2, <2>3, <2>4, WalletTypes
<1> QED
  BY <1>1, <1>2, <1>3, <1>4, <1>9, <1>10 DEF WalletIsRight, RightWallet

LEMMA WalletIsRightStep ==
  TypeOK /\ WorksTowardGoal /\ IndexFollowsChain /\ WalletIsRight
    /\ [WalletNext]_<<allTxVars, walletVars>> => WalletIsRight'
<1> SUFFICES ASSUME TypeOK, WorksTowardGoal, IndexFollowsChain, WalletIsRight,
                    [WalletNext]_<<allTxVars, walletVars>>
             PROVE  WalletIsRight'
  OBVIOUS
<1>1. CASE ChainAndWallet
  BY <1>1, ChainIsRight, WalletStepIsChainStep
<1>2. CASE UNCHANGED <<allTxVars, walletVars>>
  <2>1. UNCHANGED <<dbTx, txnTx, pc, desynced, vWorkQueue, mapBlockIndex, wallet, bestblock, stage,
                    repairs, refunded, misled, unheard>>
    BY <1>2 DEF allTxVars, txVars, work, vars, db, txn, control, history, index, walletVars, heardVars
  <2>2. Latest' = Latest /\ WalletTypeOK'
    BY <2>1 DEF Latest, WalletIsRight, WalletTypeOK
  <2> QED
    BY <2>1, <2>2 DEF WalletIsRight, RightWallet, Knows, Flags, Placed, Sane, FlagsBelong, Spenders
<1> QED
  BY <1>1, <1>2, TxStepIsRight, SendMoneyIsRight, RepairIsRight, CrashIsRight, LoadIsRight,
     ReacceptIsRight DEF WalletNext

LEMMA WalletAlways == WalletSpec => [](TypeOK /\ WorksTowardGoal /\ IndexFollowsChain /\ WalletIsRight)
<1>1. WalletSpec => [](TypeOK /\ WorksTowardGoal) /\ []IndexFollowsChain
  BY WalletImplementsChain, TypeCorrect, IndexFollowsAlways, PTL
<1> QED
  BY <1>1, WalletIsRightInit, WalletIsRightStep, PTL DEF WalletSpec

(***************************************************************************)
(* The flags of the wallet are right in both directions at every moment: a *)
(* coin that the committed chain has spent is flagged, in the middle of a  *)
(* reorganize and after a crash between the wallet's write and the chain's *)
(* commit, and for every flag the wallet has a transaction that spends the *)
(* coin (WalletUpdateSpent, SyncWithWallets, DisableTransaction,           *)
(* FixSpentCoins, ScanForWalletTransactions, the loop of                   *)
(* ReacceptWalletTransactions).                                            *)
(***************************************************************************)
THEOREM FlagsAlwaysRight == WalletSpec => []FlagsAreRight
<1>1. WalletIsRight => FlagsAreRight
  BY DEF WalletIsRight, RightWallet, FlagsAreRight, SpentCoinsAreFlagged, FlaggedCoinsHaveSpender,
         Flags, Spenders
<1> QED
  BY <1>1, WalletAlways, PTL

(***************************************************************************)
(* The wallet has each of its confirmed transactions, with the block the   *)
(* index has for it, whatever branches the same transaction is in and      *)
(* wherever a crash has interrupted a block (hashBlock, which              *)
(* GetDepthInMainChain believes).                                          *)
(***************************************************************************)
THEOREM WalletAlwaysKnowsItsBlocks == WalletSpec => []WalletKnowsItsBlocks
<1>1. WalletIsRight => WalletKnowsItsBlocks
  <2> SUFFICES ASSUME WalletIsRight, pc # "reorg", ~desynced, ~misled, ~unheard,
                      NEW t \in Tx, IsMine(t), dbTx.pos[t] # NoBlock
               PROVE  t \in wallet.txs /\ wallet.hashBlock[t] = dbTx.pos[t]
    BY DEF WalletKnowsItsBlocks, Confirmed
  <2>1. Latest = dbTx /\ Knows(wallet, dbTx) /\ Placed(wallet, dbTx)
    BY DEF Latest, WalletIsRight, RightWallet
  <2> QED
    BY <2>1 DEF Knows, Placed
<1> QED
  BY <1>1, WalletAlways, PTL

(***************************************************************************)
(* What a reorganize has disconnected so far is given back: of a coinstake *)
(* that the open transaction has taken out of the chain no input is        *)
(* flagged, unless a block connected since spends it.                      *)
(***************************************************************************)
Returned ==
    pc = "reorg" /\ Registered /\ ~desynced =>
        \A t \in CoinStake : dbTx.pos[t] # NoBlock /\ txnTx.pos[t] = NoBlock =>
            \A o \in Vin[t] \cap Mine :
                cur \notin Chain[mid] \/ txnTx.spent[o] = NoBlock => o \notin wallet.vfSpent

LEMMA ReturnedStep ==
  TypeOK /\ WorksTowardGoal /\ IndexFollowsChain /\ WalletIsRight /\ Returned
    /\ [WalletNext]_<<allTxVars, walletVars>> => Returned'
<1> SUFFICES ASSUME TypeOK, WorksTowardGoal, IndexFollowsChain, WalletIsRight, Returned,
                    [WalletNext]_<<allTxVars, walletVars>>,
                    pc' = "reorg", Registered', ~desynced',
                    NEW t \in CoinStake, dbTx'.pos[t] # NoBlock, txnTx'.pos[t] = NoBlock,
                    NEW o \in Vin[t] \cap Mine,
                    cur' \notin Chain[mid'] \/ txnTx'.spent[o] = NoBlock
             PROVE  o \notin wallet'.vfSpent
  BY DEF Returned
<1>0. /\ t \in Tx /\ o \in OutPoint /\ o[1] \in Tx /\ ~desynced
      /\ wallet \in WalletType /\ FlagsBelong(wallet) /\ cur \in Block
  BY TxAssumption, MineTypes, WalletStepIsChainStep, DesyncedStays
  DEF WalletIsRight, RightWallet, TypeOK
<1>1. CASE ChainAndWallet /\ BlockConnects
  <2> DEFINE b == Connecting
  <2>1. ConnectStep
    <3>1. ~ExtendBestChain
      BY DEF ExtendBestChain, Succeed, Goto
    <3>2. ~ConnectSecondary
      BY DEF ConnectSecondary
    <3> QED
      BY <1>1, <3>1, <3>2 DEF BlockConnects
  <2>2. pc = "reorg" /\ cur \in Chain[mid] /\ dbTx' = dbTx /\ caller' = caller /\ mid' = mid
        /\ cur' = Toward(cur, mid) /\ b = Toward(cur, mid) /\ cur # mid /\ mid \in Block
    BY <2>1 DEF ConnectStep, db, Connecting, TypeOK
  <2>3. /\ CanConnect /\ Latest = txnTx /\ txnTx' = ConnectBlock(b, txnTx)
    BY <1>1, <2>2, BlockConnectsStep DEF Latest
  <2>4. b \in Block /\ b # NoBlock
    BY <2>3, ConnectingBlock, BlockAssumption
  <2>5. \A s \in Txs(b) : txnTx.pos[s] = NoBlock
    BY <1>0, <2>3, ConnectingIsNew
  <2>6. Registered
    BY <2>2 DEF Registered
  <2>7. wallet' = SyncConnected(wallet, b)
    BY <1>1, <2>3, <2>6 DEF ChainAndWallet, Heard, Told
  <2>8. txnTx'.spent[o] = NoBlock
    <3>1. cur' \in Chain[mid']
      BY <2>2, TowardOnChain
    <3> QED
      BY <3>1
  <2> HIDE DEF b
  <2>9. t \notin Txs(b) /\ txnTx.pos[t] = NoBlock
    BY <1>0, <2>3, <2>4 DEF ConnectBlock
  <2>10. o \notin Spends(b) /\ (o[1] \in Txs(b) \/ txnTx.spent[o] = NoBlock)
    BY <1>0, <2>3, <2>4, <2>8 DEF ConnectBlock
  <2>11. txnTx.spent[o] = NoBlock
    <3>1. txnTx.spent[o] # NoBlock => txnTx.pos[o[1]] # NoBlock
      BY <1>0, <2>3 DEF WalletIsRight, Sane
    <3> QED
      BY <2>5, <2>10, <3>1
  <2>12. o \notin wallet.vfSpent
    BY <1>0, <2>2, <2>6, <2>9, <2>11 DEF Returned
  <2>13. Grows(wallet, wallet', Txs(b) \X {b})
    <3>1. Len(Vtx[b]) \in 0 .. Len(Vtx[b])
      BY <2>4, TxsOfBlock
    <3> QED
      BY <1>0, <2>4, <2>7, <3>1, SyncTxsGrows DEF SyncConnected
  <2>14. \A p \in Txs(b) \X {b} : o \notin Vin[p[1]]
    BY <2>10 DEF Spends
  <2> QED
    BY <2>12, <2>13, <2>14 DEF Grows
<1>2. CASE ChainAndWallet /\ DisconnectStep
  <2>1. /\ pc = "reorg" /\ cur \notin Chain[mid] /\ dbTx' = dbTx /\ caller' = caller
        /\ txnTx' = DisconnectBlock(cur, txnTx)
    BY <1>2 DEF DisconnectStep, db
  <2>2. CanDisconnect /\ ~CanConnect
    BY <1>2, DisconnectIsStep
  <2>3. Registered
    BY <2>1 DEF Registered
  <2>4. wallet' = SyncDisconnected(wallet, cur)
    BY <1>2, <2>2, <2>3 DEF ChainAndWallet, Heard, Told
  <2>5. wallet'.vfSpent = wallet.vfSpent \ Refunds(wallet, cur)
    BY <1>0, <2>4, DisconnectIsHeard
  <2>6. CASE t \in Txs(cur)
    <3>1. o[1] \in wallet.txs => o \in Refunds(wallet, cur)
      BY <2>6 DEF Refunds, OwnInputs
    <3> QED
      BY <1>0, <2>5, <3>1 DEF FlagsBelong
  <2>7. CASE t \notin Txs(cur)
    <3>1. txnTx.pos[t] = NoBlock
      BY <1>0, <2>1, <2>7 DEF DisconnectBlock
    <3>2. o \notin wallet.vfSpent
      BY <1>0, <2>1, <2>3, <3>1 DEF Returned
    <3> QED
      BY <2>5, <3>2
  <2> QED
    BY <2>6, <2>7
<1>3. CASE ChainAndWallet /\ ~BlockConnects /\ ~DisconnectStep
  <2>1. Latest' = dbTx'
    BY <1>3, OtherStep DEF ChainAndWallet
  <2> QED
    BY <2>1 DEF Latest
<1>4. CASE TxAndWallet \/ \E s \in Tx : SendMoney(s)
  BY <1>4 DEF TxAndWallet, SendMoney, ReceiveTx, SubmitTx, TryOrphanTx, NextTxHash, ReceiveOrphanTx,
              Ready, WalletIsRight, vars, control
<1>5. CASE RepairWallet \/ LoadWallet \/ ReacceptWalletTransactions
  BY <1>5 DEF RepairWallet, LoadWallet, ReacceptWalletTransactions, Ready, vars, control
<1>6. CASE CrashWallet
  BY <1>6 DEF CrashWallet, CrashNode, Crash, Goto
<1>7. CASE UNCHANGED <<allTxVars, walletVars>>
  <2>1. UNCHANGED <<pc, caller, desynced, dbTx, txnTx, cur, mid, wallet>>
    BY <1>7 DEF allTxVars, vars, db, txn, control, history, walletVars
  <2> QED
    BY <2>1 DEF Returned, Registered
<1> QED
  BY <1>1, <1>2, <1>3, <1>4, <1>5, <1>6, <1>7 DEF WalletNext

LEMMA CommitReturns ==
  TypeOK /\ Returned /\ [WalletNext]_<<allTxVars, walletVars>> =>
    (CommitReorganize /\ Registered /\ ~desynced =>
        \A t \in CoinStake : Confirmed(t) /\ ~Confirmed(t)' =>
           \A o \in OwnInputs(wallet, t) : dbTx'.spent[o] = NoBlock => o \notin wallet'.vfSpent)
<1> SUFFICES ASSUME TypeOK, Returned, [WalletNext]_<<allTxVars, walletVars>>,
                    CommitReorganize, Registered, ~desynced,
                    NEW t \in CoinStake, dbTx.pos[t] # NoBlock, dbTx'.pos[t] = NoBlock,
                    NEW o \in OwnInputs(wallet, t), dbTx'.spent[o] = NoBlock
             PROVE  o \notin wallet'.vfSpent
  BY DEF Confirmed
<1>1. pc = "reorg" /\ pc' = "secondary" /\ dbTx' = txnTx /\ faults' = faults
  BY DEF CommitReorganize, TxnCommit, Goto, bounds
<1>2. o \in Vin[t] \cap Mine /\ o \notin wallet.vfSpent
  BY <1>1 DEF OwnInputs, Returned
<1>3. ChainAndWallet \/ UNCHANGED <<allTxVars, walletVars>>
  BY <1>1 DEF WalletNext, TxAndWallet, SendMoney, ReceiveTx, SubmitTx, TryOrphanTx, NextTxHash,
              ReceiveOrphanTx, RepairWallet, LoadWallet, ReacceptWalletTransactions, CrashWallet,
              CrashNode, Crash, Goto, vars, control
<1>4. ~BlockConnects /\ ~DisconnectStep
  <2>1. ~ExtendBestChain /\ ~ConnectStep /\ ~DisconnectStep
    BY <1>1 DEF ExtendBestChain, ConnectStep, DisconnectStep
  <2>2. ~ConnectSecondary
    BY <1>1 DEF ConnectSecondary
  <2> QED
    BY <2>1, <2>2 DEF BlockConnects
<1>5. wallet' = wallet
  BY <1>1, <1>3, <1>4 DEF ChainAndWallet, Heard, walletVars
<1> QED
  BY <1>2, <1>5

(***************************************************************************)
(* A reorganize that takes a coinstake of the wallet out of the chain      *)
(* gives its input back, unless the new chain spends it, however many      *)
(* blocks it disconnects and connects (DisconnectBlock's call of           *)
(* SyncWithWallets with fConnect false, DisableTransaction).               *)
(***************************************************************************)
THEOREM CoinStakesAreRefunded == WalletSpec => CoinStakeIsRefunded
<1>1. WalletInit => Returned
  BY DEF WalletInit, TxPoolInit, Init, Returned
<1>2. WalletSpec => []Returned
  BY <1>1, ReturnedStep, WalletAlways, PTL DEF WalletSpec
<1> QED
  BY <1>2, WalletAlways, CommitReturns, PTL DEF WalletSpec, CoinStakeIsRefunded

-----------------------------------------------------------------------------
(***************************************************************************)
(* The miner, the minter and getwork.                                      *)
(***************************************************************************)
LEMMA CheckWorkIsPoolStep ==
  ASSUME NEW b \in Block, NEW bits, LockFree, CheckWork(b, bits)
  PROVE  \/ UNCHANGED <<allTxVars, solved>>
         \/ /\ solved' = b /\ CheckWorkAccepts(b, bits)
            /\ OtherChainStep /\ AcceptBlock(b)
<1> SUFFICES ASSUME CheckWorkAccepts(b, bits) PROVE solved' = b /\ OtherChainStep /\ AcceptBlock(b)
  BY DEF CheckWork
<1>1. solved' = b /\ AcceptBlock(b) /\ UNCHANGED txVars
  BY DEF CheckWork
<1>2. pc = "idle" /\ vWorkQueue = << >>
  BY DEF LockFree, Ready
<1>3. ~(ExtendBestChain \/ CommitReorganize \/ ConnectSecondary)
  BY <1>2 DEF ExtendBestChain, CommitReorganize, ConnectSecondary
<1> QED
  BY <1>1, <1>2, <1>3 DEF OtherChainStep

LEMMA MinerStepIsPoolStep == [MinerNext]_allMinerVars => [TxPoolNext]_allTxVars
<1> SUFFICES ASSUME [MinerNext]_allMinerVars PROVE [TxPoolNext]_allTxVars
  OBVIOUS
<1>1. ASSUME NEW b \in OwnBlock, Solve(b) \/ SubmitWork(b) PROVE [TxPoolNext]_allTxVars
  <2>1. b \in Block /\ LockFree /\ \E bits : CheckWork(b, bits)
    BY <1>1, MinerAssumption DEF Solve, SubmitWork
  <2> QED
    BY <2>1, CheckWorkIsPoolStep DEF TxPoolNext
<1>2. CASE NodeStep \/ CrashMiner
  BY <1>2 DEF NodeStep, CrashMiner, TxPoolNext
<1>3. CASE MinerStarts \/ ReadBest \/ ReadForTarget \/ CreateNewBlock \/ NoticesNewBest \/ RunsOut
  BY <1>3 DEF MinerStarts, ReadBest, ReadForTarget, CreateNewBlock, NoticesNewBest, RunsOut,
     LeavesSearch
<1>4. CASE GetWork \/ ProcessBlockReturns \/ \E t \in CoinStake : CreateCoinStake(t)
  BY <1>4 DEF GetWork, ProcessBlockReturns, CreateCoinStake
<1>5. CASE UNCHANGED allMinerVars
  BY <1>5 DEF allMinerVars
<1> QED
  BY <1>1, <1>2, <1>3, <1>4, <1>5 DEF MinerNext

(***************************************************************************)
(* Next to a miner the chain and the pool behave as they do without one:   *)
(* CheckWork goes through AcceptBlock, nothing else touches them.          *)
(***************************************************************************)
THEOREM MinerImplementsTxPool == MinerSpec => TxPoolSpec
<1>1. MinerInit => TxPoolInit
  BY DEF MinerInit
<1> QED
  BY <1>1, MinerStepIsPoolStep, PTL DEF MinerSpec, TxPoolSpec

-----------------------------------------------------------------------------
(***************************************************************************)
(* What the thread holds, by where it is.                                  *)
(***************************************************************************)
MinerShape ==
    /\ miner \in {"off", "read", "bits", "collect", "search", "submitted"}
    /\ IF miner \in {"bits", "collect", "search"}
       THEN pindexPrev \in mapBlockIndex ELSE pindexPrev = NoBlock
    /\ IF miner \in {"collect", "search"} THEN bitsPrev \in mapBlockIndex ELSE bitsPrev = NoBlock
    /\ IF miner \in {"collect", "search"}
       THEN coinstake \in {<< >>} \cup {<<t>> : t \in CoinStake} ELSE coinstake = << >>
    /\ IF miner = "search" THEN template \in Template ELSE template = NoTemplate
    /\ mapNewBlock \subseteq Template
    /\ Cardinality(mapNewBlock) <= MaxWork
    /\ solved \in mapBlockIndex \cup {NoBlock}
    /\ miner = "submitted" => solved # NoBlock
    /\ \A t \in mapNewBlock : t.hashPrevBlock = workPrev

LEMMA ShapeIsWhole == TypeOK /\ MinerShape => WorkIsWhole
<1> SUFFICES ASSUME TypeOK, MinerShape PROVE WorkIsWhole
  OBVIOUS
<1>1. NoBlock \notin mapBlockIndex /\ NoTemplate \notin Template
  BY BlockAssumption DEF TypeOK, NoTemplate, Template
<1> QED
  BY <1>1 DEF MinerShape, WorkIsWhole, MinerTypeOK, WorkIsOnWorkPrev

\* CreateCoinStake makes one transaction or none.
LEMMA StakeLists ==
  ASSUME NEW stake \in {<< >>} \cup {<<s>> : s \in CoinStake}
  PROVE  /\ stake \in Seq(Tx)
         /\ stake \in {<< >>} \cup {<<s>> : s \in Tx}
         /\ stake # << >> => Len(stake) = 1 /\ stake[1] \in CoinStake
<1>1. CoinStake \subseteq Tx
  BY TxAssumption
<1>2. CASE stake = << >>
  BY <1>2
<1>3. CASE stake # << >>
  <2>1. PICK s \in CoinStake : stake = <<s>>
    BY <1>3
  <2> QED
    BY <1>1, <2>1
<1> QED
  BY <1>2, <1>3

LEMMA CollectedLists ==
  ASSUME mempool.mapTx \subseteq Tx, NEW vtx \in Collected
  PROVE  \E n \in Nat : /\ vtx \in [1 .. n -> mempool.mapTx \ Invalid]
                        /\ vtx \in Seq(Tx) /\ Len(vtx) = n
<1>1. PICK n \in 0 .. MaxBlockTxs : vtx \in [1 .. n -> mempool.mapTx \ Invalid]
  BY DEF Collected
<1>2. n \in Nat
  OBVIOUS
<1> QED
  BY <1>1, <1>2

LEMMA NewBlockTypes ==
  ASSUME TypeOK, mempool.mapTx \subseteq Tx,
         NEW stake \in {<< >>} \cup {<<t>> : t \in CoinStake},
         NEW t \in NewBlocks(stake)
  PROVE  t \in Template /\ t.hashPrevBlock = pindexBest
<1>1. PICK vtx \in Collected : t = [hashPrevBlock |-> pindexBest, vtx |-> stake \o vtx]
  BY DEF NewBlocks
<1>3. vtx \in Seq(Tx)
  BY CollectedLists
<1>4. stake \in Seq(Tx)
  BY StakeLists
<1>5. stake \o vtx \in Seq(Tx)
  BY <1>3, <1>4
<1> QED
  BY <1>1, <1>5 DEF Template, TypeOK

LEMMA MinerShapeInit == MinerInit => MinerShape
<1>1. Cardinality({}) = 0
  BY FS_EmptySet
<1> QED
  BY <1>1, MinerAssumption DEF MinerInit, MinerShape

LEMMA MinerShapeStep ==
  TypeOK /\ mempool.mapTx \subseteq Tx /\ MinerShape /\ [MinerNext]_allMinerVars => MinerShape'
<1> SUFFICES ASSUME TypeOK, mempool.mapTx \subseteq Tx, MinerShape, [MinerNext]_allMinerVars
             PROVE  MinerShape'
  OBVIOUS
<1>a. mapBlockIndex \subseteq mapBlockIndex'
  BY MinerStepIsPoolStep, TxPoolStepIsChainStep, IndexOnlyGrows
<1>b. pindexBest \in mapBlockIndex
  BY DEF TypeOK
<1>1. CASE MinerStarts
  BY <1>1, <1>a DEF MinerStarts, MinerShape, getwork
<1>2. CASE ReadBest
  BY <1>2, <1>a, <1>b DEF ReadBest, MinerShape, getwork
<1>3. CASE ReadForTarget
  BY <1>3, <1>a, <1>b DEF ReadForTarget, MinerShape, getwork
<1>4. ASSUME NEW t \in CoinStake, CreateCoinStake(t) PROVE MinerShape'
  BY <1>4, <1>a DEF CreateCoinStake, MinerShape, getwork
<1>5. CASE CreateNewBlock
  <2>1. coinstake \in {<< >>} \cup {<<t>> : t \in CoinStake}
    BY <1>5 DEF CreateNewBlock, MinerShape
  <2>2. template' \in Template
    BY <1>5, <2>1, NewBlockTypes DEF CreateNewBlock
  <2> QED
    BY <1>5, <1>a, <2>2 DEF CreateNewBlock, MinerShape, getwork
<1>6. ASSUME NEW b \in OwnBlock, Solve(b) PROVE MinerShape'
  <2>1. b \in Block /\ LockFree /\ CheckWork(b, NextTarget[bitsPrev])
    BY <1>6, MinerAssumption DEF Solve
  <2>2. solved = NoBlock /\ NoBlock \notin mapBlockIndex /\ b # NoBlock
    BY <2>1, BlockAssumption DEF LockFree, TypeOK
  <2>3. solved' \in mapBlockIndex' \cup {NoBlock} /\ (solved' = b \/ solved' = NoBlock)
    <3>1. AcceptBlock(b) => b \in mapBlockIndex'
      BY DEF AcceptBlock
    <3> QED
      BY <2>1, <2>2, <3>1, CheckWorkIsPoolStep
  <2> QED
    BY <1>6, <1>a, <2>2, <2>3 DEF Solve, DropsBlock, MinerShape, getwork
<1>7. CASE NoticesNewBest \/ RunsOut
  BY <1>7, <1>a DEF NoticesNewBest, RunsOut, LeavesSearch, DropsBlock, MinerShape, getwork
<1>8. CASE GetWork
  <2>1. PICK t \in NewBlocks(<< >>) : mapNewBlock' = Kept \cup {t}
    BY <1>8 DEF GetWork
  <2>2. t \in Template /\ t.hashPrevBlock = pindexBest
    BY <2>1, NewBlockTypes
  <2>3. Kept \subseteq mapNewBlock /\ \A s \in Kept : s.hashPrevBlock = pindexBest
    BY DEF Kept, MinerShape
  <2>4. mapNewBlock' \subseteq Template /\ \A s \in mapNewBlock' : s.hashPrevBlock = workPrev'
    BY <1>8, <2>1, <2>2, <2>3 DEF GetWork, MinerShape
  <2> QED
    BY <1>8, <1>a, <2>4 DEF GetWork, MinerShape, thread
<1>9. ASSUME NEW b \in OwnBlock, SubmitWork(b) PROVE MinerShape'
  <2>1. b \in Block /\ LockFree /\ CheckWork(b, NextTarget[workPrev])
    BY <1>9, MinerAssumption DEF SubmitWork
  <2>2. solved = NoBlock /\ NoBlock \notin mapBlockIndex
    BY <2>1, BlockAssumption DEF LockFree, TypeOK
  <2>3. solved' \in mapBlockIndex' \cup {NoBlock}
    <3>1. AcceptBlock(b) => b \in mapBlockIndex'
      BY DEF AcceptBlock
    <3> QED
      BY <2>1, <2>2, <3>1, CheckWorkIsPoolStep
  <2> QED
    BY <1>9, <1>a, <2>2, <2>3 DEF SubmitWork, MinerShape, thread, getwork
<1>10. CASE ProcessBlockReturns
  BY <1>10, <1>a DEF ProcessBlockReturns, MinerShape, getwork
<1>11. CASE NodeStep
  BY <1>11, <1>a DEF NodeStep, MinerShape, minerVars, thread, getwork
<1>12. CASE CrashMiner
  <2>1. Cardinality({}) <= MaxWork
    BY FS_EmptySet, MinerAssumption
  <2> QED
    BY <1>12, <2>1 DEF CrashMiner, DropsBlock, MinerShape
<1>13. CASE UNCHANGED allMinerVars
  BY <1>13, <1>a DEF allMinerVars, minerVars, thread, getwork, MinerShape
<1> QED
  BY <1>1, <1>2, <1>3, <1>4, <1>5, <1>6, <1>7, <1>8, <1>9, <1>10, <1>11, <1>12, <1>13 DEF MinerNext

\* The pool of a miner keeps its type.
LEMMA MinersPoolTypes == MinerSpec => [](TypeOK /\ WorksTowardGoal /\ mempool.mapTx \subseteq Tx)
<1>1. TxPoolTypeOK => mempool.mapTx \subseteq Tx
  BY DEF TxPoolTypeOK
<1> QED
  BY <1>1, MinerImplementsTxPool, TxPoolImplementsChain, TypeCorrect, TxPoolTypeCorrect, PTL

(***************************************************************************)
(* The variables of the miner have their types and belong together, and    *)
(* what getwork handed out is on its pindexPrev (BitcoinMiner, getwork).   *)
(***************************************************************************)
THEOREM WorkStaysWhole == MinerSpec => []WorkIsWhole
  BY MinersPoolTypes, MinerShapeInit, MinerShapeStep, ShapeIsWhole, PTL DEF MinerSpec
-----------------------------------------------------------------------------
(***************************************************************************)
(* While a miner runs or a block of the node's own is processed, the node  *)
(* is not starting: SetBestChain works for a received block with more      *)
(* trust than the best one or for a checkpoint after the genesis block.    *)
(***************************************************************************)
NodeRuns ==
    /\ pc \notin {"down", "reset", "keycheck"}
    /\ pc = "writesync" => caller \in {"pending", "message"} /\ goal # Genesis
    /\ pc \in SettingBest =>
          \/ caller = "block" /\ MoreTrust(goal)
          \/ caller \in {"pending", "message"} /\ goal # Genesis

MinerRuns == miner # "off" \/ solved # NoBlock => NodeRuns

LEMMA AdvancesPastGenesis ==
  ASSUME TypeOK, NEW c, Advances(c)
  PROVE  c # Genesis
BY BlockAssumption DEF Advances, TypeOK

LEMMA NodeRunsStep ==
  ASSUME TypeOK, NodeRuns, [Next]_vars, ~Crash
  PROVE  NodeRuns'
<1>1. ASSUME NEW b \in Block, AcceptBlock(b) PROVE NodeRuns'
  BY <1>1 DEF AcceptBlock, Call, Goto, NodeRuns, MoreTrust, SettingBest, best
<1>2. ASSUME NEW c \in Block, ProcessSyncCheckpoint(c) PROVE NodeRuns'
  <2>1. CASE Known(c) /\ Advances(c) /\ Enforce("message", c)
    BY <2>1, AdvancesPastGenesis DEF Enforce, Call, Write, NodeRuns, SettingBest
  <2>2. CASE UNCHANGED control
    BY <1>2, <2>2 DEF ProcessSyncCheckpoint, control, NodeRuns, SettingBest
  <2> QED
    BY <1>2, <2>1, <2>2 DEF ProcessSyncCheckpoint
<1>3. CASE ExtendBestChain \/ SecondaryFails \/ FinishSetBestChain
  BY <1>3 DEF ExtendBestChain, SecondaryFails, FinishSetBestChain, Succeed, Goto, NodeRuns, SettingBest
<1>4. CASE SetBestChainFails \/ ReorganizeFails
  BY <1>4 DEF SetBestChainFails, ReorganizeFails, Fail, AfterFailure, Goto, NodeRuns, SettingBest
<1>5. CASE StartReorganize \/ DisconnectStep \/ ConnectStep \/ CommitReorganize \/ ConnectSecondary
  BY <1>5 DEF StartReorganize, DisconnectStep, ConnectStep, CommitReorganize, ConnectSecondary, Goto,
     NodeRuns, SettingBest, MoreTrust, best
<1>6. CASE AcceptPendingSyncCheckpoint
  <2>1. CASE Advances(hashPendingCheckpoint) /\ Enforce("pending", hashPendingCheckpoint)
    BY <2>1, AdvancesPastGenesis DEF Enforce, Call, Write, NodeRuns, SettingBest
  <2>2. CASE Goto("idle")
    BY <2>2 DEF Goto, NodeRuns, SettingBest
  <2> QED
    BY <1>6, <2>1, <2>2 DEF AcceptPendingSyncCheckpoint
<1>7. CASE WriteSyncCheckpoint \/ WriteSyncCheckpointFails
  BY <1>7 DEF WriteSyncCheckpoint, WriteSyncCheckpointFails, Goto, NodeRuns, SettingBest
<1>8. CASE ResetSyncCheckpoint \/ LoadBlockIndex \/ CheckMasterKey
  BY <1>8 DEF ResetSyncCheckpoint, LoadBlockIndex, CheckMasterKey, NodeRuns
<1>9. CASE UNCHANGED vars
  BY <1>9 DEF vars, control, best, NodeRuns, MoreTrust
<1> QED
  BY <1>1, <1>2, <1>3, <1>4, <1>5, <1>6, <1>7, <1>8, <1>9 DEF Next, Step

\* What can move the best block: a chain with more trust, or a checkpoint that is then written.
LEMMA BestBlockMoves ==
  ASSUME TypeOK, NodeRuns, [Next]_vars, ~Crash
  PROVE  \/ pindexBest' = pindexBest
         \/ pindexBest' = goal /\ pc' = "writesync"
         \/ pindexBest' = goal /\ ChainTrust[goal] > ChainTrust[pindexBest]
<1>1. ASSUME NEW b \in Block, AcceptBlock(b) \/ ProcessSyncCheckpoint(b)
      PROVE  pindexBest' = pindexBest
  BY <1>1 DEF AcceptBlock, ProcessSyncCheckpoint, best
<1>2. CASE ExtendBestChain \/ SecondaryFails \/ FinishSetBestChain
  BY <1>2 DEF ExtendBestChain, SecondaryFails, FinishSetBestChain, Succeed, Goto, NodeRuns, SettingBest,
     MoreTrust
<1>3. CASE SetBestChainFails \/ ReorganizeFails
  BY <1>3 DEF SetBestChainFails, ReorganizeFails, best
<1>4. CASE StartReorganize \/ DisconnectStep \/ ConnectStep \/ CommitReorganize \/ ConnectSecondary
  BY <1>4 DEF StartReorganize, DisconnectStep, ConnectStep, CommitReorganize, ConnectSecondary, best
<1>5. CASE AcceptPendingSyncCheckpoint \/ WriteSyncCheckpoint \/ WriteSyncCheckpointFails
  BY <1>5 DEF AcceptPendingSyncCheckpoint, WriteSyncCheckpoint, WriteSyncCheckpointFails, best
<1>6. CASE ResetSyncCheckpoint \/ LoadBlockIndex \/ CheckMasterKey
  BY <1>6 DEF ResetSyncCheckpoint, LoadBlockIndex, CheckMasterKey, NodeRuns
<1>7. CASE UNCHANGED vars
  BY <1>7 DEF vars, best
<1> QED
  BY <1>1, <1>2, <1>3, <1>4, <1>5, <1>6, <1>7 DEF Next, Step

LEMMA FaultsStay ==
  ASSUME TypeOK, [Next]_vars
  PROVE  faults' = 0 => faults = 0 /\ ~Fault
<1>0. faults \in Nat
  BY CheckpointAssumption DEF TypeOK
<1>1. faults' \in {faults, faults + 1}
  <2>1. ASSUME NEW b \in Block, AcceptBlock(b) \/ ProcessSyncCheckpoint(b) PROVE faults' = faults
    BY <2>1 DEF AcceptBlock, ProcessSyncCheckpoint, bounds
  <2>2. CASE Step
    BY <2>2 DEF Step, ExtendBestChain, SetBestChainFails, StartReorganize, DisconnectStep,
       ConnectStep, ReorganizeFails, CommitReorganize, ConnectSecondary, SecondaryFails,
       FinishSetBestChain, AcceptPendingSyncCheckpoint, WriteSyncCheckpoint,
       WriteSyncCheckpointFails, ResetSyncCheckpoint, LoadBlockIndex, CheckMasterKey, Fault, bounds
  <2> QED
    BY <2>1, <2>2 DEF Next, Crash, vars, bounds
<1> QED
  BY <1>0, <1>1 DEF Fault

\* Checkpoints and faults are not undone while the node runs.
LEMMA OnlyBlocksMovedBefore ==
  ASSUME TypeOK, NodeRuns, [Next]_vars, ~Crash, OnlyBlocksMove'
  PROVE  OnlyBlocksMove /\ (pc = "writesync" => pc' = "writesync")
<1>0. faults = 0 /\ ~Fault
  BY FaultsStay DEF OnlyBlocksMove
<1>1. ASSUME NEW b \in Block, AcceptBlock(b) \/ ProcessSyncCheckpoint(b)
      PROVE  hashSyncCheckpoint' = hashSyncCheckpoint /\ pc = "idle"
  BY <1>1 DEF AcceptBlock, ProcessSyncCheckpoint, index
<1>2. CASE ExtendBestChain \/ SecondaryFails \/ FinishSetBestChain \/ SetBestChainFails \/ ReorganizeFails
           \/ StartReorganize \/ DisconnectStep \/ ConnectStep \/ CommitReorganize \/ ConnectSecondary
           \/ AcceptPendingSyncCheckpoint
  BY <1>0, <1>2 DEF ExtendBestChain, SecondaryFails, FinishSetBestChain, SetBestChainFails,
     ReorganizeFails, StartReorganize, DisconnectStep, ConnectStep, CommitReorganize, ConnectSecondary,
     AcceptPendingSyncCheckpoint, index, OnlyBlocksMove
<1>3. ~WriteSyncCheckpoint
  BY DEF WriteSyncCheckpoint, NodeRuns, OnlyBlocksMove
<1>4. ~WriteSyncCheckpointFails
  BY <1>0 DEF WriteSyncCheckpointFails
<1>5. ~(ResetSyncCheckpoint \/ LoadBlockIndex \/ CheckMasterKey)
  BY DEF ResetSyncCheckpoint, LoadBlockIndex, CheckMasterKey, NodeRuns
<1>6. CASE UNCHANGED vars
  BY <1>0, <1>6 DEF vars, control, index, OnlyBlocksMove
<1> QED
  BY <1>0, <1>1, <1>2, <1>3, <1>4, <1>5, <1>6 DEF Next, Step, OnlyBlocksMove

(***************************************************************************)
(* The steps of the miner come in two kinds: the chain moves while the     *)
(* thread is where it was, or the thread moves and the chain does not,     *)
(* but for a block it submits and for a crash.                             *)
(***************************************************************************)
LEMMA MinerSteps ==
  ASSUME TypeOK, [MinerNext]_allMinerVars
  PROVE  \/ NodeStep /\ [Next]_vars /\ ~Crash
         \/ UNCHANGED vars
         \/ \E b \in OwnBlock : /\ Solve(b) \/ SubmitWork(b)
                                /\ CheckWork(b, NextTarget[IF Solve(b) THEN bitsPrev ELSE workPrev])
                                /\ AcceptBlock(b) /\ Next /\ ~Crash
         \/ CrashMiner
<1>1. CASE NodeStep
  <2>1. [Next]_vars
    BY <1>1, TxPoolStepIsChainStep DEF NodeStep
  <2>2. ~Crash
    BY <1>1, CheckpointAssumption DEF NodeStep, Crash, TypeOK
  <2> QED
    BY <1>1, <2>1, <2>2
<1>2. ASSUME NEW b \in OwnBlock, Solve(b) \/ SubmitWork(b)
      PROVE  \/ UNCHANGED vars
             \/ /\ CheckWork(b, NextTarget[IF Solve(b) THEN bitsPrev ELSE workPrev])
                /\ AcceptBlock(b) /\ Next /\ ~Crash
  <2>1. b \in Block /\ LockFree
    BY <1>2, MinerAssumption DEF Solve, SubmitWork
  <2>2. CheckWork(b, NextTarget[IF Solve(b) THEN bitsPrev ELSE workPrev])
    BY <1>2 DEF Solve, SubmitWork
  <2>3. AcceptBlock(b) => Next /\ ~Crash
    BY <2>1, CheckpointAssumption DEF Next, AcceptBlock, Crash, bounds, TypeOK
  <2> QED
    BY <2>1, <2>2, <2>3, CheckWorkIsPoolStep DEF allTxVars
<1>3. CASE MinerStarts \/ ReadBest \/ ReadForTarget \/ CreateNewBlock \/ NoticesNewBest \/ RunsOut
  BY <1>3 DEF MinerStarts, ReadBest, ReadForTarget, CreateNewBlock, NoticesNewBest, RunsOut,
     LeavesSearch, allTxVars
<1>4. CASE GetWork \/ ProcessBlockReturns \/ \E t \in CoinStake : CreateCoinStake(t)
  BY <1>4 DEF GetWork, ProcessBlockReturns, CreateCoinStake, allTxVars
<1>5. CASE UNCHANGED allMinerVars
  BY <1>5 DEF allMinerVars, allTxVars
<1> QED
  BY <1>1, <1>2, <1>3, <1>4, <1>5 DEF MinerNext

LEMMA MinerRunsStep == TypeOK /\ MinerRuns /\ [MinerNext]_allMinerVars => MinerRuns'
<1> SUFFICES ASSUME TypeOK, MinerRuns, [MinerNext]_allMinerVars, miner' # "off" \/ solved' # NoBlock
             PROVE  NodeRuns'
  BY DEF MinerRuns
<1>a. pc = "idle" => NodeRuns
  BY DEF NodeRuns, SettingBest
<1>1. CASE NodeStep /\ [Next]_vars /\ ~Crash
  <2>1. miner # "off" \/ solved # NoBlock
    BY <1>1 DEF NodeStep, minerVars, thread
  <2> QED
    BY <1>1, <2>1, NodeRunsStep DEF MinerRuns
<1>2. CASE UNCHANGED vars
  <2>1. miner # "off" \/ solved # NoBlock \/ pc = "idle"
    <3>1. CASE MinerStarts
      BY <3>1 DEF MinerStarts, LockFree, Ready
    <3>2. ASSUME NEW b \in OwnBlock, Solve(b) \/ SubmitWork(b) PROVE pc = "idle"
      BY <3>2 DEF Solve, SubmitWork, LockFree, Ready
    <3>3. CASE ReadBest \/ ReadForTarget \/ CreateNewBlock \/ NoticesNewBest \/ RunsOut
               \/ \E t \in CoinStake : CreateCoinStake(t)
      BY <3>3 DEF ReadBest, ReadForTarget, CreateNewBlock, NoticesNewBest, RunsOut, LeavesSearch,
         CreateCoinStake
    <3>4. CASE GetWork \/ ProcessBlockReturns
      BY <3>4 DEF GetWork, ProcessBlockReturns, LockFree, Ready
    <3>5. CASE NodeStep
      BY <3>5 DEF NodeStep, minerVars, thread
    <3>6. CASE CrashMiner
      BY <3>6 DEF CrashMiner
    <3>7. CASE UNCHANGED allMinerVars
      BY <3>7 DEF allMinerVars, minerVars, thread
    <3> QED
      BY <3>1, <3>2, <3>3, <3>4, <3>5, <3>6, <3>7 DEF MinerNext
  <2>2. NodeRuns
    BY <1>a, <2>1 DEF MinerRuns
  <2> QED
    BY <1>2, <2>2 DEF vars, control, best, NodeRuns, MoreTrust
<1>3. ASSUME NEW b \in OwnBlock, AcceptBlock(b), Next, ~Crash PROVE NodeRuns'
  BY <1>3, <1>a, NodeRunsStep DEF AcceptBlock
<1>4. ~CrashMiner
  BY DEF CrashMiner
<1> QED
  BY <1>1, <1>2, <1>3, <1>4, MinerSteps
(***************************************************************************)
(* The two reads of pindexBest without a lock: while only received blocks  *)
(* move the best chain, what was read still is the best block or has less  *)
(* trust, and the first read is not ahead of the template.                 *)
(***************************************************************************)
NotAhead(a, b) == a = b \/ ChainTrust[a] < ChainTrust[b]

ReadsAreOld ==
    OnlyBlocksMove =>
        /\ pc # "writesync" =>
              /\ miner \in {"bits", "collect", "search"} => NotAhead(pindexPrev, pindexBest)
              /\ miner \in {"collect", "search"} => NotAhead(bitsPrev, pindexBest)
        /\ miner = "search" => NotAhead(pindexPrev, template.hashPrevBlock)

LEMMA StaysBehind ==
  ASSUME TypeOK, NodeRuns, [Next]_vars, ~Crash, OnlyBlocksMove', pc' # "writesync",
         NEW x \in Block, NotAhead(x, pindexBest)
  PROVE  NotAhead(x, pindexBest') /\ (x = pindexBest' => pindexBest' = pindexBest)
<1>1. pindexBest' = pindexBest \/ (pindexBest' = goal /\ ChainTrust[goal] > ChainTrust[pindexBest])
  BY BestBlockMoves
<1>2. /\ ChainTrust[x] \in Nat /\ ChainTrust[pindexBest] \in Nat /\ ChainTrust[goal] \in Nat
  BY BlockAssumption DEF TypeOK
<1> QED
  BY <1>1, <1>2 DEF NotAhead

LEMMA ReadsAreOldStep ==
  TypeOK /\ MinerShape /\ MinerRuns /\ ReadsAreOld /\ [MinerNext]_allMinerVars => ReadsAreOld'
<1> SUFFICES ASSUME TypeOK, MinerShape, MinerRuns, ReadsAreOld, [MinerNext]_allMinerVars, OnlyBlocksMove'
             PROVE  ReadsAreOld'
  BY DEF ReadsAreOld
<1>a. /\ miner \in {"bits", "collect", "search"} => pindexPrev \in Block
      /\ miner \in {"collect", "search"} => bitsPrev \in Block
  BY DEF MinerShape, TypeOK
<1>b. ASSUME UNCHANGED thread, [Next]_vars, ~Crash PROVE ReadsAreOld'
  <2>1. CASE miner = "off"
    BY <1>b, <2>1 DEF ReadsAreOld, thread
  <2>2. CASE miner # "off"
    <3>1. NodeRuns
      BY <2>2 DEF MinerRuns
    <3>2. OnlyBlocksMove /\ (pc' # "writesync" => pc # "writesync")
      BY <1>b, <3>1, OnlyBlocksMovedBefore
    <3>3. ASSUME pc' # "writesync", miner \in {"bits", "collect", "search"}
          PROVE  NotAhead(pindexPrev, pindexBest')
      BY <1>a, <1>b, <3>1, <3>2, <3>3, StaysBehind DEF ReadsAreOld
    <3>4. ASSUME pc' # "writesync", miner \in {"collect", "search"}
          PROVE  NotAhead(bitsPrev, pindexBest')
      BY <1>a, <1>b, <3>1, <3>2, <3>4, StaysBehind DEF ReadsAreOld
    <3>5. miner = "search" => NotAhead(pindexPrev, template.hashPrevBlock)
      BY <3>2 DEF ReadsAreOld
    <3> QED
      BY <1>b, <3>3, <3>4, <3>5 DEF ReadsAreOld, NotAhead, thread
  <2> QED
    BY <2>1, <2>2
<1>c. UNCHANGED vars => OnlyBlocksMove
  BY DEF vars, index, bounds, OnlyBlocksMove
<1>1. CASE NodeStep
  <2>1. [Next]_vars /\ ~Crash
    BY <1>1, TxPoolStepIsChainStep, CheckpointAssumption DEF NodeStep, Crash, TypeOK
  <2> QED
    BY <1>1, <1>b, <2>1 DEF NodeStep, minerVars
<1>2. ASSUME NEW b \in OwnBlock, Solve(b) PROVE ReadsAreOld'
  BY <1>2 DEF Solve, ReadsAreOld
<1>3. ASSUME NEW b \in OwnBlock, SubmitWork(b) PROVE ReadsAreOld'
  <2>1. UNCHANGED thread /\ b \in Block /\ LockFree /\ CheckWork(b, NextTarget[workPrev])
    BY <1>3, MinerAssumption DEF SubmitWork
  <2>2. AcceptBlock(b) => [Next]_vars /\ ~Crash
    BY <2>1, CheckpointAssumption DEF Next, AcceptBlock, Crash, bounds, TypeOK
  <2>3. UNCHANGED vars => [Next]_vars /\ ~Crash
    BY CheckpointAssumption DEF Crash, vars, bounds, TypeOK
  <2> QED
    BY <1>b, <2>1, <2>2, <2>3, CheckWorkIsPoolStep DEF allTxVars
<1>4. CASE ReadBest
  BY <1>4, <1>c DEF ReadBest, ReadsAreOld, NotAhead, allTxVars, vars, best
<1>5. CASE ReadForTarget
  BY <1>5, <1>c DEF ReadForTarget, ReadsAreOld, NotAhead, allTxVars, vars, best, control
<1>6. ASSUME NEW t \in CoinStake, CreateCoinStake(t) PROVE ReadsAreOld'
  BY <1>6, <1>c DEF CreateCoinStake, ReadsAreOld, NotAhead, allTxVars, vars, best, control
<1>7. CASE CreateNewBlock
  <2>1. template'.hashPrevBlock = pindexBest
    BY <1>7 DEF CreateNewBlock, NewBlocks
  <2>2. NotAhead(pindexPrev, pindexBest) /\ NotAhead(bitsPrev, pindexBest)
    BY <1>7, <1>c DEF CreateNewBlock, LockFree, Ready, ReadsAreOld, allTxVars
  <2> QED
    BY <1>7, <2>1, <2>2 DEF CreateNewBlock, ReadsAreOld, NotAhead, allTxVars, vars, best
<1>8. CASE MinerStarts \/ NoticesNewBest \/ RunsOut \/ CrashMiner
  BY <1>8 DEF MinerStarts, NoticesNewBest, RunsOut, LeavesSearch, CrashMiner, ReadsAreOld
<1>9. CASE GetWork \/ UNCHANGED allMinerVars
  <2>1. UNCHANGED thread /\ UNCHANGED vars
    BY <1>9 DEF GetWork, allMinerVars, minerVars, allTxVars
  <2>2. ~Crash
    BY <2>1, CheckpointAssumption DEF Crash, vars, bounds, TypeOK
  <2> QED
    BY <1>b, <2>1, <2>2
<1>10. CASE ProcessBlockReturns
  <2>1. UNCHANGED vars /\ UNCHANGED <<pindexPrev, bitsPrev, template>>
        /\ (miner' = miner \/ miner' = "read")
    BY <1>10 DEF ProcessBlockReturns, allTxVars
  <2> QED
    BY <1>c, <2>1 DEF ReadsAreOld, NotAhead, vars, best, control
<1> QED
  BY <1>1, <1>2, <1>3, <1>4, <1>5, <1>6, <1>7, <1>8, <1>9, <1>10 DEF MinerNext

LEMMA MinerAlways ==
  MinerSpec => [](/\ TypeOK /\ WorksTowardGoal /\ IndexFollowsChain /\ PointersFollow
                  /\ mempool.mapTx \subseteq Tx \ Minted /\ PoolOutsideChain
                  /\ MinerShape /\ MinerRuns /\ ReadsAreOld)
<1>1. TxPoolTypeOK => mempool.mapTx \subseteq Tx \ Minted
  BY DEF TxPoolTypeOK
<1>2. mempool.mapTx \subseteq Tx \ Minted => mempool.mapTx \subseteq Tx
  OBVIOUS
<1>3. MinerInit => MinerRuns /\ ReadsAreOld
  BY DEF MinerInit, MinerRuns, ReadsAreOld
<1>4. Init => PointersFollow
  BY PointersFollowInit
<1> QED
  BY <1>1, <1>2, <1>3, <1>4, MinerImplementsTxPool, TxPoolImplementsChain, TypeCorrect, TxPoolTypeCorrect,
     IndexFollowsAlways, PoolStaysOutsideChain, PointersFollowStep, MinerShapeInit, MinerShapeStep,
     MinerRunsStep, ReadsAreOldStep, PTL DEF MinerSpec, Spec

(***************************************************************************)
(* The search loop notices every best block with more trust, though it     *)
(* compares another read of pindexBest than the one the block is built on  *)
(* (BitcoinMiner), as long as only received blocks move the best chain.    *)
(***************************************************************************)
THEOREM StaleTemplateIsAlwaysNoticed == MinerSpec => []StaleTemplateIsNoticed
<1>1. ReadsAreOld => StaleTemplateIsNoticed
  BY DEF ReadsAreOld, NotAhead, StaleTemplateIsNoticed, Outdated
<1> QED
  BY <1>1, MinerAlways, PTL
-----------------------------------------------------------------------------
(***************************************************************************)
(* The transactions of a template, judged by the chain it is built on: a   *)
(* coinstake comes first, and unless the pool has taken its output what    *)
(* follows connects.                                                       *)
(***************************************************************************)
TemplateIsGood(t) ==
    /\ \A i \in DOMAIN t.vtx : t.vtx[i] \in Minted => i = 1 /\ t.vtx[i] \in CoinStake
    /\ ~StakeTaken(t) =>
          \A i \in DOMAIN t.vtx :
              t.vtx[i] \notin CoinStake
              => ConnectsAfter(t.vtx, i, IndexOf(t.hashPrevBlock), t.hashPrevBlock)

HasNoStake(t) == \A i \in DOMAIN t.vtx : t.vtx[i] \notin CoinStake

TemplatesAreGood ==
    /\ ~desynced => \A t \in AtWork : TemplateIsGood(t)
    /\ \A t \in mapNewBlock : HasNoStake(t)

LEMMA WithStake ==
  ASSUME NEW S, NEW vtx \in Seq(S), NEW stake \in {<< >>} \cup {<<s>> : s \in S}
  PROVE  /\ Len(stake) \in {0, 1} /\ (Len(stake) = 1 => stake = <<stake[1]>>)
         /\ DOMAIN (stake \o vtx) = 1 .. Len(stake) + Len(vtx)
         /\ \A i \in DOMAIN (stake \o vtx) :
               IF i <= Len(stake) THEN i = 1 /\ (stake \o vtx)[i] = stake[1]
               ELSE /\ i - Len(stake) \in 1 .. Len(vtx)
                    /\ (stake \o vtx)[i] = vtx[i - Len(stake)]
<1>1. CASE stake = << >>
  BY <1>1
<1>2. ASSUME NEW s \in S, stake = <<s>>
      PROVE  /\ Len(stake) \in {0, 1} /\ (Len(stake) = 1 => stake = <<stake[1]>>)
             /\ DOMAIN (stake \o vtx) = 1 .. Len(stake) + Len(vtx)
             /\ \A i \in DOMAIN (stake \o vtx) :
                   IF i <= Len(stake) THEN i = 1 /\ (stake \o vtx)[i] = stake[1]
                   ELSE /\ i - Len(stake) \in 1 .. Len(vtx)
                        /\ (stake \o vtx)[i] = vtx[i - Len(stake)]
  BY <1>2
<1> QED
  BY <1>1, <1>2

LEMMA OutPointTypes == \A o \in OutPoint : o[1] \in Tx
BY DEF OutPoint

LEMMA BestIndex ==
  ASSUME TypeOK, IndexFollowsChain, ~desynced, pc = "idle"
  PROVE  pindexBest \in Block /\ dbTx = IndexOf(pindexBest) /\ SoundChain(pindexBest)
BY DEF IndexFollowsChain, Follows, TypeOK

\* An output of the index that is not immature fits into the next block.
LEMMA MatureNext ==
  ASSUME NEW tip \in Block, SoundChain(tip), NEW t \in Tx, IndexOf(tip).pos[t] # NoBlock,
         ~Immature(tip, IndexOf(tip).pos[t])
  PROVE  Height[tip] + 1 - Height[IndexOf(tip).pos[t]] >= CoinbaseMaturity
<1>1. IndexOf(tip).pos[t] = BlockOf(t, tip)
  BY DEF IndexOf
<1>2. BlockOf(t, tip) \in Chain[tip] /\ BlockOf(t, tip) \in Block
  BY <1>1, IndexOfSoundChain, ChainEnds
<1>3. Height[tip] \in Nat /\ Height[BlockOf(t, tip)] \in Nat /\ CoinbaseMaturity \in Nat
  BY <1>2, BlockAssumption, MaturityAssumption
<1> QED
  BY <1>1, <1>2, <1>3 DEF Immature

(***************************************************************************)
(* What CreateNewBlock collects connects (FetchInputs and ConnectInputs on *)
(* mapTestPool, and a pool that is outside the chain).                     *)
(***************************************************************************)
LEMMA CollectedIsGood ==
  ASSUME TypeOK, IndexFollowsChain, ~desynced, pc = "idle",
         mempool.mapTx \subseteq Tx \ Minted, PoolOutsideChain,
         NEW stake \in {<< >>} \cup {<<s>> : s \in CoinStake},
         NEW t \in NewBlocks(stake)
  PROVE  TemplateIsGood(t)
<1>1. PICK vtx \in Collected : t = [hashPrevBlock |-> pindexBest, vtx |-> stake \o vtx]
  BY DEF NewBlocks
<1>2. PICK n \in Nat : /\ vtx \in [1 .. n -> mempool.mapTx \ Invalid]
                       /\ vtx \in Seq(Tx) /\ Len(vtx) = n
  BY CollectedLists
<1>3. vtx \in Seq(Tx) /\ Len(vtx) = n
  BY <1>2
<1>4. stake \in {<< >>} \cup {<<s>> : s \in Tx}
  BY StakeLists
<1> DEFINE d == Len(stake)
           all == stake \o vtx
<1>5. /\ d \in {0, 1} /\ DOMAIN all = 1 .. d + n
      /\ \A i \in DOMAIN all : IF i <= d THEN i = 1 /\ all[i] = stake[1]
                               ELSE i - d \in 1 .. n /\ all[i] = vtx[i - d]
      /\ d = 1 => stake = <<stake[1]>>
  BY <1>3, <1>4, WithStake
<1>6. d = 1 => stake[1] \in CoinStake
  BY StakeLists
<1>7. \A k \in 1 .. n : vtx[k] \in mempool.mapTx /\ vtx[k] \in Tx /\ vtx[k] \notin Minted
                        /\ vtx[k] \notin Invalid
  BY <1>2
<1>8. \A k \in 1 .. n : \A o \in Vin[vtx[k]] : Takes(vtx, k, o)
  BY <1>1, <1>2 DEF Collected
<1>9. pindexBest \in Block /\ dbTx = IndexOf(pindexBest) /\ SoundChain(pindexBest)
  BY BestIndex
<1>10. ASSUME NEW i \in DOMAIN all, all[i] \in Minted PROVE i = 1 /\ all[i] \in CoinStake
  BY <1>5, <1>6, <1>7, <1>10
<1>11. ASSUME NEW i \in DOMAIN all, all[i] \notin CoinStake, ~StakeTaken(t)
       PROVE  ConnectsAfter(all, i, dbTx, pindexBest)
  <2> DEFINE k == i - d
  <2>1. k \in 1 .. n /\ all[i] = vtx[k]
    BY <1>5, <1>6, <1>11
  <2>2. NoOverwrite(all[i], dbTx)
    BY <2>1, <1>7 DEF PoolOutsideChain, Confirmed, NoOverwrite
  <2>3. ASSUME NEW o \in Vin[all[i]]
        PROVE  /\ o \in OutPoint
               /\ \/ dbTx.pos[o[1]] # NoBlock /\ dbTx.spent[o] = NoBlock
                  \/ o[1] \in {all[j] : j \in 1 .. i - 1}
               /\ \A j \in 1 .. i - 1 : o \notin Vin[all[j]]
               /\ o[1] \in Minted =>
                     /\ dbTx.pos[o[1]] # NoBlock
                     /\ Height[pindexBest] + 1 - Height[dbTx.pos[o[1]]] >= CoinbaseMaturity
    <3>1. Takes(vtx, k, o)
      BY <2>1, <2>3, <1>8
    <3>2. ASSUME NEW j \in 1 .. k - 1 PROVE j + d \in 1 .. i - 1 /\ all[j + d] = vtx[j]
      BY <1>5, <2>1
    <3>3. \/ dbTx.pos[o[1]] # NoBlock /\ dbTx.spent[o] = NoBlock
          \/ o[1] \in {all[j] : j \in 1 .. i - 1}
      <4>1. CASE o[1] \in {vtx[j] : j \in 1 .. k - 1}
        BY <4>1, <3>2
      <4> QED
        BY <4>1, <3>1 DEF Takes, Confirmed
    <3>4. ASSUME NEW j \in 1 .. i - 1 PROVE o \notin Vin[all[j]]
      <4>1. j \in DOMAIN all /\ j # i
        BY <1>5, <2>1
      <4>2. CASE j <= d
        <5>1. all[j] \in CoinStake
          BY <1>5, <1>6, <4>1, <4>2
        <5>2. Vin[all[j]] \cap Vin[all[i]] = {}
          BY <5>1, <4>1, <1>1, <1>11 DEF StakeTaken
        <5> QED
          BY <5>2, <2>3
      <4>3. CASE ~(j <= d)
        <5>1. j - d \in 1 .. k - 1 /\ all[j] = vtx[j - d]
          BY <1>5, <4>1, <4>3, <2>1
        <5> QED
          BY <5>1, <3>1 DEF Takes
      <4> QED
        BY <4>2, <4>3
    <3>5. ASSUME o[1] \in Minted
          PROVE  /\ dbTx.pos[o[1]] # NoBlock
                 /\ Height[pindexBest] + 1 - Height[dbTx.pos[o[1]]] >= CoinbaseMaturity
      <4>1. o[1] \notin {vtx[j] : j \in 1 .. k - 1}
        BY <2>1, <3>5, <1>7
      <4>2. dbTx.pos[o[1]] # NoBlock /\ ~Immature(pindexBest, dbTx.pos[o[1]]) /\ o \in OutPoint
        BY <3>1, <3>5, <4>1 DEF Takes, Confirmed
      <4> QED
        BY <4>2, <1>9, MatureNext, OutPointTypes
    <3> QED
      BY <3>1, <3>3, <3>4, <3>5 DEF Takes
  <2> QED
    BY <2>2, <2>3 DEF ConnectsAfter
<1> QED
  BY <1>1, <1>9, <1>10, <1>11 DEF TemplateIsGood

LEMMA NewBlockHasNoStake ==
  ASSUME TypeOK, mempool.mapTx \subseteq Tx \ Minted, NEW t \in NewBlocks(<< >>)
  PROVE  HasNoStake(t)
<1>1. PICK vtx \in Collected : t = [hashPrevBlock |-> pindexBest, vtx |-> << >> \o vtx]
  BY DEF NewBlocks
<1>2. PICK n \in Nat : /\ vtx \in [1 .. n -> mempool.mapTx \ Invalid]
                       /\ vtx \in Seq(Tx) /\ Len(vtx) = n
  BY CollectedLists
<1>3. vtx \in Seq(Tx) /\ Len(vtx) = n /\ << >> \o vtx = vtx
  BY <1>2
<1> QED
  BY <1>1, <1>2, <1>3 DEF HasNoStake, Minted

LEMMA AtWorkShrinks ==
  ASSUME [MinerNext]_allMinerVars, ~CreateNewBlock, ~GetWork
  PROVE  AtWork' \subseteq AtWork /\ mapNewBlock' \subseteq mapNewBlock
<1>1. CASE MinerStarts \/ ReadBest \/ ReadForTarget \/ NoticesNewBest \/ RunsOut
  BY <1>1 DEF MinerStarts, ReadBest, ReadForTarget, NoticesNewBest, RunsOut, LeavesSearch, AtWork, getwork
<1>2. ASSUME NEW t \in CoinStake, CreateCoinStake(t)
      PROVE  AtWork' \subseteq AtWork /\ mapNewBlock' \subseteq mapNewBlock
  BY <1>2 DEF CreateCoinStake, AtWork, getwork
<1>3. CASE ProcessBlockReturns
  BY <1>3 DEF ProcessBlockReturns, AtWork, getwork
<1>4. ASSUME NEW b \in OwnBlock, Solve(b) \/ SubmitWork(b)
      PROVE  AtWork' \subseteq AtWork /\ mapNewBlock' \subseteq mapNewBlock
  BY <1>4 DEF Solve, SubmitWork, AtWork, getwork, thread
<1>5. CASE NodeStep \/ UNCHANGED allMinerVars
  BY <1>5 DEF NodeStep, allMinerVars, minerVars, getwork, thread, AtWork
<1>6. CASE CrashMiner
  BY <1>6 DEF CrashMiner, AtWork
<1> QED
  BY <1>1, <1>2, <1>3, <1>4, <1>5, <1>6 DEF MinerNext

LEMMA TemplatesAreGoodStep ==
  /\ TypeOK /\ IndexFollowsChain /\ mempool.mapTx \subseteq Tx \ Minted /\ PoolOutsideChain
  /\ MinerShape /\ TemplatesAreGood /\ [MinerNext]_allMinerVars
  => TemplatesAreGood'
<1> SUFFICES ASSUME TypeOK, IndexFollowsChain, mempool.mapTx \subseteq Tx \ Minted, PoolOutsideChain,
                    MinerShape, TemplatesAreGood, [MinerNext]_allMinerVars
             PROVE  TemplatesAreGood'
  OBVIOUS
<1>a. ~desynced' => ~desynced
  BY MinerStepIsPoolStep, TxPoolStepIsChainStep, DesyncedStays
<1>1. CASE CreateNewBlock
  <2>1. template' \in NewBlocks(coinstake) /\ coinstake \in {<< >>} \cup {<<s>> : s \in CoinStake}
        /\ pc = "idle"
    BY <1>1 DEF CreateNewBlock, MinerShape, LockFree, Ready
  <2>2. ~desynced => TemplateIsGood(template')
    BY <2>1, CollectedIsGood
  <2>3. AtWork' \subseteq AtWork \cup {template'} /\ mapNewBlock' = mapNewBlock
    BY <1>1 DEF CreateNewBlock, AtWork, getwork
  <2> QED
    BY <1>a, <2>2, <2>3 DEF TemplatesAreGood
<1>2. CASE GetWork
  <2>1. PICK t \in NewBlocks(<< >>) : mapNewBlock' = Kept \cup {t}
    BY <1>2 DEF GetWork
  <2>2. pc = "idle" /\ UNCHANGED thread
    BY <1>2 DEF GetWork, LockFree, Ready
  <2>3. (~desynced => TemplateIsGood(t)) /\ HasNoStake(t)
    BY <2>1, <2>2, CollectedIsGood, NewBlockHasNoStake
  <2>4. Kept \subseteq mapNewBlock
    BY DEF Kept
  <2>5. AtWork' \subseteq AtWork \cup {t}
    BY <2>1, <2>2, <2>4 DEF AtWork, thread
  <2> QED
    BY <1>a, <2>1, <2>3, <2>4, <2>5 DEF TemplatesAreGood
<1> QED
  BY <1>1, <1>2, <1>a, AtWorkShrinks DEF TemplatesAreGood
(***************************************************************************)
(* The coinstake is made before the lock is taken.  If the best block read *)
(* for the target still is the best one, or is the one the template is     *)
(* built on, it was made on that block: the best chain does not come back. *)
(***************************************************************************)
StakeFits ==
    ~desynced /\ OnlyBlocksMove =>
        /\ miner = "collect" /\ pc # "writesync" /\ bitsPrev = pindexBest /\ coinstake # << >>
              => ConnectsAfter(coinstake, 1, IndexOf(bitsPrev), bitsPrev)
        /\ miner = "search" /\ template.hashPrevBlock = bitsPrev =>
              \A i \in DOMAIN template.vtx :
                 template.vtx[i] \in CoinStake
                 => ConnectsAfter(template.vtx, i, IndexOf(bitsPrev), bitsPrev)

LEMMA NewStakeConnects ==
  ASSUME TypeOK, IndexFollowsChain, ~desynced, NEW t \in CoinStake, CreateCoinStake(t)
  PROVE  ConnectsAfter(<<t>>, 1, IndexOf(pindexBest), pindexBest)
<1>1. pc = "idle"
  BY DEF CreateCoinStake, LockFree, Ready
<1>2. pindexBest \in Block /\ dbTx = IndexOf(pindexBest) /\ SoundChain(pindexBest)
  BY <1>1, BestIndex
<1>3. t \in Tx /\ Vin[t] # {}
  BY TxAssumption
<1>4. \A o \in Vin[t] : /\ o \in OutPoint /\ dbTx.pos[o[1]] # NoBlock /\ dbTx.spent[o] = NoBlock
                        /\ o[1] \in Minted => ~Immature(pindexBest, dbTx.pos[o[1]])
  BY DEF CreateCoinStake, Confirmed
<1>5. dbTx.pos[t] = NoBlock
  <2> SUFFICES ASSUME dbTx.pos[t] # NoBlock PROVE FALSE
    OBVIOUS
  <2>1. PICK b \in Chain[pindexBest] : t \in Txs(b)
    BY <1>2, <1>3, ConfirmedOnChain
  <2>2. PICK o \in Vin[t] : TRUE
    BY <1>3
  <2>3. IndexOf(pindexBest).spent[o] # NoBlock
    BY <1>2, <2>1, SpentOnChain
  <2> QED
    BY <1>2, <1>4, <2>3
<1>6. NoOverwrite(t, dbTx)
  BY <1>5 DEF NoOverwrite
<1>7. \A o \in Vin[t] : o[1] \in Minted =>
          Height[pindexBest] + 1 - Height[dbTx.pos[o[1]]] >= CoinbaseMaturity
  BY <1>2, <1>4, MatureNext, OutPointTypes
<1>8. <<t>>[1] = t /\ 1 .. 1 - 1 = {}
  OBVIOUS
<1> QED
  BY <1>2, <1>4, <1>6, <1>7, <1>8 DEF ConnectsAfter

LEMMA StakeComesFirst ==
  ASSUME TypeOK, mempool.mapTx \subseteq Tx \ Minted,
         NEW stake \in {<< >>} \cup {<<s>> : s \in CoinStake}, NEW t \in NewBlocks(stake),
         NEW i \in DOMAIN t.vtx, t.vtx[i] \in CoinStake
  PROVE  i = 1 /\ stake # << >> /\ t.vtx[1] = stake[1]
<1>1. PICK vtx \in Collected : t = [hashPrevBlock |-> pindexBest, vtx |-> stake \o vtx]
  BY DEF NewBlocks
<1>2. PICK n \in Nat : /\ vtx \in [1 .. n -> mempool.mapTx \ Invalid]
                       /\ vtx \in Seq(Tx) /\ Len(vtx) = n
  BY CollectedLists
<1>3. vtx \in Seq(Tx) /\ Len(vtx) = n /\ stake \in {<< >>} \cup {<<s>> : s \in Tx}
  BY <1>2, StakeLists
<1>4. IF i <= Len(stake) THEN i = 1 /\ t.vtx[i] = stake[1]
      ELSE i - Len(stake) \in 1 .. n /\ t.vtx[i] = vtx[i - Len(stake)]
  BY <1>1, <1>3, WithStake
<1>5. i <= Len(stake)
  BY <1>2, <1>4 DEF Minted
<1>6. i \in Nat \ {0}
  BY <1>1, <1>3, WithStake
<1> QED
  BY <1>4, <1>5, <1>6

LEMMA StakeFitsStep ==
  /\ TypeOK /\ IndexFollowsChain /\ mempool.mapTx \subseteq Tx \ Minted
  /\ MinerShape /\ MinerRuns /\ ReadsAreOld /\ StakeFits /\ [MinerNext]_allMinerVars
  => StakeFits'
<1> SUFFICES ASSUME TypeOK, IndexFollowsChain, mempool.mapTx \subseteq Tx \ Minted,
                    MinerShape, MinerRuns, ReadsAreOld, StakeFits, [MinerNext]_allMinerVars,
                    ~desynced', OnlyBlocksMove'
             PROVE  StakeFits'
  BY DEF StakeFits
<1>a. ~desynced
  BY MinerStepIsPoolStep, TxPoolStepIsChainStep, DesyncedStays
<1>b. ASSUME UNCHANGED thread, [Next]_vars, ~Crash PROVE StakeFits'
  <2>1. CASE miner \notin {"collect", "search"}
    BY <1>b, <2>1 DEF StakeFits, thread
  <2>2. CASE miner \in {"collect", "search"}
    <3>1. NodeRuns /\ bitsPrev \in Block
      BY <2>2 DEF MinerRuns, MinerShape, TypeOK
    <3>2. OnlyBlocksMove /\ (pc' # "writesync" => pc # "writesync")
      BY <1>b, <3>1, OnlyBlocksMovedBefore
    <3>3. ASSUME pc' # "writesync", bitsPrev = pindexBest' PROVE bitsPrev = pindexBest
      <4>1. NotAhead(bitsPrev, pindexBest)
        BY <2>2, <3>2, <3>3 DEF ReadsAreOld
      <4> QED
        BY <1>b, <3>1, <3>3, <4>1, StaysBehind
    <3> QED
      BY <1>a, <1>b, <3>2, <3>3 DEF StakeFits, thread
  <2> QED
    BY <2>1, <2>2
<1>c. UNCHANGED vars => OnlyBlocksMove
  BY DEF vars, index, bounds, OnlyBlocksMove
<1>1. CASE NodeStep
  <2>1. [Next]_vars /\ ~Crash
    BY <1>1, TxPoolStepIsChainStep, CheckpointAssumption DEF NodeStep, Crash, TypeOK
  <2> QED
    BY <1>1, <1>b, <2>1 DEF NodeStep, minerVars
<1>2. ASSUME NEW b \in OwnBlock, Solve(b) PROVE StakeFits'
  BY <1>2 DEF Solve, StakeFits
<1>3. ASSUME NEW b \in OwnBlock, SubmitWork(b) PROVE StakeFits'
  <2>1. UNCHANGED thread /\ b \in Block /\ LockFree /\ CheckWork(b, NextTarget[workPrev])
    BY <1>3, MinerAssumption DEF SubmitWork
  <2>2. AcceptBlock(b) => [Next]_vars /\ ~Crash
    BY <2>1, CheckpointAssumption DEF Next, AcceptBlock, Crash, bounds, TypeOK
  <2>3. UNCHANGED vars => [Next]_vars /\ ~Crash
    BY CheckpointAssumption DEF Crash, vars, bounds, TypeOK
  <2> QED
    BY <1>b, <2>1, <2>2, <2>3, CheckWorkIsPoolStep DEF allTxVars
<1>4. CASE MinerStarts \/ ReadBest \/ NoticesNewBest \/ RunsOut \/ CrashMiner
  BY <1>4 DEF MinerStarts, ReadBest, NoticesNewBest, RunsOut, LeavesSearch, CrashMiner, StakeFits
<1>5. CASE ReadForTarget
  <2>1. coinstake' = << >> /\ miner' = "collect"
    BY <1>5 DEF ReadForTarget, MinerShape
  <2> QED
    BY <2>1 DEF StakeFits
<1>6. ASSUME NEW t \in CoinStake, CreateCoinStake(t) PROVE StakeFits'
  <2>1. ConnectsAfter(<<t>>, 1, IndexOf(pindexBest), pindexBest)
    BY <1>a, <1>6, NewStakeConnects
  <2>2. miner' = "collect" /\ coinstake' = <<t>> /\ bitsPrev' = bitsPrev /\ pindexBest' = pindexBest
    BY <1>6 DEF CreateCoinStake, allTxVars, vars, best
  <2> QED
    BY <2>1, <2>2 DEF StakeFits
<1>7. CASE CreateNewBlock
  <2>1. /\ template' \in NewBlocks(coinstake) /\ pc = "idle" /\ miner = "collect" /\ miner' = "search"
        /\ bitsPrev' = bitsPrev /\ UNCHANGED vars
        /\ coinstake \in {<< >>} \cup {<<s>> : s \in CoinStake}
    BY <1>7 DEF CreateNewBlock, LockFree, Ready, MinerShape, allTxVars
  <2>2. template'.hashPrevBlock = pindexBest
    BY <2>1 DEF NewBlocks
  <2>3. ASSUME bitsPrev = pindexBest, NEW i \in DOMAIN template'.vtx, template'.vtx[i] \in CoinStake
        PROVE  ConnectsAfter(template'.vtx, i, IndexOf(bitsPrev), bitsPrev)
    <3>1. i = 1 /\ coinstake # << >> /\ template'.vtx[1] = coinstake[1]
      BY <2>1, <2>3, StakeComesFirst
    <3>2. ConnectsAfter(coinstake, 1, IndexOf(bitsPrev), bitsPrev)
      BY <1>a, <1>c, <2>1, <2>3, <3>1 DEF StakeFits
    <3>3. 1 .. 1 - 1 = {}
      OBVIOUS
    <3> QED
      BY <3>1, <3>2, <3>3 DEF ConnectsAfter
  <2> QED
    BY <2>1, <2>2, <2>3 DEF StakeFits
<1>8. CASE GetWork \/ UNCHANGED allMinerVars
  <2>1. UNCHANGED thread /\ UNCHANGED vars
    BY <1>8 DEF GetWork, allMinerVars, minerVars, allTxVars
  <2>2. ~Crash
    BY <2>1, CheckpointAssumption DEF Crash, vars, bounds, TypeOK
  <2> QED
    BY <1>b, <2>1, <2>2
<1>9. CASE ProcessBlockReturns
  <2>1. UNCHANGED vars /\ UNCHANGED <<pindexPrev, bitsPrev, coinstake, template>>
        /\ (miner' = miner \/ miner' = "read")
    BY <1>9 DEF ProcessBlockReturns, allTxVars
  <2>2. pc' = pc /\ pindexBest' = pindexBest
    BY <2>1 DEF vars, control, best
  <2> QED
    BY <1>a, <1>c, <2>1, <2>2 DEF StakeFits
<1> QED
  BY <1>1, <1>2, <1>3, <1>4, <1>5, <1>6, <1>7, <1>8, <1>9 DEF MinerNext

LEMMA TemplatesAlways ==
  MinerSpec => [](TypeOK /\ IndexFollowsChain /\ PointersFollow /\ MinerShape /\ MinerRuns
                  /\ TemplatesAreGood /\ StakeFits)
<1>1. MinerInit => TemplatesAreGood /\ StakeFits
  BY DEF MinerInit, TemplatesAreGood, AtWork, StakeFits
<1> QED
  BY <1>1, MinerAlways, TemplatesAreGoodStep, StakeFitsStep, PTL DEF MinerSpec

(***************************************************************************)
(* No work is lost on transactions: what CreateNewBlock has put together   *)
(* passes ConnectBlock as long as its parent is the best block, whatever   *)
(* the pool held and whoever was at work meanwhile.                        *)
(***************************************************************************)
THEOREM TemplatesAlwaysConnect == MinerSpec => []TemplateConnects
<1>1. TypeOK /\ IndexFollowsChain /\ TemplatesAreGood /\ StakeFits => TemplateConnects
  <2> SUFFICES ASSUME TypeOK, IndexFollowsChain, TemplatesAreGood, StakeFits, pc = "idle", ~desynced,
                      NEW t \in AtWork, t.hashPrevBlock = pindexBest, ~StakeTaken(t),
                      NEW i \in DOMAIN t.vtx,
                      t.vtx[i] \in CoinStake => bitsPrev = pindexBest /\ OnlyBlocksMove
               PROVE  ConnectsAfter(t.vtx, i, dbTx, pindexBest)
    BY DEF TemplateConnects
  <2>1. dbTx = IndexOf(pindexBest)
    BY BestIndex
  <2>2. CASE t.vtx[i] \notin CoinStake
    BY <2>1, <2>2 DEF TemplatesAreGood, TemplateIsGood
  <2>3. CASE t.vtx[i] \in CoinStake
    <3>1. t \notin mapNewBlock
      BY <2>3 DEF TemplatesAreGood, HasNoStake
    <3>2. miner = "search" /\ t = template
      BY <3>1 DEF AtWork
    <3> QED
      BY <2>1, <2>3, <3>2 DEF StakeFits
  <2> QED
    BY <2>2, <2>3
<1> QED
  BY <1>1, TemplatesAlways, PTL
-----------------------------------------------------------------------------
(***************************************************************************)
(* What the last theorem supposes: the checks of ConnectBlock that look at *)
(* no index (sigops, scripts, fees, the reward) let the node's own blocks  *)
(* through after their parent.  CreateNewBlock makes the same checks and   *)
(* computes the same reward, for the best block, and CheckWork refuses a   *)
(* block with another parent.                                              *)
(***************************************************************************)
OwnBlocksAreValid == \A b \in OwnBlock : <<b, Prev[b]>> \notin Rejects

\* The coinbase of a new block is not on the chain: another height is in it.
LEMMA CoinbaseIsNew ==
  ASSUME TypeOK, HeightsAreInCoinbases, NEW b \in Block \ {Genesis}, Prev[b] \in mapBlockIndex,
         SoundChain(Prev[b]), CoinbaseHeight[Vtx[b][1]] = Height[b]
  PROVE  /\ 1 \in DOMAIN Vtx[b] /\ Vtx[b][1] \in Coinbase /\ Vtx[b][1] \in Tx
         /\ IndexOf(Prev[b]).pos[Vtx[b][1]] = NoBlock
<1> DEFINE p == Prev[b]
<1>1. p \in Block /\ Height[b] = Height[p] + 1 /\ Height[p] \in Nat
  BY BlockAssumption
<1>2. Vtx[b] \in Seq(Tx) /\ Vtx[b] # << >>
  BY TxAssumption
<1>3. 1 \in DOMAIN Vtx[b] /\ Vtx[b][1] \in Tx
  BY <1>2
<1>4. Vtx[b][1] \in Coinbase
  BY <1>3, TxAssumption
<1>5. ASSUME NEW a \in Chain[p], Vtx[b][1] \in Txs(a) PROVE FALSE
  <2>1. a \in Block /\ Height[a] \in Nat
    BY <1>1, ChainEnds, BlockAssumption
  <2>2. PICK k \in DOMAIN Vtx[a] : Vtx[a][k] = Vtx[b][1]
    BY <1>5 DEF Txs
  <2>3. k = 1
    BY <1>4, <2>1, <2>2, TxAssumption
  <2>4. HeightInCoinbases(p)
    BY IndexedHeights
  <2>5. Height[a] = Height[b]
    BY <2>2, <2>3, <2>4 DEF HeightInCoinbases
  <2>6. Height[a] <= Height[p]
    <3>1. a # p => Height[a] < Height[p]
      BY <1>1, Ancestors
    <3> QED
      BY <1>1, <2>1, <3>1
  <2> QED
    BY <1>1, <2>1, <2>5, <2>6
<1>6. IndexOf(p).pos[Vtx[b][1]] = NoBlock
  BY <1>1, <1>3, <1>5, ConfirmedOnChain
<1> QED
  BY <1>3, <1>4, <1>6

\* The transactions of a block after its coinbase.
LEMMA AfterCoinbase ==
  ASSUME NEW b \in Block
  PROVE  /\ Vtx[b] \in Seq(Tx) /\ DOMAIN Vtx[b] = 1 .. Len(Vtx[b])
         /\ DOMAIN Tail(Vtx[b]) = 1 .. Len(Vtx[b]) - 1
         /\ \A i \in 1 .. Len(Vtx[b]) - 1 : Tail(Vtx[b])[i] = Vtx[b][i + 1]
         /\ \A k \in 2 .. Len(Vtx[b]) : /\ k - 1 \in DOMAIN Tail(Vtx[b])
                                        /\ Vtx[b][k] = Tail(Vtx[b])[k - 1]
<1>1. Vtx[b] \in Seq(Tx) /\ Vtx[b] # << >>
  BY TxAssumption
<1> QED
  BY <1>1

(***************************************************************************)
(* A block made of a good template connects to the parent of the template, *)
(* unless its coinstake has lost its output.                               *)
(***************************************************************************)
LEMMA OwnBlockConnects ==
  ASSUME TypeOK, HeightsAreInCoinbases, NEW b \in Block \ {Genesis}, NEW t, TemplateIsGood(t),
         Prev[b] = t.hashPrevBlock, Tail(Vtx[b]) = t.vtx, Prev[b] \in mapBlockIndex,
         SoundChain(Prev[b]), CoinbaseHeight[Vtx[b][1]] = Height[b],
         <<b, Prev[b]>> \notin Rejects, ~StakeIsLost(b)
  PROVE  Connects(b, IndexOf(Prev[b]), Prev[b])
<1> DEFINE p == Prev[b]
           ix == IndexOf(p)
           tail == Tail(Vtx[b])
<1>1. p \in Block /\ Height[b] = Height[p] + 1
  BY BlockAssumption
<1>2. Vtx[b][1] \in Coinbase /\ Vtx[b][1] \in Tx /\ ix.pos[Vtx[b][1]] = NoBlock
  BY CoinbaseIsNew
<1>3. Vin[Vtx[b][1]] = {}
  BY <1>2, TxAssumption
<1>4. ASSUME NEW i \in DOMAIN tail PROVE ConnectsAfter(tail, i, ix, p)
  <2>1. ~StakeTaken(t)
    BY DEF StakeTaken, StakeIsLost
  <2> QED
    BY <2>1 DEF TemplateIsGood, StakeIsLost
<1>5. ASSUME NEW k \in DOMAIN Vtx[b], k # 1, NEW o \in Vin[Vtx[b][k]]
      PROVE  InputConnects(b, k, o, ix)
  <2> DEFINE i == k - 1
  <2>1. /\ k \in 2 .. Len(Vtx[b]) /\ i \in DOMAIN tail /\ Vtx[b][k] = tail[i] /\ Vtx[b][k] \in Tx
    BY <1>5, AfterCoinbase
  <2>2. /\ o \in OutPoint
        /\ \/ ix.pos[o[1]] # NoBlock /\ ix.spent[o] = NoBlock
           \/ o[1] \in {tail[j] : j \in 1 .. i - 1}
        /\ \A j \in 1 .. i - 1 : o \notin Vin[tail[j]]
        /\ o[1] \in Minted => /\ ix.pos[o[1]] # NoBlock
                              /\ Height[p] + 1 - Height[ix.pos[o[1]]] >= CoinbaseMaturity
    BY <1>4, <1>5, <2>1 DEF ConnectsAfter
  <2>3. ASSUME NEW j \in 1 .. k - 1, j # 1 PROVE j - 1 \in 1 .. i - 1 /\ Vtx[b][j] = tail[j - 1]
                                                /\ j - 1 \in DOMAIN tail
    <3>1. j - 1 \in 1 .. i - 1 /\ j \in 2 .. Len(Vtx[b])
      BY <2>1, <2>3, AfterCoinbase
    <3> QED
      BY <3>1, AfterCoinbase
  <2>4. ASSUME NEW j \in 1 .. i - 1 PROVE j + 1 \in 1 .. k - 1 /\ Vtx[b][j + 1] = tail[j]
    BY <2>1, <2>4, AfterCoinbase
  <2>5. \/ o[1] \in {Vtx[b][j] : j \in 1 .. k - 1}
        \/ ix.pos[o[1]] # NoBlock /\ ix.spent[o] = NoBlock
    BY <2>2, <2>4
  <2>6. \A j \in 1 .. k - 1 : o \notin Vin[Vtx[b][j]]
    BY <1>3, <2>2, <2>3
  <2>7. ASSUME o[1] \in Minted, NEW j \in 1 .. k - 1, o[1] = Vtx[b][j] PROVE FALSE
    <3>1. ix.pos[o[1]] # NoBlock /\ o[1] \in Tx
      BY <2>2, <2>7, OutPointTypes
    <3>2. j # 1
      BY <1>2, <2>7, <3>1
    <3>3. j - 1 \in DOMAIN tail /\ o[1] = tail[j - 1]
      BY <2>3, <2>7, <3>2
    <3>4. j - 1 = 1 /\ o[1] \in CoinStake
      BY <2>7, <3>3 DEF TemplateIsGood
    <3>5. PICK q \in Vin[o[1]] : TRUE
      BY <3>1, <3>4, TxAssumption
    <3>6. ConnectsAfter(tail, 1, ix, p) /\ tail[1] = o[1]
      BY <1>4, <3>3, <3>4
    <3>7. ix.spent[q] = NoBlock
      <4>1. 1 .. 1 - 1 = {}
        OBVIOUS
      <4> QED
        BY <3>5, <3>6, <4>1 DEF ConnectsAfter
    <3>8. PICK a \in Chain[p] : o[1] \in Txs(a)
      BY <1>1, <3>1, ConfirmedOnChain
    <3>9. ix.spent[q] # NoBlock
      BY <1>1, <3>5, <3>8, SpentOnChain
    <3> QED
      BY <3>7, <3>9
  <2>8. o[1] \in Minted => /\ o[1] \notin {Vtx[b][j] : j \in 1 .. k - 1}
                           /\ ~Immature(b, ix.pos[o[1]])
    <3>1. ASSUME o[1] \in Minted PROVE ~Immature(b, ix.pos[o[1]])
      <4>0. o[1] \in Tx
        BY <2>2, OutPointTypes
      <4>1. ix.pos[o[1]] # NoBlock
        BY <2>2, <3>1
      <4>2. ix.pos[o[1]] = BlockOf(o[1], p)
        BY <4>0 DEF IndexOf
      <4>3. ix.pos[o[1]] \in Block
        BY <1>1, <4>1, <4>2, IndexOfSoundChain, ChainEnds
      <4>4. /\ Height[b] \in Nat /\ Height[p] \in Nat /\ Height[ix.pos[o[1]]] \in Nat
            /\ CoinbaseMaturity \in Nat
        BY <1>1, <4>3, BlockAssumption, MaturityAssumption
      <4>5. Height[p] + 1 - Height[ix.pos[o[1]]] >= CoinbaseMaturity
        BY <2>2, <3>1
      <4> HIDE DEF ix
      <4> QED
        BY <1>1, <4>4, <4>5 DEF Immature
    <3> QED
      BY <2>7, <3>1
  <2> HIDE DEF ix
  <2> QED
    BY <2>2, <2>5, <2>6, <2>8 DEF InputConnects
<1>6. ASSUME NEW k \in DOMAIN Vtx[b] PROVE NoOverwrite(Vtx[b][k], ix)
  <2>1. CASE k = 1
    BY <1>2, <2>1 DEF NoOverwrite
  <2>2. CASE k # 1
    <3>1. k - 1 \in DOMAIN tail /\ Vtx[b][k] = tail[k - 1]
      BY <2>2, AfterCoinbase
    <3> QED
      BY <1>4, <3>1 DEF ConnectsAfter
  <2> QED
    BY <2>1, <2>2
<1> QED
  BY <1>3, <1>5, <1>6 DEF Connects
(***************************************************************************)
(* Where ProcessBlock can be while it works on a block of the node's own:  *)
(* it sets the best chain to a block that connects, a pending checkpoint   *)
(* leads elsewhere, or the block is the best one.                          *)
(***************************************************************************)
SolvedWorks ==
    solved # NoBlock /\ ~desynced /\ faults = 0 /\ ~StakeIsLost(solved) =>
        \/ /\ pc = "setbest" /\ caller = "block" /\ goal = solved
           /\ Prev[solved] = pindexBest
           /\ Connects(solved, IndexOf(pindexBest), pindexBest)
        \/ pc \in {"pending", "idle"} /\ pindexBest = solved
        \/ pc \in SettingBest /\ caller = "pending" /\ pindexBest = solved /\ goal \notin Chain[solved]
        \/ pc = "writesync" /\ caller = "pending" /\ (pindexBest = solved \/ goal \notin Chain[solved])
        \/ pc = "idle" /\ hashSyncCheckpoint \notin Chain[solved]

LEMMA OffMainChain ==
  ASSUME TypeOK, IndexFollowsChain, PointersFollow, ~desynced, pc = "pending",
         NEW c \in Block, ~IsInMainChain(c)
  PROVE  c \notin Chain[pindexBest]
<1>1. pnext = NextOf(pindexBest) /\ pindexBest \in Block
  BY DEF IndexFollowsChain, PointersFollow, TypeOK
<1>2. pnext[c] = NoBlock /\ c # pindexBest
  BY DEF IsInMainChain
<1>3. ASSUME c \in Chain[pindexBest] PROVE FALSE
  <2>1. PICK d \in Chain[pindexBest] : Prev[d] = c /\ d # Genesis
    BY <1>1, <1>2, <1>3, ChildOnChain
  <2>2. Toward(c, pindexBest) = d
    BY <1>1, <2>1, TowardIsTheChild
  <2>3. d \in Block
    BY <1>1, <2>1, ChainEnds
  <2> QED
    BY <1>1, <1>2, <1>3, <2>2, <2>3, BlockAssumption DEF NextOf
<1> QED
  BY <1>3

\* What becomes of the block when the chain moves: the steps of SetBestChain and of the checkpoint.
LEMMA SolvedWorksChain ==
  ASSUME TypeOK, IndexFollowsChain, PointersFollow, SolvedWorks, [Next]_vars, ~Crash,
         solved # NoBlock, solved' = solved, UNCHANGED vars \/ pc # "idle"
  PROVE  SolvedWorks'
<1> SUFFICES ASSUME ~desynced', faults' = 0, ~StakeIsLost(solved)
             PROVE  SolvedWorks'
  BY DEF SolvedWorks
<1>a. faults = 0 /\ ~Fault /\ ~desynced
  BY FaultsStay, DesyncedStays
<1>b. pindexBest \in Block
  BY DEF TypeOK
<1>1. CASE UNCHANGED vars
  BY <1>1, <1>a DEF SolvedWorks, vars, control, best, index
<1> SUFFICES ASSUME ~UNCHANGED vars, pc # "idle"
             PROVE  SolvedWorks'
  BY <1>1
<1>2. CASE pc = "pending"
  <2>1. pindexBest = solved
    BY <1>2, <1>a DEF SolvedWorks, SettingBest
  <2>2. AcceptPendingSyncCheckpoint
    BY <1>2 DEF Next, Step, AcceptBlock, ProcessSyncCheckpoint, ExtendBestChain, SetBestChainFails,
       StartReorganize, DisconnectStep, ConnectStep, ReorganizeFails, CommitReorganize, ConnectSecondary,
       SecondaryFails, FinishSetBestChain, WriteSyncCheckpoint, WriteSyncCheckpointFails,
       ResetSyncCheckpoint, LoadBlockIndex, CheckMasterKey
  <2>3. pindexBest' = solved
    BY <2>1, <2>2 DEF AcceptPendingSyncCheckpoint, best
  <2>4. CASE pc' = "idle"
    BY <2>3, <2>4 DEF SolvedWorks
  <2>5. CASE Enforce("pending", hashPendingCheckpoint) /\ Known(hashPendingCheckpoint)
    <3>1. CASE Write("pending", hashPendingCheckpoint)
      BY <2>3, <3>1 DEF Write, SolvedWorks
    <3>2. CASE Call("pending", hashPendingCheckpoint) /\ ~IsInMainChain(hashPendingCheckpoint)
      <4>1. hashPendingCheckpoint \notin Chain[solved]
        BY <1>2, <1>a, <2>1, <2>5, <3>2, OffMainChain DEF Known, TypeOK
      <4> QED
        BY <2>3, <3>2, <4>1 DEF Call, SolvedWorks, SettingBest
    <3> QED
      BY <2>5, <3>1, <3>2 DEF Enforce
  <2> QED
    BY <1>a, <2>2, <2>4, <2>5 DEF AcceptPendingSyncCheckpoint, Goto
<1>3. CASE pc = "writesync"
  <2>1. caller = "pending" /\ (pindexBest = solved \/ goal \notin Chain[solved])
    BY <1>3, <1>a DEF SolvedWorks, SettingBest
  <2>2. WriteSyncCheckpoint
    BY <1>a, <1>3 DEF Next, Step, AcceptBlock, ProcessSyncCheckpoint, ExtendBestChain, SetBestChainFails,
       StartReorganize, DisconnectStep, ConnectStep, ReorganizeFails, CommitReorganize, ConnectSecondary,
       SecondaryFails, FinishSetBestChain, AcceptPendingSyncCheckpoint, WriteSyncCheckpointFails,
       ResetSyncCheckpoint, LoadBlockIndex, CheckMasterKey
  <2>3. hashSyncCheckpoint' = goal /\ pc' = "idle" /\ pindexBest' = pindexBest
    BY <2>1, <2>2 DEF WriteSyncCheckpoint, Goto, best
  <2> QED
    BY <2>1, <2>3 DEF SolvedWorks
<1>4. CASE pc = "setbest" /\ caller = "block"
  <2>1. goal = solved /\ Prev[solved] = pindexBest /\ Connects(solved, IndexOf(pindexBest), pindexBest)
    BY <1>4, <1>a DEF SolvedWorks, SettingBest
  <2>2. dbTx = IndexOf(pindexBest)
    BY <1>a, <1>4 DEF IndexFollowsChain, Follows
  <2>3. ExtendBestChain
    BY <1>a, <1>4, <2>1, <2>2 DEF Next, Step, AcceptBlock, ProcessSyncCheckpoint, SetBestChainFails,
       StartReorganize, DisconnectStep, ConnectStep, ReorganizeFails, CommitReorganize, ConnectSecondary,
       SecondaryFails, FinishSetBestChain, AcceptPendingSyncCheckpoint, WriteSyncCheckpoint,
       WriteSyncCheckpointFails, ResetSyncCheckpoint, LoadBlockIndex, CheckMasterKey
  <2>4. pindexBest' = goal /\ pc' = "pending"
    BY <1>4, <2>3 DEF ExtendBestChain, Succeed, Goto
  <2> QED
    BY <2>1, <2>4 DEF SolvedWorks
<1>5. CASE pc \in SettingBest /\ caller # "block"
  <2>1. caller = "pending" /\ pindexBest = solved /\ goal \notin Chain[solved]
    BY <1>5, <1>a DEF SolvedWorks, SettingBest
  <2>2. \/ ExtendBestChain \/ SetBestChainFails \/ StartReorganize \/ DisconnectStep \/ ConnectStep
        \/ ReorganizeFails \/ CommitReorganize \/ ConnectSecondary \/ FinishSetBestChain
    BY <1>a, <1>5 DEF Next, Step, AcceptBlock, ProcessSyncCheckpoint, SecondaryFails,
       AcceptPendingSyncCheckpoint, WriteSyncCheckpoint, WriteSyncCheckpointFails,
       ResetSyncCheckpoint, LoadBlockIndex, CheckMasterKey, SettingBest
  <2>3. CASE ExtendBestChain \/ FinishSetBestChain
    <3>1. pc' = "writesync" /\ caller' = caller /\ goal' = goal
      BY <2>1, <2>3 DEF ExtendBestChain, FinishSetBestChain, Succeed, Goto
    <3> QED
      BY <2>1, <3>1 DEF SolvedWorks
  <2>4. CASE SetBestChainFails \/ ReorganizeFails
    <3>1. pc' = "idle" /\ pindexBest' = pindexBest
      BY <2>1, <2>4 DEF SetBestChainFails, ReorganizeFails, Fail, AfterFailure, Goto, best
    <3> QED
      BY <2>1, <3>1 DEF SolvedWorks
  <2>5. CASE StartReorganize \/ DisconnectStep \/ ConnectStep \/ CommitReorganize \/ ConnectSecondary
    <3>1. pc' \in SettingBest /\ caller' = caller /\ goal' = goal /\ pindexBest' = pindexBest
      BY <2>5 DEF StartReorganize, DisconnectStep, ConnectStep, CommitReorganize, ConnectSecondary,
         Goto, best, SettingBest
    <3> QED
      BY <2>1, <3>1 DEF SolvedWorks
  <2> QED
    BY <2>2, <2>3, <2>4, <2>5
<1> QED
  BY <1>a, <1>2, <1>3, <1>4, <1>5 DEF SolvedWorks, SettingBest

LEMMA SolvedWorksStep ==
  ASSUME OwnBlocksAreValid
  PROVE  /\ TypeOK /\ IndexFollowsChain /\ PointersFollow /\ MinerShape /\ TemplatesAreGood
         /\ SolvedWorks /\ [MinerNext]_allMinerVars
         => SolvedWorks'
<1> SUFFICES ASSUME TypeOK, IndexFollowsChain, PointersFollow, MinerShape, TemplatesAreGood,
                    SolvedWorks, [MinerNext]_allMinerVars
             PROVE  SolvedWorks'
  OBVIOUS
<1>1. CASE NodeStep /\ [Next]_vars /\ ~Crash
  <2>1. solved' = solved /\ (solved = NoBlock \/ pc # "idle")
    BY <1>1 DEF NodeStep, minerVars
  <2>2. CASE solved = NoBlock
    BY <2>1, <2>2 DEF SolvedWorks
  <2> QED
    BY <1>1, <2>1, <2>2, SolvedWorksChain
<1>2. CASE UNCHANGED vars
  <2>1. solved' = solved \/ solved' = NoBlock \/ \E b \in OwnBlock : AcceptBlock(b)
    <3>1. ASSUME NEW b \in OwnBlock, Solve(b) \/ SubmitWork(b)
          PROVE  solved' = solved \/ AcceptBlock(b)
      BY <3>1 DEF Solve, SubmitWork, CheckWork
    <3>2. CASE MinerStarts \/ ReadBest \/ ReadForTarget \/ CreateNewBlock \/ NoticesNewBest \/ RunsOut
               \/ \E t \in CoinStake : CreateCoinStake(t)
      BY <3>2 DEF MinerStarts, ReadBest, ReadForTarget, CreateNewBlock, NoticesNewBest, RunsOut,
         LeavesSearch, CreateCoinStake
    <3>3. CASE GetWork \/ ProcessBlockReturns \/ NodeStep \/ CrashMiner \/ UNCHANGED allMinerVars
      BY <3>3 DEF GetWork, ProcessBlockReturns, NodeStep, CrashMiner, allMinerVars, minerVars
    <3> QED
      BY <3>1, <3>2, <3>3 DEF MinerNext
  <2>2. ~ \E b \in OwnBlock : AcceptBlock(b)
    BY <1>2 DEF AcceptBlock, Accepts, Known, vars, index
  <2>3. CASE solved' = NoBlock
    BY <2>3 DEF SolvedWorks
  <2>4. CASE solved' = solved /\ solved # NoBlock
    <3>1. ~Crash
      BY <1>2, CheckpointAssumption DEF Crash, vars, bounds, TypeOK
    <3> QED
      BY <1>2, <2>4, <3>1, SolvedWorksChain
  <2> QED
    BY <2>1, <2>2, <2>3, <2>4
<1>3. ASSUME NEW b \in OwnBlock, Solve(b) \/ SubmitWork(b), NEW bits, CheckWork(b, bits), AcceptBlock(b),
             ~desynced', ~StakeIsLost(b)
      PROVE  /\ solved' = b /\ pc' = "setbest" /\ caller' = "block" /\ goal' = b
             /\ Prev[b] = pindexBest' /\ Connects(b, IndexOf(pindexBest'), pindexBest')
  <2>1. b \in Block /\ LockFree
    BY <1>3, MinerAssumption DEF Solve, SubmitWork
  <2>2. b \notin mapBlockIndex /\ CoinbaseHeight[Vtx[b][1]] = Height[b]
    BY <1>3 DEF AcceptBlock, Accepts, Known
  <2>3. b \in Block \ {Genesis}
    BY <2>1, <2>2 DEF TypeOK
  <2>4. solved' = b /\ CheckWorkAccepts(b, bits)
    BY <1>3, <2>2 DEF CheckWork, AcceptBlock, allTxVars, vars, index
  <2>5. Prev[b] = pindexBest /\ pindexBest' = pindexBest
    BY <1>3, <2>4 DEF CheckWorkAccepts, IsStale, AcceptBlock, best
  <2>6. MoreTrust(b)
    BY <2>3, <2>5, BlockAssumption DEF MoreTrust
  <2>7. pc' = "setbest" /\ caller' = "block" /\ goal' = b
    BY <1>3, <2>6 DEF AcceptBlock, Call
  <2>8. ~desynced /\ pc = "idle"
    BY <1>3, <2>1 DEF AcceptBlock, history, LockFree, Ready
  <2>9. PICK t \in AtWork : Prev[b] = t.hashPrevBlock /\ Tail(Vtx[b]) = t.vtx
    BY <1>3 DEF Solve, SubmitWork, Solves, AtWork
  <2>10. TemplateIsGood(t)
    BY <2>8 DEF TemplatesAreGood
  <2>11. SoundChain(Prev[b]) /\ Prev[b] \in mapBlockIndex /\ HeightsAreInCoinbases
    BY <2>5, <2>8, BestIndex DEF IndexFollowsChain, TypeOK
  <2>12. <<b, Prev[b]>> \notin Rejects
    BY DEF OwnBlocksAreValid
  <2>13. Connects(b, IndexOf(Prev[b]), Prev[b])
    BY <1>3, <2>2, <2>3, <2>9, <2>10, <2>11, <2>12, OwnBlockConnects
  <2> QED
    BY <2>4, <2>5, <2>7, <2>13
<1>4. ASSUME NEW b \in OwnBlock, Solve(b) \/ SubmitWork(b), NEW bits, CheckWork(b, bits), AcceptBlock(b)
      PROVE  SolvedWorks'
  <2>1. solved' = b
    BY <1>4 DEF CheckWork, AcceptBlock, Accepts, Known, allTxVars, vars, index
  <2> QED
    BY <1>3, <1>4, <2>1 DEF SolvedWorks
<1>5. CASE CrashMiner
  BY <1>5 DEF CrashMiner, SolvedWorks
<1> QED
  BY <1>1, <1>2, <1>4, <1>5, MinerSteps

(***************************************************************************)
(* No work is lost: a block of its own that the node accepts is on its     *)
(* best chain when CheckWork returns (BitcoinMiner, getwork, CheckWork,    *)
(* ProcessBlock), but for a coinstake that lost its output, a pending      *)
(* checkpoint that leads elsewhere and storage operations that fail.       *)
(***************************************************************************)
THEOREM SolvedBlockGetsBest ==
  ASSUME OwnBlocksAreValid
  PROVE  MinerSpec => []SolvedBlockIsBest
<1>1. MinerInit => SolvedWorks
  BY DEF MinerInit, SolvedWorks
<1>2. TypeOK /\ SolvedWorks => SolvedBlockIsBest
  <2> SUFFICES ASSUME TypeOK, SolvedWorks, solved # NoBlock, pc = "idle", ~desynced, faults = 0,
                      ~StakeIsLost(solved)
               PROVE  solved \in Chain[pindexBest] \/ hashSyncCheckpoint \notin Chain[solved]
    BY DEF SolvedBlockIsBest
  <2>1. pindexBest \in Chain[pindexBest]
    BY ChainEnds DEF TypeOK
  <2> QED
    BY <2>1 DEF SolvedWorks, SettingBest
<1>3. /\ TypeOK /\ IndexFollowsChain /\ PointersFollow /\ MinerShape /\ TemplatesAreGood
      /\ SolvedWorks /\ [MinerNext]_allMinerVars
      => SolvedWorks'
  BY SolvedWorksStep
<1> QED
  BY <1>1, <1>2, <1>3, TemplatesAlways, PTL DEF MinerSpec

=============================================================================
