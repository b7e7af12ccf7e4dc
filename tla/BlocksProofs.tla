---------------------------- MODULE BlocksProofs -----------------------------
(***************************************************************************)
(* What surrounds the best chain. First what the rest of the node may rely *)
(* on: ChainState implements Ledger, and getblockhash answers from the     *)
(* best chain. Then how blocks arrive: ProcessBlock does nothing to the    *)
(* best chain that module ChainState does not allow, so what is proved     *)
(* there holds whatever order they arrive in; and the orphan maps and the  *)
(* stake-seen sets stay right.                                             *)
(***************************************************************************)
EXTENDS ChainLedger, ChainRpc, OrphanBlocks, ChainStateProofs

\* The outputs a block creates are those of its transactions.
LEMMA CreatedOutputs ==
  ASSUME NEW b \in Block
  PROVE  /\ L!Spends(b) = Spends(b)
         /\ L!Created(b) = {o \in OutPoint : o[1] \in Txs(b)}
<1>1. L!Txs(b) = Txs(b)
  BY DEF L!Txs, Txs
<1>2. L!Spends(b) = Spends(b)
  BY <1>1 DEF L!Spends, Spends
<1>3. Txs(b) \subseteq Tx
  BY TxAssumption DEF Txs
<1>4. ASSUME NEW o \in L!Created(b) PROVE o \in OutPoint /\ o[1] \in Txs(b)
  <2>1. PICK t \in Txs(b) : o \in {t} \X (0 .. VoutSize[t] - 1)
    BY <1>1 DEF L!Created
  <2> QED
    BY <1>3, <2>1 DEF OutPoint
<1>5. ASSUME NEW o \in OutPoint, o[1] \in Txs(b) PROVE o \in L!Created(b)
  <2>1. PICK t \in Tx : o \in {t} \X (0 .. VoutSize[t] - 1)
    BY DEF OutPoint
  <2>2. o[1] = t
    BY <2>1
  <2> QED
    BY <1>1, <1>5, <2>1, <2>2 DEF L!Created
<1> QED
  BY <1>2, <1>4, <1>5

\* What the ledger calls unspent, in the words of TxIndex.
LEMMA UnspentOutputs ==
  ASSUME NEW b \in Block
  PROVE  /\ L!CreatedOn(b) = {o \in OutPoint : \E a \in Chain[b] : o[1] \in Txs(a)}
         /\ L!UnspentOn(b) = {o \in OutPoint : /\ \E a \in Chain[b] : o[1] \in Txs(a)
                                               /\ \A a \in Chain[b] : o \notin Spends(a)}
<1>1. Chain[b] \subseteq Block
  BY ChainEnds
<1>2. \A a \in Chain[b] : /\ L!Spends(a) = Spends(a)
                          /\ L!Created(a) = {o \in OutPoint : o[1] \in Txs(a)}
  BY <1>1, CreatedOutputs
<1>3. L!CreatedOn(b) = {o \in OutPoint : \E a \in Chain[b] : o[1] \in Txs(a)}
  BY <1>2 DEF L!CreatedOn
<1>4. \A o : o \in L!SpentOn(b) <=> \E a \in Chain[b] : o \in Spends(a)
  BY <1>2 DEF L!SpentOn
<1> QED
  BY <1>3, <1>4 DEF L!UnspentOn

SpendableIn(ix) == {o \in OutPoint : ix.pos[o[1]] # NoBlock /\ ix.spent[o] = NoBlock}

\* On the index of a sound chain, what can be spent is what the chain leaves.
LEMMA SpendableIsUnspent ==
  ASSUME NEW b \in Block, NEW ix, Follows(ix, b)
  PROVE  SpendableIn(ix) = L!UnspentOn(b)
<1>1. SoundChain(b) /\ NoBlock \notin Block /\ Chain[b] \subseteq Block
  BY ChainEnds, BlockAssumption DEF Follows
<1>2. ASSUME NEW o \in OutPoint
      PROVE  /\ ix.pos[o[1]] = BlockOf(o[1], b)
             /\ ix.spent[o] = SpenderOf(o, b)
  <2>1. o[1] \in Tx
    BY DEF OutPoint
  <2> QED
    BY <2>1 DEF Follows, IndexOf
<1>3. \A t : BlockOf(t, b) # NoBlock <=> \E a \in Chain[b] : t \in Txs(a)
  BY <1>1, IndexOfSoundChain
<1>4. \A o : SpenderOf(o, b) = NoBlock <=> \A a \in Chain[b] : o \notin Spends(a)
  BY <1>1, IndexOfSoundChain
<1> QED
  BY <1>2, <1>3, <1>4, UnspentOutputs DEF SpendableIn

(***************************************************************************)
(* A sound chain is valid for the ledger: each of its blocks spends what   *)
(* the chain before it leaves unspent.                                     *)
(***************************************************************************)
LEMMA SoundIsValid ==
  ASSUME NEW tip \in Block, SoundChain(tip)
  PROVE  L!Valid(tip)
<1> SUFFICES ASSUME NEW b \in Chain[tip] \ {Genesis} PROVE L!Balanced(b)
  BY DEF L!Valid
<1>1. /\ b \in Block /\ Prev[b] \in Block /\ Chain[b] = Chain[Prev[b]] \cup {b}
      /\ Chain[b] \subseteq Chain[tip]
  BY ChainEnds, Ancestors, BlockAssumption
<1>2. b \notin Chain[Prev[b]]
  <2>1. Height[b] = Height[Prev[b]] + 1 /\ Height[Prev[b]] \in Nat
    BY <1>1, BlockAssumption
  <2> QED
    BY <1>1, <2>1, Ancestors, BlockAssumption
<1>3. ASSUME NEW o \in Spends(b)
      PROVE  o \in L!UnspentOn(Prev[b]) \cup L!Created(b)
  <2>1. o \in OutPoint
    BY SoundBlocks
  <2>2. PICK c \in Chain[b] : o[1] \in Txs(c)
    BY SoundBlocks
  <2>3. \A a \in Chain[Prev[b]] : o \notin Spends(a)
    BY <1>1, <1>2, SoundBlocks
  <2>4. CASE c = b
    BY <1>1, <2>1, <2>2, <2>4, CreatedOutputs
  <2>5. CASE c # b
    BY <1>1, <2>1, <2>2, <2>3, <2>5, UnspentOutputs
  <2> QED
    BY <2>4, <2>5
<1>4. ASSUME NEW o \in L!Created(b) PROVE o \notin L!CreatedOn(Prev[b])
  <2>1. o[1] \in Txs(b)
    BY <1>1, CreatedOutputs
  <2>2. \A a \in Chain[Prev[b]] : o[1] \notin Txs(a)
    BY <1>1, <1>2, <2>1, SoundBlocks
  <2> QED
    BY <1>1, <2>2, UnspentOutputs
<1> QED
  BY <1>1, <1>3, <1>4, CreatedOutputs DEF L!Balanced

-----------------------------------------------------------------------------
(***************************************************************************)
(* What is pending, and what SetBestChain and WriteSyncCheckpoint were     *)
(* called for if not for a received block or at start-up, was ordered.     *)
(***************************************************************************)
MayOrder == SyncCheckpoints[0] \cup {LastHardened}

OrdersAreObeyed ==
    /\ hashPendingCheckpoint \in MayOrder \cup {NoBlock}
    /\ pc \in SettingBest \cup {"writesync"} /\ caller \in {"pending", "message"}
          => goal \in MayOrder
    /\ pc \in SettingBest /\ caller = "load" => rewound

LEMMA OrdersAreObeyedStep ==
  ASSUME MaxRekeys = 0
  PROVE  TypeOK /\ CheckpointFollows /\ OrdersAreObeyed /\ [Next]_vars => OrdersAreObeyed'
<1> SUFFICES ASSUME TypeOK, CheckpointFollows, OrdersAreObeyed, [Next]_vars
             PROVE  OrdersAreObeyed'
  OBVIOUS
<1> USE DEF OrdersAreObeyed, MayOrder, SettingBest, index, best, pending, keys, db, txn,
            control, bounds, history
<1>a. strMasterPubKey = 0 /\ pc # "reset" /\ caller # "reset"
  BY DEF TypeOK, CheckpointFollows
<1>1. ASSUME NEW b \in Block, AcceptBlock(b) PROVE OrdersAreObeyed'
  BY <1>1 DEF AcceptBlock, Call, Goto
<1>2. ASSUME NEW b \in Block, ProcessSyncCheckpoint(b) PROVE OrdersAreObeyed'
  BY <1>2, <1>a DEF ProcessSyncCheckpoint, Enforce, Call, Write
<1>3. CASE ExtendBestChain
  BY <1>3, <1>a DEF ExtendBestChain, Succeed, Goto, TypeOK
<1>4. CASE SetBestChainFails
  BY <1>4 DEF SetBestChainFails, Fail, AfterFailure, Goto
<1>5. CASE StartReorganize
  BY <1>5 DEF StartReorganize
<1>6. CASE DisconnectStep
  BY <1>6 DEF DisconnectStep
<1>7. CASE ConnectStep
  BY <1>7 DEF ConnectStep
<1>8. CASE ReorganizeFails
  BY <1>8 DEF ReorganizeFails, Fail, AfterFailure, Goto
<1>9. CASE CommitReorganize
  BY <1>9 DEF CommitReorganize, Goto
<1>10. CASE ConnectSecondary
  BY <1>10 DEF ConnectSecondary
<1>11. CASE SecondaryFails
  BY <1>11, <1>a DEF SecondaryFails, Succeed, Goto, TypeOK
<1>12. CASE FinishSetBestChain
  BY <1>12, <1>a DEF FinishSetBestChain, Succeed, Goto, TypeOK
<1>13. CASE AcceptPendingSyncCheckpoint
  <2>1. Known(hashPendingCheckpoint) => hashPendingCheckpoint # NoBlock
    BY BlockAssumption DEF Known, TypeOK
  <2> QED
    BY <1>13, <2>1 DEF AcceptPendingSyncCheckpoint, Enforce, Call, Write, Goto
<1>14. CASE WriteSyncCheckpoint
  BY <1>14, <1>a DEF WriteSyncCheckpoint, Goto
<1>15. CASE WriteSyncCheckpointFails
  BY <1>15, <1>a DEF WriteSyncCheckpointFails, Goto
<1>16. CASE ResetSyncCheckpoint
  BY <1>16, <1>a DEF ResetSyncCheckpoint
<1>17. CASE LoadBlockIndex
  BY <1>17 DEF LoadBlockIndex, Call, Goto
<1>18. CASE CheckMasterKey
  BY <1>18 DEF CheckMasterKey, Goto
<1>19. CASE Crash
  BY <1>19 DEF Crash, Goto
<1>20. CASE UNCHANGED vars
  BY <1>20 DEF vars
<1> QED
  BY <1>1, <1>2, <1>3, <1>4, <1>5, <1>6, <1>7, <1>8, <1>9, <1>10, <1>11, <1>12, <1>13,
     <1>14, <1>15, <1>16, <1>17, <1>18, <1>19, <1>20 DEF Next, Step

-----------------------------------------------------------------------------
(***************************************************************************)
(* Every step of the node is a step of the ledger or leaves it as it is.   *)
(***************************************************************************)
LEMMA LedgerInitial == Init => L!LedgerInit
<1> SUFFICES ASSUME Init PROVE L!LedgerInit
  OBVIOUS
<1>1. Follows(dbTx, Genesis)
  BY GenesisIndex DEF Init, Follows
<1>2. Spendable = L!UnspentOn(Genesis)
  BY <1>1, SpendableIsUnspent, BlockAssumption DEF Spendable, SpendableIn
<1> QED
  BY <1>2 DEF Init, L!LedgerInit

\* The index is written when a best block is committed, at no other time.
LEMMA IndexChangesWithBest ==
  TypeOK /\ Next /\ dbBest' = dbBest /\ IndexFollowsChain /\ IndexFollowsChain'
    => desynced \/ desynced' \/ dbTx' = dbTx
  BY DEF IndexFollowsChain, Follows

\* A checkpoint is written for the block that was ordered.
LEMMA CheckpointChange ==
  ASSUME MaxRekeys = 0, TypeOK, CheckpointFollows, CheckpointAdvances, OrdersAreObeyed, Next,
         hashSyncCheckpoint' # hashSyncCheckpoint
  PROVE  /\ hashSyncCheckpoint' \in MayOrder \cap Block
         /\ hashSyncCheckpoint \in Chain[hashSyncCheckpoint']
         /\ UNCHANGED <<dbBest, dbTx, desynced, rewound>>
<1>1. WriteSyncCheckpoint
  BY DEF Next, Step, AcceptBlock, ProcessSyncCheckpoint, ExtendBestChain, SetBestChainFails,
         StartReorganize, DisconnectStep, ConnectStep, ReorganizeFails, CommitReorganize,
         ConnectSecondary, SecondaryFails, FinishSetBestChain,
         AcceptPendingSyncCheckpoint, WriteSyncCheckpointFails, ResetSyncCheckpoint,
         LoadBlockIndex, CheckMasterKey, Crash, index
<1>2. pc = "writesync" /\ caller \in {"pending", "message"} /\ hashSyncCheckpoint' = goal
      /\ UNCHANGED <<dbBest, dbTx, desynced, rewound>>
  BY <1>1 DEF WriteSyncCheckpoint, CheckpointFollows, CheckpointAdvances, db
<1> QED
  BY <1>2 DEF OrdersAreObeyed, CheckpointAdvances, SettingBest, TypeOK

\* The invariants together.
LedgerInvariant ==
    /\ TypeOK /\ WorksTowardGoal /\ IndexFollowsChain /\ PointersFollow
    /\ CheckpointAdvances /\ GoalHasMoreTrust /\ CheckpointFollows /\ OrdersAreObeyed

LEMMA LedgerInvariantAlways ==
  ASSUME MaxRekeys = 0
  PROVE  Spec => []LedgerInvariant
<1>1. Init => CheckpointAdvances /\ GoalHasMoreTrust /\ OrdersAreObeyed
  BY DEF Init, CheckpointAdvances, GoalHasMoreTrust, OrdersAreObeyed, SettingBest, MayOrder
<1>2. Init => CheckpointFollows
  <2>1. Genesis \in Chain[Genesis]
    BY ChainEnds, BlockAssumption
  <2> QED
    BY <2>1 DEF Init, CheckpointFollows, SettingBest
<1> QED
  BY <1>1, <1>2, TypeInit, TypeStep, WorkStep, IndexFollowsInit, IndexFollowsStep,
     PointersFollowInit, PointersFollowStep, CheckpointAdvancesStep, GoalHasMoreTrustStep,
     CheckpointFollowsStep, OrdersAreObeyedStep, PTL DEF Spec, LedgerInvariant

LEMMA LedgerStep ==
  ASSUME MaxRekeys = 0, ~NoSyncCheckpoints
  PROVE  LedgerInvariant /\ LedgerInvariant' /\ [Next]_vars => [L!LedgerNext]_(L!ledger)
<1> SUFFICES ASSUME LedgerInvariant, LedgerInvariant', [Next]_vars
             PROVE  L!LedgerNext \/ UNCHANGED L!ledger
  OBVIOUS
<1> USE DEF LedgerInvariant
<1>1. CASE UNCHANGED vars
  BY <1>1 DEF vars, db, index, history, L!ledger, Spendable
<1>2. CASE Next /\ (desynced' \/ rewound')
  BY <1>2 DEF L!LedgerNext, L!Forfeit
<1>3. CASE Next /\ ~desynced' /\ ~rewound'
  <2>1. ~desynced /\ ~rewound
    BY <1>3 DEF Next, Step, AcceptBlock, ProcessSyncCheckpoint, ExtendBestChain,
                SetBestChainFails, StartReorganize, DisconnectStep, ConnectStep,
                ReorganizeFails, CommitReorganize, ConnectSecondary, SecondaryFails,
                FinishSetBestChain, AcceptPendingSyncCheckpoint, WriteSyncCheckpoint,
                WriteSyncCheckpointFails, ResetSyncCheckpoint, LoadBlockIndex,
                CheckMasterKey, Crash, history
  <2>2. /\ dbBest' \in Block /\ Follows(dbTx, dbBest)'
        /\ hashSyncCheckpoint' \in Chain[dbBest']
    BY <1>3 DEF TypeOK, IndexFollowsChain, CheckpointFollows
  <2>3. CASE hashSyncCheckpoint' # hashSyncCheckpoint
    <3> DEFINE c == hashSyncCheckpoint'
    <3>1. /\ c \in MayOrder \cap Block /\ hashSyncCheckpoint \in Chain[c]
          /\ UNCHANGED <<dbBest, dbTx, desynced, rewound>>
      BY <1>3, <2>3, CheckpointChange
    <3>2. c \in Chain[dbBest]
      BY <2>2, <3>1
    <3>3. UNCHANGED Spendable
      BY <3>1 DEF Spendable
    <3>4. L!Finalize(c)
      BY <2>1, <3>1, <3>2, <3>3 DEF L!Finalize, MayOrder
    <3> QED
      BY <3>1, <3>4 DEF L!LedgerNext
  <2>4. CASE UNCHANGED <<hashSyncCheckpoint, dbBest>>
    <3>1. UNCHANGED dbTx
      BY <1>3, <2>1, <2>4, IndexChangesWithBest
    <3> QED
      BY <1>3, <2>1, <2>4, <3>1 DEF L!ledger, Spendable
  <2>5. CASE UNCHANGED hashSyncCheckpoint /\ dbBest' # dbBest
    <3> DEFINE b == dbBest'
    <3>1. pc \in SettingBest /\ b \in Chain[goal]
      BY <1>3, <2>5, CommitsTowardGoal
    <3>2. \/ ChainTrust[b] > ChainTrust[dbBest]
          \/ \E c \in MayOrder : b \in Chain[c]
      <4>1. CASE caller = "block"
        BY <1>3, <2>1, <2>5, <4>1, TrustRisesStep DEF vars, db
      <4>2. CASE caller \in {"pending", "message"}
        BY <3>1, <4>2 DEF OrdersAreObeyed
      <4>3. caller \notin {"load", "reset"}
        BY <2>1, <3>1 DEF OrdersAreObeyed, CheckpointFollows
      <4>4. caller \in {"block", "pending", "message", "reset", "load"}
        BY DEF TypeOK
      <4> QED
        BY <4>1, <4>2, <4>3, <4>4
    <3>3. SoundChain(b)
      BY <2>2 DEF Follows
    <3>4. L!Valid(b)
      BY <2>2, <3>3, SoundIsValid
    <3>5. Spendable' = L!UnspentOn(b)
      BY <2>2, SpendableIsUnspent DEF Follows, Spendable, SpendableIn
    <3>6. L!Move(b)
      BY <1>3, <2>1, <2>2, <2>5, <3>2, <3>4, <3>5 DEF L!Move, MayOrder
    <3> QED
      BY <2>2, <3>6 DEF L!LedgerNext
  <2> QED
    BY <2>3, <2>4, <2>5
<1> QED
  BY <1>1, <1>2, <1>3

(***************************************************************************)
(* The chain state implements the ledger: for every block tree and any     *)
(* number of crashes and faults, what SetBestChain commits are moves to    *)
(* valid chains that keep what is final, the index shows exactly their     *)
(* unspent outputs, and WriteSyncCheckpoint makes more of the chain final. *)
(***************************************************************************)
THEOREM ChainImplementsLedger ==
  ASSUME MaxRekeys = 0, ~NoSyncCheckpoints
  PROVE  Spec => ImplementsLedger
<1> QED
  BY LedgerInitial, LedgerInvariantAlways, LedgerStep, PTL
  DEF Spec, ImplementsLedger, L!LedgerSpec

-----------------------------------------------------------------------------
(***************************************************************************)
(* FindBlockByHeight.  The remembered block is on the best chain, so that  *)
(* the walk begins there, and the pointers lead along it.                  *)
(***************************************************************************)
LEMMA HeightsOnChain ==
  ASSUME NEW g \in Block, NEW h \in 0 .. Height[g]
  PROVE  \E b \in Chain[g] : Height[b] = h
<1> DEFINE S == {a \in Chain[g] : Height[a] >= h}
<1>1. Chain[g] \subseteq Block /\ g \in Chain[g] /\ Height[g] \in Nat
  BY ChainEnds, BlockAssumption
<1>2. PICK a \in S : \A c \in S : Height[a] <= Height[c]
  <2>1. S \subseteq Block /\ g \in S
    BY <1>1
  <2> HIDE DEF S
  <2> QED
    BY <2>1, LowestBlock
<1>3. a \in Block /\ Height[a] \in Nat /\ Height[a] >= h /\ a \in Chain[g]
  BY <1>1, <1>2, BlockAssumption
<1>4. Height[a] = h
  <2> SUFFICES ASSUME Height[a] > h PROVE FALSE
    BY <1>3
  <2>1. a # Genesis
    BY <1>3, BlockAssumption
  <2>2. Prev[a] \in Chain[g] /\ Height[a] = Height[Prev[a]] + 1 /\ Height[Prev[a]] \in Nat
    BY <1>3, <2>1, ParentOnChain, BlockAssumption
  <2>3. Prev[a] \in S
    BY <2>2
  <2> QED
    BY <1>2, <2>2, <2>3
<1> QED
  BY <1>3, <1>4

LEMMA FindsBlockOfChain ==
  ASSUME TypeOK, pindexBest \in Block, pnext = NextOf(pindexBest),
         NEW s \in Chain[pindexBest], NEW b \in Chain[pindexBest]
  PROVE  Found(s, Height[b]) = {b}
<1> DEFINE tip == pindexBest
<1>1. Chain[tip] \subseteq Block /\ Chain[tip] \subseteq mapBlockIndex /\ s \in Block /\ b \in Block
      /\ Chain[s] \subseteq Chain[tip] /\ Genesis \in Chain[s] /\ Height[s] \in Nat /\ Height[b] \in Nat
      /\ mapBlockIndex \subseteq Block
  BY ChainEnds, Ancestors, IndexedChains, BlockAssumption DEF TypeOK
<1>2. ASSUME NEW c \in Found(s, Height[b])
      PROVE  c = b
  <2>1. c \in Block /\ Height[c] = Height[b] /\ c \in Chain[c]
        /\ (c \in Chain[s] \/ \A d \in Chain[c] \ Chain[s] : pnext[Prev[d]] = d)
    BY <1>1, ChainEnds DEF Found
  <2>2. CASE c \in Chain[s]
    BY <1>1, <2>1, <2>2, OneBlockPerHeight
  <2>3. CASE c \notin Chain[s]
    <3>1. pnext[Prev[c]] = c /\ c # NoBlock /\ c # Genesis
      BY <1>1, <2>1, <2>3, BlockAssumption
    <3>2. Prev[c] \in Block
      BY <2>1, <3>1, BlockAssumption
    <3>3. Prev[c] \in Chain[tip] \ {tip} /\ c = Toward(Prev[c], tip)
      BY <3>1, <3>2 DEF NextOf
    <3>4. c \in Chain[tip]
      BY <3>3, TowardOnChain
    <3> QED
      BY <1>1, <2>1, <3>4, OneBlockPerHeight
  <2> QED
    BY <2>2, <2>3
<1>3. b \in Found(s, Height[b])
  <2>1. CASE Height[b] <= Height[s]
    BY <1>1, <2>1, ChainIsLinear DEF Found
  <2>2. CASE Height[s] <= Height[b]
    <3>1. s \in Chain[b]
      BY <1>1, <2>2, ChainIsLinear
    <3>2. ASSUME NEW d \in Chain[b] \ Chain[s]
          PROVE  pnext[Prev[d]] = d
      <4>1. d \in Chain[tip] \ {Genesis}
        BY <1>1, Ancestors
      <4>2. Prev[d] \in Chain[tip] \ {tip} /\ Toward(Prev[d], tip) = d /\ Prev[d] \in Block
        BY <1>1, <4>1, TowardIsTheChild
      <4> QED
        BY <4>2 DEF NextOf
    <3> QED
      BY <1>1, <3>1, <3>2 DEF Found
  <2> QED
    BY <1>1, <2>1, <2>2
<1> QED
  BY <1>2, <1>3

RememberedOnChain ==
    \/ desynced
    \/ pc = "down"
    \/ pblockindexFBBHLast \in Chain[pindexBest] \cup {NoBlock}

\* Between operations, memory and disk agree and the pointers are those of the best chain.
LEMMA AtRest ==
  ASSUME TypeOK, IndexFollowsChain, PointersFollow, ~desynced, pc = "idle"
  PROVE  pindexBest \in Block /\ pnext = NextOf(pindexBest)
BY DEF TypeOK, IndexFollowsChain, PointersFollow

LEMMA StartsOnChain ==
  ASSUME pindexBest \in Block, pblockindexFBBHLast \in Chain[pindexBest] \cup {NoBlock}, NEW h
  PROVE  StartOfSearch(h) \in Chain[pindexBest]
BY ChainEnds DEF StartOfSearch

LEMMA RememberedStep ==
  TypeOK /\ IndexFollowsChain /\ PointersFollow /\ RememberedOnChain /\ [ChainRpcNext]_rpcVars
    => RememberedOnChain'
<1> SUFFICES ASSUME TypeOK, IndexFollowsChain, PointersFollow, RememberedOnChain,
                    [ChainRpcNext]_rpcVars, ~desynced', pc' # "down"
             PROVE  pblockindexFBBHLast' \in Chain[pindexBest'] \cup {NoBlock}
  BY DEF RememberedOnChain
<1>1. CASE ChainOperation
  <2>1. CASE pc = "down" \/ pindexBest' # pindexBest
    BY <1>1, <2>1 DEF ChainOperation, Forgotten
  <2>2. CASE pc # "down" /\ pindexBest' = pindexBest
    <3>1. ~desynced
      BY <1>1 DEF ChainOperation, Next, Step, AcceptBlock, ProcessSyncCheckpoint, ExtendBestChain,
                  SetBestChainFails, StartReorganize, DisconnectStep, ConnectStep, ReorganizeFails,
                  CommitReorganize, ConnectSecondary, SecondaryFails, FinishSetBestChain,
                  AcceptPendingSyncCheckpoint, WriteSyncCheckpoint, WriteSyncCheckpointFails,
                  ResetSyncCheckpoint, LoadBlockIndex, CheckMasterKey, Crash, history
    <3>2. pblockindexFBBHLast' = pblockindexFBBHLast
      BY <1>1, <2>2 DEF ChainOperation, Forgotten
    <3> QED
      BY <2>2, <3>1, <3>2 DEF RememberedOnChain
  <2> QED
    BY <2>1, <2>2
<1>2. ASSUME NEW h \in 0 .. Cardinality(Block), GetBlockHash(h)
      PROVE  pblockindexFBBHLast' \in Chain[pindexBest'] \cup {NoBlock}
  <2>1. ~desynced /\ pc = "idle" /\ pindexBest' = pindexBest
    BY <1>2 DEF GetBlockHash, vars, history, best
  <2>2. pindexBest \in Block /\ pnext = NextOf(pindexBest)
    BY <2>1, AtRest
  <2>3. pblockindexFBBHLast \in Chain[pindexBest] \cup {NoBlock}
    BY <2>1 DEF RememberedOnChain
  <2>4. Height[pindexBest] \in Nat /\ h \in Nat
    BY <2>2, BlockAssumption
  <2>5. h \in 0 .. Height[pindexBest]
    BY <1>2, <2>4 DEF GetBlockHash
  <2>6. PICK b \in Chain[pindexBest] : Height[b] = h
    BY <2>2, <2>5, HeightsOnChain
  <2>7. FindBlockByHeight(h) = {b}
    BY <2>2, <2>3, <2>6, StartsOnChain, FindsBlockOfChain DEF FindBlockByHeight
  <2> QED
    BY <1>2, <2>1, <2>7 DEF GetBlockHash
<1>3. CASE UNCHANGED rpcVars
  BY <1>3 DEF rpcVars, vars, best, control, history, RememberedOnChain
<1> QED
  BY <1>1, <1>2, <1>3 DEF ChainRpcNext

(***************************************************************************)
(* getblockhash gives a block of the best chain for every height up to     *)
(* that of the best block, wherever the last call left pblockindexFBBHLast *)
(* and whatever happened since; not after a postponed block has failed,    *)
(* when pnext ends before pindexBest.                                      *)
(***************************************************************************)
THEOREM AnswersAreFromBestChain == ChainRpcSpec => [](desynced \/ AnswersFromBestChain)
<1>1. ChainRpcInit => Init /\ RememberedOnChain
  BY DEF ChainRpcInit, RememberedOnChain
<1>2. [ChainRpcNext]_rpcVars => [Next]_vars
  BY DEF ChainRpcNext, ChainOperation, GetBlockHash, rpcVars
<1>3. TypeOK /\ IndexFollowsChain /\ PointersFollow /\ RememberedOnChain => desynced \/ AnswersFromBestChain
  <2> SUFFICES ASSUME TypeOK, IndexFollowsChain, PointersFollow, RememberedOnChain, ~desynced, pc = "idle",
                      NEW h \in 0 .. Height[pindexBest]
               PROVE  \E b \in Chain[pindexBest] : FindBlockByHeight(h) = {b}
    BY DEF AnswersFromBestChain
  <2>1. pindexBest \in Block /\ pnext = NextOf(pindexBest)
    BY AtRest
  <2>2. PICK b \in Chain[pindexBest] : Height[b] = h
    BY <2>1, HeightsOnChain
  <2>3. StartOfSearch(h) \in Chain[pindexBest]
    BY <2>1, StartsOnChain DEF RememberedOnChain
  <2> QED
    BY <2>1, <2>2, <2>3, FindsBlockOfChain DEF FindBlockByHeight
<1> QED
  BY <1>1, <1>2, <1>3, TypeInit, TypeStep, WorkStep, IndexFollowsInit, IndexFollowsStep,
     PointersFollowInit, PointersFollowStep, RememberedStep, PTL DEF ChainRpcSpec

-----------------------------------------------------------------------------
(***************************************************************************)
(* Every step of ProcessBlock and of what surrounds it is a step of the    *)
(* best chain or leaves the best chain alone.                              *)
(***************************************************************************)
LEMMA PoolStepIsChainStep == [PoolNext]_allVars => [Next]_vars
<1> SUFFICES ASSUME [PoolNext]_allVars PROVE [Next]_vars
  OBVIOUS
<1>1. ASSUME NEW t \in Tips, HandleVersion(t) \/ HandleInv(t) PROVE UNCHANGED vars
  BY <1>1 DEF HandleVersion, HandleInv
<1>2. ASSUME NEW b \in Block, LoseRequest(b) \/ ReceiveRefused(b) \/ ReceiveOrphan(b)
      PROVE  UNCHANGED vars
  BY <1>2 DEF LoseRequest, ReceiveRefused, ReceiveOrphan
<1>3. ASSUME NEW b \in Block, ReceiveChild(b) PROVE Next
  BY <1>3 DEF ReceiveChild, BeginAccept, Next
<1>4. CASE AcceptReturns \/ OrphanReturns \/ NextHash
  BY <1>4 DEF AcceptReturns, OrphanReturns, NextHash
<1>5. ASSUME NEW b \in Block, TakeOrphan(b) PROVE [Next]_vars
  BY <1>5 DEF TakeOrphan, BeginAccept, Next
<1>6. CASE ChainStep
  BY <1>6 DEF ChainStep, Next
<1>7. ASSUME NEW c \in Block, ReceiveSyncCheckpoint(c) PROVE Next
  BY <1>7 DEF ReceiveSyncCheckpoint, Next
<1>8. CASE CrashNode
  BY <1>8 DEF CrashNode, Next
<1>9. CASE UNCHANGED allVars
  BY <1>9 DEF allVars
<1> QED
  BY <1>1, <1>2, <1>3, <1>4, <1>5, <1>6, <1>7, <1>8, <1>9 DEF PoolNext, ProcessBlockStep

(***************************************************************************)
(* The orphan pool implements the best chain of module ChainState: no      *)
(* order of arrival, duplicate stake or lost request can bring it to a     *)
(* state that blocks arriving parent first could not (ProcessBlock).       *)
(***************************************************************************)
THEOREM PoolImplementsChain == PoolSpec => Spec
<1>1. PoolInit => Init
  BY DEF PoolInit
<1> QED
  BY <1>1, PoolStepIsChainStep, PTL DEF PoolSpec, Spec

(***************************************************************************)
(* What the chain promises it therefore promises under ProcessBlock.       *)
(***************************************************************************)
THEOREM ChainIsSoundUnderProcessBlock ==
  PoolSpec => [](TxIndexMatchesBestChain /\ BestChainIsSound /\ PointersFollowBestChain)
  BY PoolImplementsChain, IndexMatches, BestChainSound, PointersAreRight, PTL

-----------------------------------------------------------------------------

(***************************************************************************)
(* GetOrphanRoot ends: back from a block along the orphans there is a last *)
(* one, because the parent of the genesis block is not an orphan.          *)
(***************************************************************************)
LEMMA OrphanRootExists ==
  ASSUME mapOrphanBlocks \subseteq Block \ {Genesis}, NEW b \in Block \ {Genesis}
  PROVE  /\ OrphanRoot(b) \in Chain[b]
         /\ WantedByOrphan(b) \in Block
<1> DEFINE Root(r) == {a \in Chain[b] : Height[a] >= Height[r]} \subseteq mapOrphanBlocks \cup {b}
           S == {r \in Chain[b] : Root(r)}
<1>1. b \in S
  <2>1. \A a \in Chain[b] : Height[a] >= Height[b] => a = b
    BY Ancestors, ChainEnds, BlockAssumption
  <2> QED
    BY <2>1, ChainEnds
<1>2. PICK r \in S : \A a \in S : Height[r] <= Height[a]
  <2>1. S \subseteq Block
    BY ChainEnds
  <2> QED
    BY <1>1, <2>1, LowestBlock
<1>3. r \in Chain[b] /\ Root(r) /\ r \in Block
  BY <1>2, ChainEnds
<1>4. r # Genesis
  BY <1>3, BlockAssumption
<1>5. Prev[r] \in Chain[b] /\ Height[r] = Height[Prev[r]] + 1 /\ Prev[r] \in Block
  BY <1>3, <1>4, ParentOnChain, BlockAssumption
<1>6. Prev[r] \notin mapOrphanBlocks
  <2>1. SUFFICES ASSUME Prev[r] \in mapOrphanBlocks PROVE FALSE
    OBVIOUS
  <2>2. ASSUME NEW a \in Chain[b], Height[a] >= Height[Prev[r]]
        PROVE  a \in mapOrphanBlocks \cup {b}
    <3>1. CASE Height[a] = Height[Prev[r]]
      <4>1. a = Prev[r]
        BY <1>5, <3>1, OneBlockPerHeight
      <4> QED
        BY <2>1, <4>1
    <3>2. CASE Height[a] # Height[Prev[r]]
      <4>1. Height[a] >= Height[r]
        BY <1>5, <2>2, <3>2, ChainEnds, BlockAssumption
      <4> QED
        BY <1>3, <4>1
    <3> QED
      BY <3>1, <3>2
  <2>3. Prev[r] \in S
    BY <1>5, <2>2
  <2> QED
    BY <1>2, <1>3, <1>5, <2>3, BlockAssumption
<1> DEFINE IsRoot(x) == /\ Prev[x] \notin mapOrphanBlocks
                        /\ {a \in Chain[b] : Height[a] >= Height[x]} \subseteq mapOrphanBlocks \cup {b}
<1>7. OrphanRoot(b) \in Chain[b] /\ IsRoot(OrphanRoot(b))
  <2>1. \E x \in Chain[b] : IsRoot(x)
    BY <1>3, <1>6
  <2>2. OrphanRoot(b) = CHOOSE x \in Chain[b] : IsRoot(x)
    BY DEF OrphanRoot
  <2> QED
    BY <2>1, <2>2
<1>8. OrphanRoot(b) \in Block \ {Genesis}
  <2>1. OrphanRoot(b) \in Block
    BY <1>7, ChainEnds
  <2>2. OrphanRoot(b) \in mapOrphanBlocks \cup {b}
    BY <1>7, <2>1, BlockAssumption
  <2> QED
    BY <2>1, <2>2
<1> QED
  BY <1>7, <1>8, BlockAssumption DEF WantedByOrphan

-----------------------------------------------------------------------------
(***************************************************************************)
(* What the loop over the orphans keeps true while AcceptBlock runs for    *)
(* one of them: it is still in the pool, under the hash the loop is at.    *)
(***************************************************************************)
CallIsRight ==
    accepting # NoBlock /\ vWorkQueue # << >>
        => accepting \in mapOrphanBlocks /\ Prev[accepting] = Head(vWorkQueue)

PoolIsRight == PoolTypeOK /\ CallIsRight /\ NoDanglingOrphan /\ StakesSeenAreThere

LEMMA EmptyPoolTypes ==
  /\ /\ mapOrphanBlocks = {} /\ mapOrphanBlocksByPrev = {}
     /\ setStakeSeen = {} /\ setStakeSeenOrphan = {}
     /\ vWorkQueue = << >> /\ accepting = NoBlock /\ accepted = FALSE /\ inFlight = {}
     => PoolTypeOK
  /\ /\ mapOrphanBlocks' = {} /\ mapOrphanBlocksByPrev' = {}
     /\ setStakeSeen' = {} /\ setStakeSeenOrphan' = {}
     /\ vWorkQueue' = << >> /\ accepting' = NoBlock /\ accepted' = FALSE /\ inFlight' = {}
     => PoolTypeOK'
<1>1. \A S : << >> \in Seq(S) /\ {} \subseteq S /\ {} \cup {} \subseteq S
  OBVIOUS
<1> QED
  BY <1>1 DEF PoolTypeOK

LEMMA PoolIsRightInit == PoolInit => PoolIsRight
<1> SUFFICES ASSUME PoolInit PROVE PoolIsRight
  OBVIOUS
<1>1. StakesOf({Genesis}) = {} /\ StakesOf({}) = {}
  BY StakeAssumption DEF StakesOf, IsProofOfStake
<1>2. PoolTypeOK
  BY EmptyPoolTypes DEF PoolInit
<1>3. CallIsRight /\ NoDanglingOrphan
  BY DEF PoolInit, CallIsRight, NoDanglingOrphan
<1>4. StakesSeenAreThere
  BY <1>1 DEF PoolInit, Init, StakesSeenAreThere
<1> QED
  BY <1>2, <1>3, <1>4 DEF PoolIsRight

LEMMA StakesOfTypes ==
  ASSUME NEW S, S \subseteq Block
  PROVE  StakesOf(S) \subseteq {Stake[b] : b \in Block} \ {NoStake}
BY DEF StakesOf, IsProofOfStake

LEMMA RequestTypes ==
  ASSUME TypeOK, PoolTypeOK
  PROVE  /\ \A S : S \subseteq Block => Ask(S) \subseteq Block
         /\ \A b \in Block : PendingWanted(b) \subseteq Block /\ GetBlocks(b) \subseteq Block
<1>1. \A S : S \subseteq Block => Ask(S) \subseteq Block
  BY DEF PoolTypeOK, Ask
<1>2. \A b \in Block : PendingWanted(b) \subseteq Block /\ GetBlocks(b) \subseteq Block
  BY ChainEnds DEF TypeOK, PendingWanted, GetBlocks, BlockOrNone
<1> QED
  BY <1>1, <1>2

LEMMA PoolTypeStep == TypeOK /\ PoolTypeOK /\ [PoolNext]_allVars => PoolTypeOK'
<1> SUFFICES ASSUME TypeOK, PoolTypeOK, [PoolNext]_allVars PROVE PoolTypeOK'
  OBVIOUS
<1> USE DEF pool, stakes, call
<1>a. mapBlockIndex \subseteq mapBlockIndex'
  BY PoolStepIsChainStep, IndexOnlyGrows
<1>b. \A q : q \in Seq(mapBlockIndex) => q \in Seq(mapBlockIndex')
  BY <1>a
<1>c. mapBlockIndex \subseteq Block
  BY DEF TypeOK
<1>d. \A b \in Block : StakesOf({b}) \subseteq {Stake[c] : c \in Block} \ {NoStake}
  BY StakesOfTypes
<1>1. ASSUME NEW t \in Tips, HandleVersion(t) \/ HandleInv(t) PROVE PoolTypeOK'
  <2>1. t \in Block \ {Genesis} /\ Chain[t] \ Chain[pindexBest] \subseteq Block
    BY StakeAssumption, ChainEnds
  <2>2. OrphanRoot(t) \in Block
    BY <2>1, OrphanRootExists, ChainEnds DEF PoolTypeOK
  <2>3. inFlight' \subseteq Block
    BY <1>1, <2>1, <2>2, RequestTypes DEF HandleVersion, HandleInv
  <2> QED
    BY <1>1, <1>a, <1>b, <2>3 DEF PoolTypeOK, HandleVersion, HandleInv
<1>2. ASSUME NEW b \in Block, LoseRequest(b) \/ ReceiveRefused(b) PROVE PoolTypeOK'
  <2>1. inFlight' \subseteq Block
    BY <1>2, RequestTypes DEF PoolTypeOK, LoseRequest, ReceiveRefused
  <2> QED
    BY <1>2, <1>a, <1>b, <2>1 DEF PoolTypeOK, LoseRequest, ReceiveRefused
<1>3. ASSUME NEW b \in Block, ReceiveOrphan(b) PROVE PoolTypeOK'
  <2>1. b # Genesis
    BY <1>3 DEF ReceiveOrphan, Refuses, AlreadyHave, Known, TypeOK
  <2>2. OrphanRoot(b) \in Block /\ WantedByOrphan(b) \in Block
    BY <2>1, OrphanRootExists, ChainEnds DEF PoolTypeOK
  <2>3. inFlight' \subseteq Block
    BY <1>3, <2>2, RequestTypes DEF ReceiveOrphan
  <2> QED
    BY <1>3, <1>a, <1>b, <1>d, <2>1, <2>3 DEF PoolTypeOK, ReceiveOrphan
<1>4. ASSUME NEW b \in Block, ReceiveChild(b) PROVE PoolTypeOK'
  <2>1. inFlight' \subseteq Block
    BY <1>4, RequestTypes DEF ReceiveChild
  <2>2. b \in mapBlockIndex'
    BY <1>4 DEF ReceiveChild, BeginAccept, AcceptBlock
  <2> QED
    BY <1>4, <1>a, <1>b, <1>d, <2>1, <2>2 DEF PoolTypeOK, ReceiveChild, BeginAccept
<1>5. CASE AcceptReturns
  <2>1. vWorkQueue' \in Seq(mapBlockIndex)
    BY <1>5 DEF AcceptReturns, PoolTypeOK
  <2> QED
    BY <1>5, <1>a, <1>b, <2>1 DEF AcceptReturns, PoolTypeOK
<1>6. ASSUME NEW b \in Block, TakeOrphan(b) PROVE PoolTypeOK'
  <2>1. CASE BeginAccept(b) /\ UNCHANGED <<mapOrphanBlocks, setStakeSeenOrphan>>
    <3>1. b \in mapBlockIndex'
      BY <2>1 DEF BeginAccept, AcceptBlock
    <3> QED
      BY <1>6, <2>1, <3>1, <1>a, <1>b, <1>d DEF PoolTypeOK, TakeOrphan, BeginAccept
  <2>2. CASE Forget(b) /\ UNCHANGED <<vars, setStakeSeen, call>>
    BY <1>6, <2>2, <1>a, <1>b DEF PoolTypeOK, TakeOrphan, Forget
  <2> QED
    BY <1>6, <2>1, <2>2 DEF TakeOrphan
<1>7. CASE OrphanReturns
  <2>1. vWorkQueue' \in Seq(mapBlockIndex)
    BY <1>7 DEF OrphanReturns, PoolTypeOK
  <2> QED
    BY <1>7, <1>a, <1>b, <2>1 DEF OrphanReturns, PoolTypeOK, Forget
<1>8. CASE NextHash
  <2>1. vWorkQueue' \in Seq(mapBlockIndex)
    BY <1>8 DEF NextHash, PoolTypeOK
  <2> QED
    BY <1>8, <1>a, <1>b, <2>1 DEF NextHash, PoolTypeOK, WithoutEntries
<1>9. CASE ChainStep
  <2>1. setStakeSeen' \subseteq {Stake[b] : b \in Block} \ {NoStake}
    BY <1>9, <1>c, StakesOfTypes DEF ChainStep, PoolTypeOK
  <2>2. accepted' \in BOOLEAN
    BY <1>9 DEF ChainStep
  <2> QED
    BY <1>9, <1>a, <1>b, <2>1, <2>2 DEF ChainStep, PoolTypeOK
<1>10. ASSUME NEW c \in Block, ReceiveSyncCheckpoint(c) PROVE PoolTypeOK'
  <2>1. c \in mapOrphanBlocks => WantedByOrphan(c) \in Block
    BY OrphanRootExists DEF PoolTypeOK
  <2>2. inFlight' \subseteq Block
    BY <1>10, <2>1, RequestTypes DEF ReceiveSyncCheckpoint, PoolTypeOK
  <2> QED
    BY <1>10, <1>a, <1>b, <2>2 DEF PoolTypeOK, ReceiveSyncCheckpoint
<1>11. CASE CrashNode
  BY <1>11, EmptyPoolTypes DEF CrashNode
<1>12. CASE UNCHANGED allVars
  BY <1>12, <1>a, <1>b DEF PoolTypeOK, allVars, poolVars
<1> QED
  BY <1>1, <1>2, <1>3, <1>4, <1>5, <1>6, <1>7, <1>8, <1>9, <1>10, <1>11, <1>12
  DEF PoolNext, ProcessBlockStep

(***************************************************************************)
(* The entries of mapOrphanBlocksByPrev.                                   *)
(***************************************************************************)
LEMMA NoDanglingStep ==
  PoolTypeOK /\ CallIsRight /\ NoDanglingOrphan /\ [PoolNext]_allVars
    => (CallIsRight /\ NoDanglingOrphan)'
<1> SUFFICES ASSUME PoolTypeOK, CallIsRight, NoDanglingOrphan, [PoolNext]_allVars
             PROVE  (CallIsRight /\ NoDanglingOrphan)'
  OBVIOUS
<1> USE DEF pool, stakes, call, CallIsRight, NoDanglingOrphan
<1>1. ASSUME NEW t \in Tips, HandleVersion(t) \/ HandleInv(t)
      PROVE  (CallIsRight /\ NoDanglingOrphan)'
  BY <1>1 DEF HandleVersion, HandleInv
<1>2. ASSUME NEW b \in Block, LoseRequest(b) \/ ReceiveRefused(b)
      PROVE  (CallIsRight /\ NoDanglingOrphan)'
  BY <1>2 DEF LoseRequest, ReceiveRefused
<1>3. ASSUME NEW b \in Block, ReceiveOrphan(b) PROVE (CallIsRight /\ NoDanglingOrphan)'
  BY <1>3 DEF ReceiveOrphan, Ready
<1>4. ASSUME NEW b \in Block, ReceiveChild(b) PROVE (CallIsRight /\ NoDanglingOrphan)'
  BY <1>4 DEF ReceiveChild, BeginAccept, Ready
<1>5. CASE AcceptReturns
  BY <1>5 DEF AcceptReturns
<1>6. ASSUME NEW b \in Block, TakeOrphan(b) PROVE (CallIsRight /\ NoDanglingOrphan)'
  BY <1>6 DEF TakeOrphan, BeginAccept, Forget
<1>7. CASE OrphanReturns
  <2>1. vWorkQueue \in Seq(mapBlockIndex) /\ vWorkQueue # << >>
    BY <1>7 DEF OrphanReturns, PoolTypeOK
  <2>2. accepting \in mapOrphanBlocks /\ Prev[accepting] = Head(vWorkQueue)
    BY <1>7, <2>1 DEF OrphanReturns
  <2>3. accepting \in mapBlockIndex
    BY <1>7 DEF OrphanReturns, PoolTypeOK
  <2>4. vWorkQueue' # << >> /\ Head(vWorkQueue') = Head(vWorkQueue)
    BY <1>7, <2>1, <2>3 DEF OrphanReturns
  <2> QED
    BY <1>7, <2>1, <2>2, <2>4 DEF OrphanReturns, Forget
<1>8. CASE NextHash
  BY <1>8 DEF NextHash, WithoutEntries, ChildrenTaken
<1>9. CASE ChainStep
  BY <1>9 DEF ChainStep
<1>10. ASSUME NEW c \in Block, ReceiveSyncCheckpoint(c) PROVE (CallIsRight /\ NoDanglingOrphan)'
  BY <1>10 DEF ReceiveSyncCheckpoint
<1>11. CASE CrashNode
  BY <1>11 DEF CrashNode
<1>12. CASE UNCHANGED allVars
  BY <1>12 DEF allVars, poolVars
<1> QED
  BY <1>1, <1>2, <1>3, <1>4, <1>5, <1>6, <1>7, <1>8, <1>9, <1>10, <1>11, <1>12
  DEF PoolNext, ProcessBlockStep

(***************************************************************************)
(* The proofs of stake that are remembered.                                *)
(***************************************************************************)
LEMMA StakesOfUnion == \A S, b : StakesOf(S \cup {b}) = StakesOf(S) \cup StakesOf({b})
BY DEF StakesOf, IsProofOfStake

LEMMA ForgetKeepsStakes ==
  ASSUME StakesSeenAreThere, NEW b, Forget(b)
  PROVE  setStakeSeenOrphan' \subseteq StakesOf(mapOrphanBlocks')
BY DEF StakesSeenAreThere, Forget, StakesOf, IsProofOfStake

LEMMA StakesSeenStep ==
  StakesSeenAreThere /\ [PoolNext]_allVars => StakesSeenAreThere'
<1> SUFFICES ASSUME StakesSeenAreThere, [PoolNext]_allVars PROVE StakesSeenAreThere'
  OBVIOUS
<1> USE DEF pool, stakes, call
<1>a. ASSUME UNCHANGED <<vars, setStakeSeen>> PROVE pc' # "down" => setStakeSeen' = StakesOf(mapBlockIndex')
  BY <1>a DEF StakesSeenAreThere, vars, control, index
<1>b. ASSUME NEW b, BeginAccept(b)
      PROVE  pc' # "down" => setStakeSeen' = StakesOf(mapBlockIndex')
  BY <1>b, StakesOfUnion DEF StakesSeenAreThere, BeginAccept, AcceptBlock
<1>1. ASSUME NEW t \in Tips, HandleVersion(t) \/ HandleInv(t) PROVE StakesSeenAreThere'
  BY <1>1, <1>a DEF StakesSeenAreThere, HandleVersion, HandleInv
<1>2. ASSUME NEW b \in Block, LoseRequest(b) \/ ReceiveRefused(b) PROVE StakesSeenAreThere'
  BY <1>2, <1>a DEF StakesSeenAreThere, LoseRequest, ReceiveRefused
<1>3. ASSUME NEW b \in Block, ReceiveOrphan(b) PROVE StakesSeenAreThere'
  BY <1>3, <1>a, StakesOfUnion DEF StakesSeenAreThere, ReceiveOrphan
<1>4. ASSUME NEW b \in Block, ReceiveChild(b) PROVE StakesSeenAreThere'
  BY <1>4, <1>b DEF StakesSeenAreThere, ReceiveChild
<1>5. CASE AcceptReturns
  BY <1>5, <1>a DEF StakesSeenAreThere, AcceptReturns
<1>6. ASSUME NEW b \in Block, TakeOrphan(b) PROVE StakesSeenAreThere'
  <2>1. CASE BeginAccept(b) /\ UNCHANGED <<mapOrphanBlocks, setStakeSeenOrphan>>
    BY <2>1, <1>b DEF StakesSeenAreThere
  <2>2. CASE Forget(b) /\ UNCHANGED <<vars, setStakeSeen, call>>
    BY <2>2, <1>a, ForgetKeepsStakes DEF StakesSeenAreThere
  <2> QED
    BY <1>6, <2>1, <2>2 DEF TakeOrphan
<1>7. CASE OrphanReturns
  BY <1>7, <1>a, ForgetKeepsStakes DEF StakesSeenAreThere, OrphanReturns
<1>8. CASE NextHash
  BY <1>8, <1>a DEF StakesSeenAreThere, NextHash
<1>9. CASE ChainStep
  <2>1. UNCHANGED mapBlockIndex
    BY <1>9, StepKeepsIndex DEF ChainStep
  <2> QED
    BY <1>9, <2>1 DEF StakesSeenAreThere, ChainStep
<1>10. ASSUME NEW c \in Block, ReceiveSyncCheckpoint(c) PROVE StakesSeenAreThere'
  <2>1. pc = "idle" /\ UNCHANGED <<mapBlockIndex, setStakeSeen>>
    BY <1>10 DEF ReceiveSyncCheckpoint, ProcessSyncCheckpoint, index
  <2> QED
    BY <1>10, <2>1 DEF StakesSeenAreThere, ReceiveSyncCheckpoint
<1>11. CASE CrashNode
  BY <1>11 DEF StakesSeenAreThere, CrashNode, Crash, Goto
<1>12. CASE UNCHANGED allVars
  BY <1>12, <1>a DEF StakesSeenAreThere, allVars, poolVars
<1> QED
  BY <1>1, <1>2, <1>3, <1>4, <1>5, <1>6, <1>7, <1>8, <1>9, <1>10, <1>11, <1>12
  DEF PoolNext, ProcessBlockStep

LEMMA PoolIsRightAlways == PoolSpec => []PoolIsRight
<1>1. TypeOK /\ PoolIsRight /\ [PoolNext]_allVars => PoolIsRight'
  BY PoolTypeStep, NoDanglingStep, StakesSeenStep DEF PoolIsRight
<1> QED
  BY <1>1, PoolIsRightInit, PoolImplementsChain, TypeCorrect, PTL DEF PoolSpec

(***************************************************************************)
(* The types of the pool, and GetOrphanRoot and PushGetBlocks name blocks, *)
(* for any number of orphans (ProcessBlock).                               *)
(***************************************************************************)
THEOREM PoolTypeCorrect == PoolSpec => []PoolTypeOK
  BY PoolIsRightAlways, PTL DEF PoolIsRight

(***************************************************************************)
(* mapOrphanBlocksByPrev never points to a deleted block, between messages *)
(* and while the loop over the orphans runs (ProcessBlock).                *)
(***************************************************************************)
THEOREM NoOrphanDangles == PoolSpec => []NoDanglingOrphan
  BY PoolIsRightAlways, PTL DEF PoolIsRight

(***************************************************************************)
(* No proof of stake outlives its block in setStakeSeen or its orphan in   *)
(* setStakeSeenOrphan (ProcessBlock, AddToBlockIndex, LoadBlockIndexGuts). *)
(***************************************************************************)
THEOREM StakesAreThere == PoolSpec => []StakesSeenAreThere
  BY PoolIsRightAlways, PTL DEF PoolIsRight

(***************************************************************************)
(* Nothing that refers to an orphan stays behind when the orphan goes      *)
(* (ProcessBlock).                                                         *)
(***************************************************************************)
THEOREM OrphansStayWhole == PoolSpec => []OrphansAreWhole
  BY NoOrphanDangles, StakesAreThere, PTL DEF OrphansAreWhole
-----------------------------------------------------------------------------
(***************************************************************************)
(* No orphan is forgotten.  While AcceptBlock runs, SetBestChain works for *)
(* the block it was called with; when it has failed the chain of that      *)
(* block is invalid; and an orphan whose parent is indexed waits only for  *)
(* the block AcceptBlock runs for or for a hash of the work queue.         *)
(***************************************************************************)
CallWorksOnIt ==
    accepting # NoBlock /\ caller = "block" /\ pc \in {"setbest", "reorg", "secondary"}
        => goal = accepting

RefusedIsInvalid ==
    ~desynced /\ accepting # NoBlock /\ ~accepted => ~ValidChain(accepting)

Queued(b) == \E i \in DOMAIN vWorkQueue : vWorkQueue[i] = b

OrphansWait ==
    ~desynced => \A c \in mapOrphanBlocks :
        Known(Prev[c]) => ~ValidChain(Prev[c]) \/ Prev[c] = accepting \/ Queued(Prev[c])

(***************************************************************************)
(* A block that ConnectBlock refuses for its own sake with one best block  *)
(* it refuses also as the child of its parent.  (The code reads the money  *)
(* supply of the best block in a reorganize, so for the reward this is an  *)
(* assumption on the blocks.)                                              *)
(***************************************************************************)
RefusedAtParent == \A b, tip \in Block : <<b, tip>> \in Rejects => <<b, Prev[b]>> \in Rejects

LEMMA CallStep == CallWorksOnIt /\ [PoolNext]_allVars => CallWorksOnIt'
<1> SUFFICES ASSUME CallWorksOnIt, [PoolNext]_allVars PROVE CallWorksOnIt'
  OBVIOUS
<1> USE DEF CallWorksOnIt, call
<1>a. ASSUME UNCHANGED vars, UNCHANGED accepting \/ accepting' = NoBlock PROVE CallWorksOnIt'
  BY <1>a DEF vars, control
<1>b. ASSUME NEW b \in Block, BeginAccept(b) PROVE CallWorksOnIt'
  BY <1>b DEF BeginAccept, AcceptBlock, Call, Goto
<1>1. ASSUME NEW t \in Tips, HandleVersion(t) \/ HandleInv(t) PROVE CallWorksOnIt'
  BY <1>1, <1>a DEF HandleVersion, HandleInv
<1>2. ASSUME NEW b \in Block, LoseRequest(b) \/ ReceiveRefused(b) \/ ReceiveOrphan(b)
      PROVE  CallWorksOnIt'
  BY <1>2, <1>a DEF LoseRequest, ReceiveRefused, ReceiveOrphan
<1>3. ASSUME NEW b \in Block, ReceiveChild(b) PROVE CallWorksOnIt'
  BY <1>3, <1>b DEF ReceiveChild
<1>4. CASE AcceptReturns \/ OrphanReturns \/ NextHash
  BY <1>4, <1>a DEF AcceptReturns, OrphanReturns, NextHash
<1>5. ASSUME NEW b \in Block, TakeOrphan(b) PROVE CallWorksOnIt'
  BY <1>5, <1>a, <1>b DEF TakeOrphan
<1>6. CASE ChainStep
  <2>1. UNCHANGED accepting /\ Step
    BY <1>6 DEF ChainStep
  <2>2. CASE \/ ExtendBestChain \/ SetBestChainFails \/ StartReorganize \/ DisconnectStep
             \/ ConnectStep \/ ReorganizeFails \/ CommitReorganize \/ ConnectSecondary
             \/ SecondaryFails \/ FinishSetBestChain
    BY <2>1, <2>2 DEF ExtendBestChain, SetBestChainFails, StartReorganize, DisconnectStep,
       ConnectStep, ReorganizeFails, CommitReorganize, ConnectSecondary, SecondaryFails,
       FinishSetBestChain, Succeed, Fail, Goto, AfterFailure
  <2>3. CASE AcceptPendingSyncCheckpoint \/ ResetSyncCheckpoint
    BY <2>1, <2>3 DEF AcceptPendingSyncCheckpoint, ResetSyncCheckpoint, Enforce, Call, Write, Goto
  <2>4. CASE \/ WriteSyncCheckpoint \/ WriteSyncCheckpointFails \/ CheckMasterKey \/ LoadBlockIndex
    BY <2>1, <2>4 DEF WriteSyncCheckpoint, WriteSyncCheckpointFails, CheckMasterKey,
       LoadBlockIndex, Call, Goto
  <2> QED
    BY <2>1, <2>2, <2>3, <2>4 DEF Step
<1>7. ASSUME NEW c \in Block, ReceiveSyncCheckpoint(c) PROVE CallWorksOnIt'
  BY <1>7 DEF ReceiveSyncCheckpoint, Ready
<1>8. CASE CrashNode
  BY <1>8 DEF CrashNode
<1>9. CASE UNCHANGED allVars
  BY <1>9, <1>a DEF allVars, poolVars
<1> QED
  BY <1>1, <1>2, <1>3, <1>4, <1>5, <1>6, <1>7, <1>8, <1>9 DEF PoolNext, ProcessBlockStep

(***************************************************************************)
(* The block at which SetBestChain gives up does not connect to the index  *)
(* of its parent's chain, so no chain through it is valid.                 *)
(***************************************************************************)
LEMMA RefusedBlockSpoilsChain ==
  ASSUME RefusedAtParent, NEW g, NEW b \in Chain[g] \cap (Block \ {Genesis}), NEW tip \in Block,
         ~Connects(b, IndexOf(Prev[b]), tip)
  PROVE  ~ValidChain(g)
<1>1. ~Connects(b, IndexOf(Prev[b]), Prev[b])
  BY DEF Connects, RefusedAtParent
<1> QED
  BY <1>1 DEF ValidChain

LEMMA FailureMeansInvalid ==
  ASSUME MaxFaults = 0, RefusedAtParent, TypeOK, WorksTowardGoal, IndexFollowsChain, ~desynced,
         Step, pc \in {"setbest", "reorg"}, pc' = "idle"
  PROVE  ~ValidChain(goal)
<1>1. ~Fault
  BY DEF TypeOK, Fault
<1>2. SetBestChainFails \/ ReorganizeFails
  BY DEF Step, ExtendBestChain, StartReorganize, DisconnectStep, ConnectStep, CommitReorganize,
     ConnectSecondary, SecondaryFails, FinishSetBestChain, AcceptPendingSyncCheckpoint,
     WriteSyncCheckpoint, WriteSyncCheckpointFails, ResetSyncCheckpoint, LoadBlockIndex,
     CheckMasterKey, Succeed, Goto
<1>3. goal \in Block /\ mid \in Block /\ cur \in Block /\ pindexBest \in Block
  BY DEF TypeOK
<1>4. CASE SetBestChainFails
  <2>1. pc = "setbest" /\ Prev[goal] = pindexBest /\ ~Connects(goal, dbTx, pindexBest)
    BY <1>1, <1>4 DEF SetBestChainFails
  <2>2. dbTx = IndexOf(Prev[goal])
    BY <2>1 DEF IndexFollowsChain, Follows
  <2>3. goal # Genesis /\ goal \in Chain[goal]
    BY <1>3, <2>1, BlockAssumption, ChainEnds
  <2> QED
    BY <1>3, <2>1, <2>2, <2>3, RefusedBlockSpoilsChain
<1>5. CASE ReorganizeFails
  <2>1. pc = "reorg" /\ txnTx = IndexOf(cur) /\ SoundChain(cur)
    BY <1>5 DEF ReorganizeFails, IndexFollowsChain, Follows
  <2>2. Disconnects(cur, txnTx)
    BY <1>3, <2>1, DisconnectBlockSucceeds
  <2>3. cur \in Chain[mid] \ {mid} /\ ~Connects(Toward(cur, mid), txnTx, pindexBest)
    BY <1>1, <1>5, <2>2 DEF ReorganizeFails
  <2>4. Toward(cur, mid) \in Chain[mid] /\ Prev[Toward(cur, mid)] = cur
        /\ Toward(cur, mid) \in Block \ {Genesis}
    BY <1>3, <2>3, TowardOnChain, ChainEnds
  <2>5. Toward(cur, mid) \in Chain[goal]
    BY <1>3, <2>1, <2>4, Ancestors DEF WorksTowardGoal
  <2> QED
    BY <1>3, <2>1, <2>3, <2>4, <2>5, RefusedBlockSpoilsChain
<1> QED
  BY <1>2, <1>4, <1>5

LEMMA RefusedStep ==
  ASSUME MaxFaults = 0, RefusedAtParent
  PROVE  /\ TypeOK /\ WorksTowardGoal /\ IndexFollowsChain
         /\ CallWorksOnIt /\ RefusedIsInvalid /\ [PoolNext]_allVars
         => RefusedIsInvalid'
<1> SUFFICES ASSUME TypeOK, WorksTowardGoal, IndexFollowsChain,
                    CallWorksOnIt, RefusedIsInvalid, [PoolNext]_allVars, ~desynced'
             PROVE  (accepting # NoBlock /\ ~accepted => ~ValidChain(accepting))'
  BY DEF RefusedIsInvalid
<1> USE DEF call
<1>a. ~desynced
  BY DesyncedStays, PoolStepIsChainStep
<1>b. \A b : (accepting' = b /\ ValidChain(accepting)') => ValidChain(b)
  BY DEF ValidChain, CheckHardened
<1>c. ASSUME UNCHANGED call \/ accepting' = NoBlock
      PROVE  (accepting # NoBlock /\ ~accepted => ~ValidChain(accepting))'
  BY <1>a, <1>b, <1>c DEF RefusedIsInvalid
<1>1. ASSUME NEW t \in Tips, HandleVersion(t) \/ HandleInv(t) PROVE UNCHANGED call
  BY <1>1 DEF HandleVersion, HandleInv
<1>2. ASSUME NEW b \in Block, LoseRequest(b) \/ ReceiveRefused(b) \/ ReceiveOrphan(b)
      PROVE  UNCHANGED call
  BY <1>2 DEF LoseRequest, ReceiveRefused, ReceiveOrphan
<1>3. ASSUME NEW b \in Block, ReceiveChild(b) PROVE accepted'
  BY <1>3 DEF ReceiveChild, BeginAccept
<1>4. CASE AcceptReturns \/ OrphanReturns \/ NextHash
  BY <1>4, <1>c DEF AcceptReturns, OrphanReturns, NextHash
<1>5. ASSUME NEW b \in Block, TakeOrphan(b) PROVE accepted' \/ UNCHANGED call
  BY <1>5 DEF TakeOrphan, BeginAccept
<1>6. CASE ChainStep
  <2>1. /\ Step /\ UNCHANGED accepting
        /\ accepted' = (accepted /\ ~(caller = "block" /\ pc \in {"setbest", "reorg"} /\ pc' = "idle"))
    BY <1>6 DEF ChainStep
  <2>2. CASE accepting = NoBlock \/ ~accepted
    BY <1>a, <1>b, <2>1, <2>2 DEF RefusedIsInvalid
  <2>3. CASE accepting # NoBlock /\ accepted /\ ~accepted'
    <3>1. goal = accepting
      BY <2>1, <2>3 DEF CallWorksOnIt
    <3>2. ~ValidChain(goal)
      BY <1>a, <2>1, <2>3, FailureMeansInvalid
    <3> QED
      BY <1>b, <2>1, <3>1, <3>2
  <2> QED
    BY <2>2, <2>3
<1>7. ASSUME NEW c \in Block, ReceiveSyncCheckpoint(c) PROVE UNCHANGED call
  BY <1>7 DEF ReceiveSyncCheckpoint
<1>8. CASE CrashNode
  BY <1>8, <1>c DEF CrashNode
<1>9. CASE UNCHANGED allVars
  BY <1>9, <1>c DEF allVars, poolVars
<1> QED
  BY <1>c, <1>1, <1>2, <1>3, <1>4, <1>5, <1>6, <1>7, <1>8, <1>9 DEF PoolNext, ProcessBlockStep

(***************************************************************************)
(* An orphan gets a parent only by the call of AcceptBlock for it, which   *)
(* ends with the parent in the work queue or found invalid; and a hash     *)
(* leaves the queue only when no orphan is its child.                      *)
(***************************************************************************)
LEMMA QueueGrows ==
  ASSUME NEW S, NEW q \in Seq(S), NEW b \in S
  PROVE  /\ \A i \in DOMAIN q : i \in DOMAIN Append(q, b) /\ Append(q, b)[i] = q[i]
         /\ \E i \in DOMAIN Append(q, b) : Append(q, b)[i] = b
<1>1. DOMAIN q = 1 .. Len(q) /\ Len(q) \in Nat
  OBVIOUS
<1>2. DOMAIN Append(q, b) = 1 .. Len(q) + 1 /\ Append(q, b)[Len(q) + 1] = b
  OBVIOUS
<1>3. Len(q) + 1 \in DOMAIN Append(q, b)
  BY <1>1, <1>2
<1> QED
  BY <1>1, <1>2, <1>3

LEMMA QueueShrinks ==
  ASSUME NEW S, NEW q \in Seq(S), q # << >>, NEW i \in DOMAIN q
  PROVE  q[i] = Head(q) \/ \E j \in DOMAIN Tail(q) : Tail(q)[j] = q[i]
<1>1. i \in 1 .. Len(q) /\ Len(q) \in Nat /\ Head(q) = q[1]
  OBVIOUS
<1>2. DOMAIN Tail(q) = 1 .. Len(q) - 1 /\ \A j \in 1 .. Len(q) - 1 : Tail(q)[j] = q[j + 1]
  OBVIOUS
<1>3. CASE i # 1
  <2>1. i - 1 \in DOMAIN Tail(q) /\ (i - 1) + 1 = i
    BY <1>1, <1>2, <1>3
  <2> QED
    BY <1>2, <2>1
<1> QED
  BY <1>1, <1>3

LEMMA WaitStep ==
  PoolTypeOK /\ TypeOK /\ RefusedIsInvalid /\ OrphansWait /\ [PoolNext]_allVars => OrphansWait'
<1> SUFFICES ASSUME PoolTypeOK, TypeOK, RefusedIsInvalid, OrphansWait, [PoolNext]_allVars, ~desynced',
                    NEW c \in mapOrphanBlocks', Known(Prev[c])', ValidChain(Prev[c])'
             PROVE  Prev[c] = accepting' \/ Queued(Prev[c])'
  BY DEF OrphansWait
<1> USE DEF pool, stakes, call
<1>a. ~desynced
  BY DesyncedStays, PoolStepIsChainStep
<1>b. ValidChain(Prev[c])
  BY DEF ValidChain, CheckHardened
<1>c. UNCHANGED vWorkQueue => (Queued(Prev[c]) => Queued(Prev[c])')
  BY DEF Queued
<1>d. ASSUME c \in mapOrphanBlocks, Known(Prev[c]) PROVE Prev[c] = accepting \/ Queued(Prev[c])
  BY <1>a, <1>b, <1>d DEF OrphansWait
<1>e. ASSUME mapOrphanBlocks' \subseteq mapOrphanBlocks, mapBlockIndex' = mapBlockIndex,
             UNCHANGED <<accepting, vWorkQueue>>
      PROVE  Prev[c] = accepting' \/ Queued(Prev[c])'
  BY <1>c, <1>d, <1>e DEF Known
<1>f. ASSUME NEW b \in Block, BeginAccept(b), accepting = NoBlock,
             UNCHANGED <<mapOrphanBlocks, vWorkQueue>>
      PROVE  Prev[c] = accepting' \/ Queued(Prev[c])'
  <2>1. mapBlockIndex' = mapBlockIndex \cup {b} /\ accepting' = b
    BY <1>f DEF BeginAccept, AcceptBlock
  <2>2. CASE Known(Prev[c])
    <3>1. Prev[c] # NoBlock
      BY <2>2, BlockAssumption DEF Known, TypeOK
    <3> QED
      BY <1>c, <1>d, <1>f, <2>2, <3>1
  <2>3. CASE Prev[c] = b
    BY <2>1, <2>3
  <2> QED
    BY <2>1, <2>2, <2>3 DEF Known
<1>1. ASSUME NEW t \in Tips, HandleVersion(t) \/ HandleInv(t)
      PROVE  Prev[c] = accepting' \/ Queued(Prev[c])'
  BY <1>1, <1>e DEF HandleVersion, HandleInv, vars, index
<1>2. ASSUME NEW b \in Block, LoseRequest(b) \/ ReceiveRefused(b)
      PROVE  Prev[c] = accepting' \/ Queued(Prev[c])'
  BY <1>2, <1>e DEF LoseRequest, ReceiveRefused, vars, index
<1>3. ASSUME NEW b \in Block, ReceiveOrphan(b) PROVE Prev[c] = accepting' \/ Queued(Prev[c])'
  <2>1. /\ mapOrphanBlocks' = mapOrphanBlocks \cup {b} /\ ~Known(Prev[b])
        /\ UNCHANGED <<mapBlockIndex, accepting, vWorkQueue>>
    BY <1>3 DEF ReceiveOrphan, vars, index
  <2>2. Known(Prev[c])
    BY <2>1 DEF Known
  <2>3. c \in mapOrphanBlocks
    BY <2>1, <2>2
  <2> QED
    BY <1>c, <1>d, <2>1, <2>2, <2>3
<1>4. ASSUME NEW b \in Block, ReceiveChild(b) PROVE Prev[c] = accepting' \/ Queued(Prev[c])'
  BY <1>4, <1>f DEF ReceiveChild, Ready
<1>5. CASE AcceptReturns
  <2>1. /\ vWorkQueue = << >> /\ accepting # NoBlock /\ UNCHANGED <<mapOrphanBlocks, mapBlockIndex>>
        /\ vWorkQueue' = IF accepted THEN <<accepting>> ELSE << >>
    BY <1>5 DEF AcceptReturns, vars, index
  <2>2. Prev[c] = accepting
    BY <1>d, <2>1 DEF Known, Queued
  <2>3. accepted
    BY <1>a, <1>b, <2>1, <2>2 DEF RefusedIsInvalid
  <2> QED
    BY <2>1, <2>2, <2>3 DEF Queued
<1>6. ASSUME NEW b \in Block, TakeOrphan(b) PROVE Prev[c] = accepting' \/ Queued(Prev[c])'
  <2>1. CASE BeginAccept(b) /\ UNCHANGED <<mapOrphanBlocks, setStakeSeenOrphan>>
    BY <1>6, <1>f, <2>1 DEF TakeOrphan
  <2>2. CASE Forget(b) /\ UNCHANGED <<vars, setStakeSeen, call>>
    BY <1>6, <1>e, <2>2 DEF TakeOrphan, Forget, vars, index
  <2> QED
    BY <1>6, <2>1, <2>2 DEF TakeOrphan
<1>7. CASE OrphanReturns
  <2>1. /\ mapOrphanBlocks' = mapOrphanBlocks \ {accepting} /\ UNCHANGED mapBlockIndex
        /\ vWorkQueue' = IF accepted THEN Append(vWorkQueue, accepting) ELSE vWorkQueue
        /\ accepting # NoBlock
    BY <1>7 DEF OrphanReturns, Forget, vars, index
  <2>2. Prev[c] = accepting \/ Queued(Prev[c])
    BY <1>d, <2>1 DEF Known
  <2>3. vWorkQueue \in Seq(mapBlockIndex) /\ accepting \in mapBlockIndex
    BY <2>1 DEF PoolTypeOK
  <2>4. CASE accepted
    BY <2>1, <2>2, <2>3, <2>4, QueueGrows DEF Queued
  <2>5. CASE ~accepted
    BY <1>a, <1>b, <1>c, <2>1, <2>2, <2>5 DEF RefusedIsInvalid
  <2> QED
    BY <2>4, <2>5
<1>8. CASE NextHash
  <2>1. /\ vWorkQueue # << >> /\ vWorkQueue' = Tail(vWorkQueue) /\ accepting = NoBlock
        /\ UNCHANGED <<mapOrphanBlocks, mapBlockIndex, accepting>>
        /\ Prev[c] # Head(vWorkQueue)
    BY <1>8 DEF NextHash, ChildrenTaken, vars, index
  <2>2. vWorkQueue \in Seq(mapBlockIndex)
    BY DEF PoolTypeOK
  <2>3. Prev[c] = accepting \/ Queued(Prev[c])
    BY <1>d, <2>1 DEF Known
  <2> QED
    BY <2>1, <2>2, <2>3, QueueShrinks DEF Queued
<1>9. CASE ChainStep
  <2>1. UNCHANGED mapBlockIndex
    BY <1>9, StepKeepsIndex DEF ChainStep
  <2> QED
    BY <1>9, <1>e, <2>1 DEF ChainStep
<1>10. ASSUME NEW b \in Block, ReceiveSyncCheckpoint(b)
       PROVE  Prev[c] = accepting' \/ Queued(Prev[c])'
  BY <1>10, <1>e DEF ReceiveSyncCheckpoint, ProcessSyncCheckpoint, index
<1>11. CASE CrashNode
  BY <1>11 DEF CrashNode
<1>12. CASE UNCHANGED allVars
  BY <1>12, <1>e DEF allVars, poolVars, vars, index
<1> QED
  BY <1>1, <1>2, <1>3, <1>4, <1>5, <1>6, <1>7, <1>8, <1>9, <1>10, <1>11, <1>12
  DEF PoolNext, ProcessBlockStep

(***************************************************************************)
(* An orphan whose parent is there waits only for a chain that was found   *)
(* invalid: with a storage that does not fail, for any blocks in any order *)
(* and after crashes and reorganizes, the loop over the orphans misses no  *)
(* orphan that could be taken (ProcessBlock).                              *)
(***************************************************************************)
THEOREM NoOrphanIsForgotten ==
  ASSUME MaxFaults = 0, RefusedAtParent
  PROVE  PoolSpec => [](desynced \/ NoOrphanForgotten)
<1> DEFINE Right == CallWorksOnIt /\ RefusedIsInvalid /\ OrphansWait
<1>1. PoolInit => Right
  BY DEF PoolInit, Init, CallWorksOnIt, RefusedIsInvalid, OrphansWait
<1>2. /\ TypeOK /\ WorksTowardGoal /\ IndexFollowsChain /\ PoolTypeOK /\ Right
      /\ [PoolNext]_allVars
      => Right'
  BY CallStep, RefusedStep, WaitStep
<1>3. Right /\ TypeOK => desynced \/ NoOrphanForgotten
  <2> SUFFICES ASSUME Right, TypeOK, ~desynced, Ready, NEW c \in mapOrphanBlocks, Known(Prev[c])
               PROVE  ~ValidChain(Prev[c])
    BY DEF NoOrphanForgotten
  <2>1. ~ValidChain(Prev[c]) \/ Prev[c] = accepting \/ Queued(Prev[c])
    BY DEF OrphansWait
  <2>2. accepting = NoBlock /\ vWorkQueue = << >>
    BY DEF Ready
  <2>3. ~Queued(Prev[c])
    BY <2>2 DEF Queued
  <2>4. Prev[c] # NoBlock
    BY BlockAssumption DEF Known, TypeOK
  <2> QED
    BY <2>1, <2>2, <2>3, <2>4
<1> HIDE DEF Right
<1>4. PoolSpec => [](TypeOK /\ WorksTowardGoal)
  BY PoolImplementsChain, TypeCorrect, PTL
<1>5. PoolSpec => []IndexFollowsChain
  BY PoolImplementsChain, IndexFollowsAlways, PTL
<1> QED
  BY <1>1, <1>2, <1>3, <1>4, <1>5, PoolTypeCorrect, PTL DEF PoolSpec

=============================================================================
