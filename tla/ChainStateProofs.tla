-------------------------- MODULE ChainStateProofs --------------------------
(***************************************************************************)
(* Invariants of ChainState, for every block tree and every bound: types,  *)
(* the transaction index, the best chain, and the forward pointers         *)
(* (CBlockIndex::pnext and the hashNext of the "blockindex" records).      *)
(* Then its steps: the synchronized checkpoint moves only to its           *)
(* descendants and stays on the best chain, and the committed best chain   *)
(* moves only to more trust when blocks are received.                      *)
(***************************************************************************)
EXTENDS ChainState, TxIndexProofs

-----------------------------------------------------------------------------
(***************************************************************************)
(* The operators of ChainState choose what they are meant to choose.       *)
(***************************************************************************)
LEMMA TowardOnChain ==
  ASSUME NEW g \in Block, NEW a \in Chain[g], a # g
  PROVE  /\ Toward(a, g) \in Chain[g] \ {Genesis}
         /\ Prev[Toward(a, g)] = a
<1>1. \E b \in Chain[g] : Prev[b] = a
  BY ChildOnChain
<1>2. Toward(a, g) \in Chain[g] /\ Prev[Toward(a, g)] = a
  BY <1>1 DEF Toward
<1>3. a # NoBlock
  BY ChainEnds, BlockAssumption
<1> QED
  BY <1>2, <1>3, BlockAssumption

LEMMA IntermediateOnChain ==
  ASSUME NEW g \in Block, pindexBest \in Block
  PROVE  /\ Intermediate(g) \in Chain[g]
         /\ Intermediate(g) = g \/ ChainTrust[Intermediate(g)] > ChainTrust[pindexBest]
<1> DEFINE S == {a \in Chain[g] : a = g \/ ChainTrust[a] > ChainTrust[pindexBest]}
<1>1. Chain[g] \subseteq Block /\ g \in Chain[g]
  BY ChainEnds
<1>2. PICK a \in S : \A c \in S : Height[a] <= Height[c]
  BY <1>1, LowestBlock
<1>3. a = Genesis \/ ChainTrust[Prev[a]] <= ChainTrust[pindexBest]
  <2>1. CASE a # Genesis
    <3>1. a \in Block /\ Prev[a] \in Block /\ Height[Prev[a]] < Height[a]
      BY <1>1, <1>2, <2>1, BlockAssumption
    <3>2. Prev[a] \in Chain[g]
      BY <1>2, <2>1, ParentOnChain
    <3>3. Prev[a] \notin S
      BY <1>2, <3>1, BlockAssumption
    <3> QED
      BY <3>1, <3>2, <3>3, BlockAssumption
  <2> QED
    BY <2>1
<1>4. \E x \in Chain[g] :
        /\ x = g \/ ChainTrust[x] > ChainTrust[pindexBest]
        /\ x = Genesis \/ ChainTrust[Prev[x]] <= ChainTrust[pindexBest]
  BY <1>2, <1>3
<1> QED
  BY <1>4 DEF Intermediate

LEMMA LastHardenedInMainChainExists ==
  ASSUME HardenedInMainChain # {}
  PROVE  LastHardenedInMainChain \in HardenedInMainChain
<1> DEFINE H == HardenedInMainChain
           T == {Height[LastHardened] - Height[h] : h \in H}
<1>1. H \subseteq Hardened /\ H \subseteq Block /\ LastHardened \in Block
  BY CheckpointAssumption DEF HardenedInMainChain
<1>2. T \subseteq Nat /\ T # {}
  BY <1>1, CheckpointAssumption, BlockAssumption
<1>3. PICK x \in T : \A y \in T : x <= y
  BY <1>2, LeastNatural
<1>4. PICK h \in H : x = Height[LastHardened] - Height[h]
  BY <1>3
<1>5. \A g \in H : Height[g] <= Height[h]
  <2> TAKE g \in H
  <2>1. Height[LastHardened] - Height[h] <= Height[LastHardened] - Height[g]
    BY <1>3, <1>4
  <2> QED
    BY <1>1, <1>4, <2>1, BlockAssumption
<1> QED
  BY <1>4, <1>5 DEF LastHardenedInMainChain

LEMMA IndexTypes ==
  ASSUME NEW b \in Block, NEW ix \in Index
  PROVE  ConnectBlock(b, ix) \in Index /\ DisconnectBlock(b, ix) \in Index
  BY DEF Index, ConnectBlock, DisconnectBlock

LEMMA PointerTypes ==
  ASSUME NEW next \in [Block -> BlockOrNone], pnext \in [Block -> BlockOrNone],
         NEW b \in Block, NEW c \in Block
  PROVE  /\ Linked(next, b) \in [Block -> BlockOrNone]
         /\ Unlinked(next, b) \in [Block -> BlockOrNone]
         /\ WriteNext(next, b) \in [Block -> BlockOrNone]
         /\ Relinked(next, b, c) \in [Block -> BlockOrNone]
<1>1. Relinked(next, b, c) \in [Block -> BlockOrNone]
  <2>1. Chain[c] \subseteq Block
    BY ChainEnds
  <2>2. ASSUME NEW a \in Block
        PROVE  Relinked(next, b, c)[a] \in BlockOrNone
    BY <2>1 DEF Relinked, BlockOrNone
  <2> QED
    BY <2>2 DEF Relinked
<1>2. Linked(next, b) \in [Block -> BlockOrNone] /\ Unlinked(next, b) \in [Block -> BlockOrNone]
  BY DEF Linked, Unlinked, BlockOrNone
<1>3. WriteNext(next, b) \in [Block -> BlockOrNone]
  BY DEF WriteNext, Linked, BlockOrNone
<1> QED
  BY <1>1, <1>2, <1>3

-----------------------------------------------------------------------------
(***************************************************************************)
(* Type correctness.                                                       *)
(***************************************************************************)
\* While SetBestChain works, it moves along the chain of its goal.
WorksTowardGoal ==
    /\ pc = "reorg" => mid \in Chain[goal]
    /\ pc = "secondary" => cur \in Chain[goal]

LEMMA IndexedChains ==
  ASSUME TypeOK, NEW g \in mapBlockIndex
  PROVE  Chain[g] \subseteq mapBlockIndex
<1> mapBlockIndex \subseteq Block /\ \A b \in mapBlockIndex \ {Genesis} : Prev[b] \in mapBlockIndex
  BY DEF TypeOK
<1> QED
  BY ClosedUnderPrev

LEMMA FailureTypes ==
  ASSUME TypeOK
  PROVE  /\ UNCHANGED bounds \/ Fault => crashes' \in 0 .. MaxCrashes /\ faults' \in 0 .. MaxFaults
         /\ \A b \in Block : InvalidChainFound(b) => bnBestInvalidTrust' \in Nat
<1>1. UNCHANGED bounds \/ Fault => crashes' \in 0 .. MaxCrashes /\ faults' \in 0 .. MaxFaults
  BY CheckpointAssumption DEF TypeOK, bounds, Fault
<1>2. \A b \in Block : InvalidChainFound(b) => bnBestInvalidTrust' \in Nat
  BY BlockAssumption DEF TypeOK, InvalidChainFound
<1> QED
  BY <1>1, <1>2

LEMMA TypeInit == Init => TypeOK /\ WorksTowardGoal
<1> SUFFICES ASSUME Init PROVE TypeOK /\ WorksTowardGoal
  OBVIOUS
<1>1. NoIndex \in Index
  BY DEF NoIndex, Index
<1>2. dbTx \in Index
  BY <1>1, IndexTypes, BlockAssumption DEF Init
<1>3. 0 \in 0 .. MaxRekeys /\ 0 \in 0 .. MaxCrashes /\ 0 \in 0 .. MaxFaults
  BY CheckpointAssumption
<1>4. LastHardened \in Block /\ Genesis \in Block
  BY CheckpointAssumption, BlockAssumption
<1>5. pnext \in [Block -> BlockOrNone]
  BY DEF Init, BlockOrNone
<1> QED
  BY <1>2, <1>3, <1>4, <1>5 DEF Init, TypeOK, WorksTowardGoal, BlockOrNone, Labels

LEMMA TypeStep == TypeOK /\ WorksTowardGoal /\ [Next]_vars => TypeOK'
<1> SUFFICES ASSUME TypeOK, WorksTowardGoal, [Next]_vars PROVE TypeOK'
  OBVIOUS
<1> USE DEF index, best, pending, keys, db, txn, control, bounds, history, Labels
<1>1. ASSUME NEW b \in Block, AcceptBlock(b) PROVE TypeOK'
  BY <1>1, BlockAssumption DEF TypeOK, AcceptBlock, Accepts, Call, Goto, Known
<1>2. ASSUME NEW b \in Block, ProcessSyncCheckpoint(b) PROVE TypeOK'
  BY <1>2 DEF TypeOK, ProcessSyncCheckpoint, Known, NoteConflict, Enforce, Call, Write,
              BlockOrNone
<1>3. CASE ExtendBestChain
  <2>1. goal \in Block /\ ConnectBlock(goal, dbTx) \in Index
    BY IndexTypes DEF TypeOK
  <2>2. /\ WriteNext(dbNext, goal) \in [Block -> BlockOrNone]
        /\ Linked(pnext, goal) \in [Block -> BlockOrNone]
    BY <2>1, PointerTypes DEF TypeOK
  <2> QED
    BY <1>3, <2>1, <2>2 DEF TypeOK, ExtendBestChain, TxnCommit, Succeed, Goto
<1>4. CASE SetBestChainFails
  <2>1. /\ crashes' \in 0 .. MaxCrashes /\ faults' \in 0 .. MaxFaults
        /\ bnBestInvalidTrust' \in Nat
    <3>1. goal \in Block /\ bnBestInvalidTrust \in Nat
      BY DEF TypeOK
    <3> QED
      BY <1>4, <3>1, FailureTypes DEF SetBestChainFails
  <2> QED
    BY <1>4, <2>1 DEF TypeOK, SetBestChainFails, Fail, AfterFailure, Goto, BlockOrNone
<1>5. CASE StartReorganize
  <2>1. goal \in Block /\ pindexBest \in Block
    BY DEF TypeOK
  <2>2. Intermediate(goal) \in mapBlockIndex
    BY <2>1, IntermediateOnChain, IndexedChains DEF TypeOK
  <2> QED
    BY <1>5, <2>2 DEF TypeOK, StartReorganize, TxnBegin
<1>6. CASE DisconnectStep
  <2>1. cur \in Block /\ mid \in Block /\ DisconnectBlock(cur, txnTx) \in Index
    BY IndexTypes DEF TypeOK
  <2>2. cur # Genesis
    BY <1>6, <2>1, ChainEnds DEF DisconnectStep
  <2>3. Unlinked(txnNext, cur) \in [Block -> BlockOrNone]
    BY <2>1, PointerTypes DEF TypeOK
  <2> QED
    BY <1>6, <2>1, <2>2, <2>3 DEF TypeOK, DisconnectStep
<1>7. CASE ConnectStep
  <2> DEFINE b == Toward(cur, mid)
  <2>1. mid \in Block /\ cur \in Chain[mid] /\ cur # mid
    BY <1>7 DEF TypeOK, ConnectStep
  <2>2. b \in mapBlockIndex /\ b \in Block
    BY <2>1, TowardOnChain, IndexedChains DEF TypeOK
  <2>3. ConnectBlock(b, txnTx) \in Index
    BY <2>2, IndexTypes DEF TypeOK
  <2>4. WriteNext(txnNext, b) \in [Block -> BlockOrNone]
    BY <2>2, PointerTypes DEF TypeOK
  <2> HIDE DEF b
  <2>5. txnTx' = ConnectBlock(b, txnTx) /\ txnNext' = WriteNext(txnNext, b) /\ cur' = b
    BY <1>7 DEF ConnectStep, b
  <2> QED
    BY <1>7, <2>2, <2>3, <2>4, <2>5 DEF TypeOK, ConnectStep
<1>8. CASE ReorganizeFails
  <2>1. /\ crashes' \in 0 .. MaxCrashes /\ faults' \in 0 .. MaxFaults
        /\ bnBestInvalidTrust' \in Nat
    <3>1. goal \in Block
      BY DEF TypeOK
    <3> QED
      BY <1>8, <3>1, FailureTypes DEF ReorganizeFails
  <2> QED
    BY <1>8, <2>1 DEF TypeOK, ReorganizeFails, Fail, AfterFailure, Goto, BlockOrNone, TxnAbort
<1>9. CASE CommitReorganize
  <2>1. Relinked(pnext, pindexBest, mid) \in [Block -> BlockOrNone]
    BY PointerTypes DEF TypeOK
  <2> QED
    BY <1>9, <2>1 DEF TypeOK, CommitReorganize, TxnCommit, Goto
<1>10. CASE ConnectSecondary
  <2> DEFINE b == Toward(cur, goal)
  <2>1. goal \in Block /\ cur # goal /\ cur \in Chain[goal]
    BY <1>10 DEF TypeOK, ConnectSecondary, WorksTowardGoal
  <2>2. b \in mapBlockIndex /\ b \in Block
    BY <2>1, TowardOnChain, IndexedChains DEF TypeOK
  <2>3. ConnectBlock(b, dbTx) \in Index
    BY <2>2, IndexTypes DEF TypeOK
  <2>4. WriteNext(dbNext, b) \in [Block -> BlockOrNone] /\ Linked(pnext, b) \in [Block -> BlockOrNone]
    BY <2>2, PointerTypes DEF TypeOK
  <2> HIDE DEF b
  <2>5. /\ TxnCommit(b, ConnectBlock(b, dbTx), WriteNext(dbNext, b))
        /\ pnext' = Linked(pnext, b) /\ cur' = b
    BY <1>10 DEF ConnectSecondary, b
  <2> QED
    BY <1>10, <2>2, <2>3, <2>4, <2>5 DEF TypeOK, ConnectSecondary, TxnCommit
<1>11. CASE SecondaryFails
  <2>1. goal \in Block /\ cur # goal /\ cur \in Chain[goal] /\ bnBestInvalidTrust \in Nat
    BY <1>11 DEF TypeOK, SecondaryFails, WorksTowardGoal
  <2>2. Toward(cur, goal) \in Block
    BY <2>1, TowardOnChain, ChainEnds
  <2>3. /\ crashes' \in 0 .. MaxCrashes /\ faults' \in 0 .. MaxFaults
        /\ bnBestInvalidTrust' \in Nat
    BY <1>11, <2>1, <2>2, FailureTypes DEF SecondaryFails
  <2> QED
    BY <1>11, <2>3 DEF TypeOK, SecondaryFails, Succeed, Goto
<1>12. CASE FinishSetBestChain
  BY <1>12 DEF TypeOK, FinishSetBestChain, Succeed, Goto
<1>13. CASE AcceptPendingSyncCheckpoint
  BY <1>13, CheckpointAssumption DEF TypeOK, AcceptPendingSyncCheckpoint, Known, NoteConflict, Enforce, Call, Write,
               Goto, Fault, BlockOrNone
<1>14. CASE WriteSyncCheckpoint
  BY <1>14, LastHardenedInMainChainExists
  DEF TypeOK, WriteSyncCheckpoint, HardenedInMainChain, Known, Goto, BlockOrNone
<1>15. CASE WriteSyncCheckpointFails
  BY <1>15, CheckpointAssumption DEF TypeOK, WriteSyncCheckpointFails, Goto, Fault
<1>16. CASE ResetSyncCheckpoint
  BY <1>16, CheckpointAssumption
  DEF TypeOK, ResetSyncCheckpoint, Known, Enforce, Call, Write, Goto, Fault, BlockOrNone
<1>17. CASE LoadBlockIndex
  <2>1. Chain[dbBest] \subseteq mapBlockIndex
    BY IndexedChains DEF TypeOK
  <2>2. strMasterPubKey .. MaxRekeys \subseteq 0 .. MaxRekeys
    BY CheckpointAssumption DEF TypeOK
  <2> QED
    BY <1>17, <2>1, <2>2 DEF TypeOK, LoadBlockIndex, Call, Goto, BlockOrNone
<1>18. CASE CheckMasterKey
  BY <1>18, CheckpointAssumption DEF TypeOK, CheckMasterKey, Goto, Fault
<1>19. CASE Crash
  BY <1>19, CheckpointAssumption DEF TypeOK, Crash, Goto, TxnAbort
<1>20. CASE UNCHANGED vars
  BY <1>20 DEF TypeOK, vars
<1> QED
  BY <1>1, <1>2, <1>3, <1>4, <1>5, <1>6, <1>7, <1>8, <1>9, <1>10, <1>11, <1>12, <1>13,
     <1>14, <1>15, <1>16, <1>17, <1>18, <1>19, <1>20 DEF Next, Step

LEMMA WorkStep == TypeOK /\ WorksTowardGoal /\ [Next]_vars => WorksTowardGoal'
<1> SUFFICES ASSUME TypeOK, WorksTowardGoal, [Next]_vars PROVE WorksTowardGoal'
  OBVIOUS
<1> USE DEF WorksTowardGoal
<1>1. ASSUME NEW b \in Block, AcceptBlock(b) PROVE WorksTowardGoal'
  BY <1>1 DEF AcceptBlock, Call, Goto
<1>2. ASSUME NEW b \in Block, ProcessSyncCheckpoint(b) PROVE WorksTowardGoal'
  BY <1>2 DEF ProcessSyncCheckpoint, Enforce, Call, Write, control
<1>3. CASE ExtendBestChain
  BY <1>3 DEF ExtendBestChain, Succeed, Goto
<1>4. CASE SetBestChainFails
  BY <1>4 DEF SetBestChainFails, Fail, AfterFailure, Goto
<1>5. CASE StartReorganize
  <2>1. goal \in Block /\ pindexBest \in Block
    BY DEF TypeOK
  <2> QED
    BY <1>5, <2>1, IntermediateOnChain DEF StartReorganize
<1>6. CASE DisconnectStep
  BY <1>6 DEF DisconnectStep
<1>7. CASE ConnectStep
  BY <1>7 DEF ConnectStep
<1>8. CASE ReorganizeFails
  BY <1>8 DEF ReorganizeFails, Fail, AfterFailure, Goto
<1>9. CASE CommitReorganize
  BY <1>9 DEF CommitReorganize, Goto
<1>10. CASE ConnectSecondary
  <2>1. goal \in Block /\ cur # goal /\ cur \in Chain[goal]
    BY <1>10 DEF TypeOK, ConnectSecondary
  <2>2. cur' = Toward(cur, goal) /\ goal' = goal /\ pc' = pc
    BY <1>10 DEF ConnectSecondary
  <2> QED
    BY <1>10, <2>1, <2>2, TowardOnChain DEF ConnectSecondary
<1>11. CASE SecondaryFails
  BY <1>11 DEF SecondaryFails, Succeed, Goto
<1>12. CASE FinishSetBestChain
  BY <1>12 DEF FinishSetBestChain, Succeed, Goto
<1>13. CASE AcceptPendingSyncCheckpoint
  BY <1>13 DEF AcceptPendingSyncCheckpoint, Enforce, Call, Write, Goto
<1>14. CASE WriteSyncCheckpoint
  BY <1>14 DEF WriteSyncCheckpoint, Goto
<1>15. CASE WriteSyncCheckpointFails
  BY <1>15 DEF WriteSyncCheckpointFails, Goto
<1>16. CASE ResetSyncCheckpoint
  BY <1>16 DEF ResetSyncCheckpoint, Enforce, Call, Write, Goto
<1>17. CASE LoadBlockIndex
  BY <1>17 DEF LoadBlockIndex, Call, Goto
<1>18. CASE CheckMasterKey
  BY <1>18 DEF CheckMasterKey, Goto
<1>19. CASE Crash
  BY <1>19 DEF Crash, Goto
<1>20. CASE UNCHANGED vars
  BY <1>20 DEF vars, control
<1> QED
  BY <1>1, <1>2, <1>3, <1>4, <1>5, <1>6, <1>7, <1>8, <1>9, <1>10, <1>11, <1>12, <1>13,
     <1>14, <1>15, <1>16, <1>17, <1>18, <1>19, <1>20 DEF Next, Step

\* Every reachable state of the node has the types TypeOK gives, on any block tree.
THEOREM TypeCorrect == Spec => [](TypeOK /\ WorksTowardGoal)
  BY TypeInit, TypeStep, WorkStep, PTL DEF Spec

\* What every step of the chain leaves as it is.
LEMMA StepKeepsIndex == Step => UNCHANGED mapBlockIndex
BY DEF Step, ExtendBestChain, SetBestChainFails, StartReorganize, DisconnectStep,
   ConnectStep, ReorganizeFails, CommitReorganize, ConnectSecondary, SecondaryFails,
   FinishSetBestChain, AcceptPendingSyncCheckpoint, WriteSyncCheckpoint,
   WriteSyncCheckpointFails, ResetSyncCheckpoint, LoadBlockIndex, CheckMasterKey, Fail, index

LEMMA IndexOnlyGrows == [Next]_vars => mapBlockIndex \subseteq mapBlockIndex'
<1> SUFFICES ASSUME [Next]_vars PROVE mapBlockIndex \subseteq mapBlockIndex'
  OBVIOUS
<1>1. ASSUME NEW b \in Block, AcceptBlock(b) \/ ProcessSyncCheckpoint(b)
      PROVE  mapBlockIndex \subseteq mapBlockIndex'
  BY <1>1 DEF AcceptBlock, ProcessSyncCheckpoint, index
<1> QED
  BY <1>1, StepKeepsIndex DEF Next, Crash, vars, index

LEMMA DesyncedStays == [Next]_vars /\ ~desynced' => ~desynced
<1> SUFFICES ASSUME [Next]_vars, ~desynced' PROVE ~desynced
  OBVIOUS
<1>1. ASSUME NEW b \in Block, AcceptBlock(b) \/ ProcessSyncCheckpoint(b) PROVE ~desynced
  BY <1>1 DEF AcceptBlock, ProcessSyncCheckpoint, history
<1>2. CASE Step
  BY <1>2 DEF Step, ExtendBestChain, SetBestChainFails, StartReorganize, DisconnectStep,
     ConnectStep, ReorganizeFails, CommitReorganize, ConnectSecondary, SecondaryFails,
     FinishSetBestChain, AcceptPendingSyncCheckpoint, WriteSyncCheckpoint,
     WriteSyncCheckpointFails, ResetSyncCheckpoint, LoadBlockIndex, CheckMasterKey, history
<1> QED
  BY <1>1, <1>2 DEF Next, Crash, vars, history

-----------------------------------------------------------------------------
(***************************************************************************)
(* The transaction index follows the best chain.                           *)
(***************************************************************************)
\* ix is the index of the chain that ends in tip, and that chain is sound.
Follows(ix, tip) == ix = IndexOf(tip) /\ SoundChain(tip)

(***************************************************************************)
(* What AcceptBlock checked of every indexed block: ConnectsRepeatsNothing *)
(* rests on it, BIP30 alone would not do.                                  *)
(***************************************************************************)
HeightsAreInCoinbases == \A b \in mapBlockIndex : CoinbaseHeight[Vtx[b][1]] = Height[b]

(***************************************************************************)
(* The committed index follows the committed best block, and the index in  *)
(* the open transaction follows cur, the block the transaction has got to. *)
(***************************************************************************)
IndexFollowsChain ==
    /\ HeightsAreInCoinbases
    /\ \/ desynced
       \/ /\ Follows(dbTx, dbBest)
          /\ pc \notin {"down", "secondary"} => pindexBest = dbBest
          /\ pc = "reorg" => Follows(txnTx, cur)
          /\ pc = "secondary" => cur = dbBest

LEMMA IndexedHeights ==
  ASSUME TypeOK, HeightsAreInCoinbases, NEW b \in mapBlockIndex
  PROVE  HeightInCoinbases(b)
  BY IndexedChains DEF HeightsAreInCoinbases, HeightInCoinbases

\* ConnectBlockIsCorrect and DisconnectBlockIsCorrect for an index that follows.
LEMMA ConnectFollows ==
  ASSUME TypeOK, HeightsAreInCoinbases, NEW b \in mapBlockIndex \ {Genesis}, NEW ix, NEW tip,
         Follows(ix, Prev[b]), Connects(b, ix, tip)
  PROVE  Follows(ConnectBlock(b, ix), b)
<1>1. b \in Block \ {Genesis}
  BY DEF TypeOK
<1> QED
  BY <1>1, IndexedHeights, ConnectBlockIsCorrect DEF Follows

LEMMA DisconnectFollows ==
  ASSUME NEW b \in Block \ {Genesis}, NEW ix, Follows(ix, b)
  PROVE  Follows(DisconnectBlock(b, ix), Prev[b])
  BY DisconnectBlockIsCorrect DEF Follows

LEMMA IndexFollowsInit == Init => IndexFollowsChain
<1> SUFFICES ASSUME Init PROVE IndexFollowsChain
  OBVIOUS
<1>1. Follows(dbTx, dbBest)
  BY GenesisIndex DEF Init, Follows
<1> QED
  BY <1>1, BlockAssumption, TxAssumption
  DEF Init, IndexFollowsChain, HeightsAreInCoinbases

LEMMA IndexFollowsStep ==
  TypeOK /\ WorksTowardGoal /\ IndexFollowsChain /\ [Next]_vars => IndexFollowsChain'
<1> SUFFICES ASSUME TypeOK, WorksTowardGoal, IndexFollowsChain, [Next]_vars
             PROVE  IndexFollowsChain'
  OBVIOUS
<1> USE DEF IndexFollowsChain, index, best, pending, keys, db, txn, control, bounds, history
<1>a. ASSUME UNCHANGED mapBlockIndex PROVE HeightsAreInCoinbases'
  BY <1>a DEF HeightsAreInCoinbases
<1>b. ASSUME UNCHANGED <<dbTx, dbBest>> PROVE Follows(dbTx, dbBest) => Follows(dbTx, dbBest)'
  BY <1>b DEF Follows
<1>1. ASSUME NEW b \in Block, AcceptBlock(b) PROVE IndexFollowsChain'
  <2>1. HeightsAreInCoinbases'
    BY <1>1 DEF AcceptBlock, Accepts, HeightsAreInCoinbases
  <2> QED
    BY <1>1, <1>b, <2>1 DEF AcceptBlock, Call, Goto
<1>2. ASSUME NEW b \in Block, ProcessSyncCheckpoint(b) PROVE IndexFollowsChain'
  BY <1>2, <1>a, <1>b DEF ProcessSyncCheckpoint, Enforce, Call, Write
<1>3. CASE ExtendBestChain
  <2>1. goal \in mapBlockIndex \ {Genesis}
    BY <1>3, BlockAssumption DEF TypeOK, ExtendBestChain
  <2>2. ~desynced => Follows(ConnectBlock(goal, dbTx), goal)
    BY <1>3, <2>1, ConnectFollows DEF ExtendBestChain
  <2>3. dbTx' = ConnectBlock(goal, dbTx) /\ dbBest' = goal /\ pindexBest' = goal
        /\ desynced' = desynced /\ UNCHANGED mapBlockIndex
        /\ pc' \in {"pending", "keycheck", "writesync"}
    BY <1>3 DEF ExtendBestChain, TxnCommit, Succeed, Goto
  <2>4. ~desynced => Follows(dbTx, dbBest)'
    BY <2>2, <2>3 DEF Follows
  <2> QED
    BY <1>a, <2>3, <2>4
<1>4. CASE SetBestChainFails
  BY <1>4, <1>a, <1>b DEF SetBestChainFails, Fail, AfterFailure, Goto
<1>5. CASE StartReorganize
  <2>1. ~desynced => Follows(txnTx, cur)'
    BY <1>5 DEF StartReorganize, TxnBegin, Follows
  <2> QED
    BY <1>5, <1>a, <1>b, <2>1 DEF StartReorganize
<1>6. CASE DisconnectStep
  <2>1. cur \in Block \ {Genesis}
    BY <1>6, ChainEnds DEF TypeOK, DisconnectStep
  <2>2. ~desynced => Follows(DisconnectBlock(cur, txnTx), Prev[cur])
    BY <1>6, <2>1, DisconnectFollows DEF DisconnectStep
  <2>3. txnTx' = DisconnectBlock(cur, txnTx) /\ cur' = Prev[cur]
    BY <1>6 DEF DisconnectStep
  <2>4. ~desynced => Follows(txnTx, cur)'
    BY <2>2, <2>3 DEF Follows
  <2> QED
    BY <1>6, <1>a, <1>b, <2>4 DEF DisconnectStep
<1>7. CASE ConnectStep
  <2> DEFINE b == Toward(cur, mid)
  <2>1. mid \in Block /\ cur \in Chain[mid] /\ cur # mid
    BY <1>7 DEF TypeOK, ConnectStep
  <2>2. b \in mapBlockIndex \ {Genesis} /\ Prev[b] = cur
    BY <2>1, TowardOnChain, IndexedChains DEF TypeOK
  <2>3. /\ Connects(b, txnTx, pindexBest)
        /\ txnTx' = ConnectBlock(b, txnTx) /\ cur' = b
    BY <1>7 DEF ConnectStep
  <2> HIDE DEF b
  <2>4. ~desynced => Follows(ConnectBlock(b, txnTx), b)
    BY <1>7, <2>2, <2>3, ConnectFollows DEF ConnectStep
  <2>5. ~desynced => Follows(txnTx, cur)'
    BY <2>3, <2>4 DEF Follows
  <2> QED
    BY <1>7, <1>a, <1>b, <2>5 DEF ConnectStep
<1>8. CASE ReorganizeFails
  BY <1>8, <1>a, <1>b DEF ReorganizeFails, Fail, AfterFailure, Goto, TxnAbort
<1>9. CASE CommitReorganize
  <2>1. ~desynced => Follows(txnTx, mid)
    BY <1>9 DEF CommitReorganize
  <2>2. dbTx' = txnTx /\ dbBest' = mid /\ cur' = mid /\ pc' = "secondary"
        /\ desynced' = desynced /\ UNCHANGED mapBlockIndex
    BY <1>9 DEF CommitReorganize, TxnCommit, Goto
  <2>3. ~desynced => Follows(dbTx, dbBest)'
    BY <2>1, <2>2 DEF Follows
  <2> QED
    BY <1>a, <2>2, <2>3
<1>10. CASE ConnectSecondary
  <2> DEFINE b == Toward(cur, goal)
  <2>1. goal \in Block /\ cur # goal /\ cur \in Chain[goal]
    BY <1>10 DEF TypeOK, ConnectSecondary, WorksTowardGoal
  <2>2. b \in mapBlockIndex \ {Genesis} /\ Prev[b] = cur
    BY <2>1, TowardOnChain, IndexedChains DEF TypeOK
  <2>3. Connects(b, dbTx, pindexBest)
    BY <1>10 DEF ConnectSecondary
  <2>4. /\ dbTx' = ConnectBlock(b, dbTx) /\ dbBest' = b /\ cur' = b
        /\ pc' = "secondary" /\ desynced' = desynced /\ UNCHANGED mapBlockIndex
    BY <1>10 DEF ConnectSecondary, TxnCommit
  <2> HIDE DEF b
  <2>5. ~desynced => Follows(ConnectBlock(b, dbTx), b)
    BY <1>10, <2>2, <2>3, ConnectFollows DEF ConnectSecondary
  <2>6. ~desynced => Follows(dbTx, dbBest)'
    BY <2>4, <2>5 DEF Follows
  <2> QED
    BY <1>a, <2>4, <2>6
<1>11. CASE SecondaryFails
  BY <1>11, <1>a DEF SecondaryFails
<1>12. CASE FinishSetBestChain
  BY <1>12, <1>a, <1>b DEF FinishSetBestChain, Succeed, Goto
<1>13. CASE AcceptPendingSyncCheckpoint
  BY <1>13, <1>a, <1>b DEF AcceptPendingSyncCheckpoint, Enforce, Call, Write, Goto
<1>14. CASE WriteSyncCheckpoint
  BY <1>14, <1>a, <1>b DEF WriteSyncCheckpoint, Goto
<1>15. CASE WriteSyncCheckpointFails
  BY <1>15, <1>a, <1>b DEF WriteSyncCheckpointFails, Goto
<1>16. CASE ResetSyncCheckpoint
  BY <1>16, <1>a, <1>b DEF ResetSyncCheckpoint, Enforce, Call, Write, Goto
<1>17. CASE LoadBlockIndex
  BY <1>17, <1>a, <1>b DEF LoadBlockIndex, Call, Goto
<1>18. CASE CheckMasterKey
  BY <1>18, <1>a, <1>b DEF CheckMasterKey, Goto
<1>19. CASE Crash
  BY <1>19, <1>a, <1>b DEF Crash, Goto, TxnAbort
<1>20. CASE UNCHANGED vars
  <2>1. Follows(txnTx, cur) => Follows(txnTx, cur)'
    BY <1>20 DEF vars, Follows
  <2> QED
    BY <1>20, <1>a, <1>b, <2>1 DEF vars
<1> QED
  BY <1>1, <1>2, <1>3, <1>4, <1>5, <1>6, <1>7, <1>8, <1>9, <1>10, <1>11, <1>12, <1>13,
     <1>14, <1>15, <1>16, <1>17, <1>18, <1>19, <1>20 DEF Next, Step

LEMMA IndexFollowsAlways == Spec => []IndexFollowsChain
  BY TypeInit, TypeStep, WorkStep, IndexFollowsInit, IndexFollowsStep, PTL DEF Spec

(***************************************************************************)
(* The committed transaction index is that of the committed best chain in  *)
(* every reachable state, on any block tree, with any crashes and faults,  *)
(* until a postponed connect has failed (SetBestChain, Reorganize).        *)
(***************************************************************************)
THEOREM IndexMatches == Spec => []TxIndexMatchesBestChain
<1>1. IndexFollowsChain => TxIndexMatchesBestChain
  BY DEF IndexFollowsChain, TxIndexMatchesBestChain, Follows
<1> QED
  BY <1>1, IndexFollowsAlways, PTL

(***************************************************************************)
(* The committed best chain spends nothing twice, repeats no transaction   *)
(* and spends only what was created before on the same chain, under the    *)
(* same conditions (ConnectBlock as it is called by SetBestChain).         *)
(***************************************************************************)
THEOREM BestChainSound == Spec => []BestChainIsSound
<1>1. IndexFollowsChain => BestChainIsSound
  BY DEF IndexFollowsChain, BestChainIsSound, Follows
<1> QED
  BY <1>1, IndexFollowsAlways, PTL

-----------------------------------------------------------------------------
(***************************************************************************)
(* What the operators on pointers do to the pointers of a chain.           *)
(***************************************************************************)
LEMMA TowardIsTheChild ==
  ASSUME NEW g \in Block, NEW b \in Chain[g] \ {Genesis}
  PROVE  /\ Prev[b] \in Chain[g] \ {g}
         /\ Toward(Prev[b], g) = b
<1>1. b \in Block /\ Prev[b] \in Block /\ Prev[b] \in Chain[g]
  BY ChainEnds, ParentOnChain, BlockAssumption
<1>2. Height[b] <= Height[g] /\ Height[Prev[b]] < Height[b]
  BY <1>1, Ancestors, BlockAssumption
<1>3. Prev[b] # g
  BY <1>1, <1>2, BlockAssumption
<1>4. Toward(Prev[b], g) \in Chain[g] \ {Genesis} /\ Prev[Toward(Prev[b], g)] = Prev[b]
  BY <1>1, <1>3, TowardOnChain
<1> QED
  BY <1>1, <1>3, <1>4, OneChildOnChain

LEMMA PointersOfParent ==
  ASSUME NEW b \in Block \ {Genesis}
  PROVE  /\ b \notin Chain[Prev[b]]
         /\ \A a \in Block : NextOf(b)[a] = IF a = Prev[b] THEN b ELSE NextOf(Prev[b])[a]
         /\ NextOf(Prev[b])[Prev[b]] = NoBlock
         /\ NextOf(Prev[b])[b] = NoBlock
<1> DEFINE p == Prev[b]
<1>1. /\ p \in Block /\ Chain[b] = Chain[p] \cup {b} /\ b \in Chain[b]
      /\ Height[b] = Height[p] + 1 /\ Height[p] \in Nat
  BY BlockAssumption
<1>2. b \notin Chain[p]
  BY <1>1, Ancestors
<1>3. Toward(p, b) = b
  BY <1>1, TowardIsTheChild
<1>4. ASSUME NEW a \in Chain[p], a # p
      PROVE  Toward(a, b) = Toward(a, p)
  <2>1. Toward(a, p) \in Chain[p] \ {Genesis} /\ Prev[Toward(a, p)] = a
    BY <1>1, <1>4, TowardOnChain
  <2> QED
    BY <1>1, <2>1, TowardIsTheChild
<1>5. p \in Chain[p] /\ p # b
  BY <1>1, ChainEnds
<1>6. ASSUME NEW a \in Block
      PROVE  NextOf(b)[a] = IF a = p THEN b ELSE NextOf(p)[a]
  BY <1>1, <1>2, <1>3, <1>4, <1>5 DEF NextOf
<1> QED
  BY <1>1, <1>2, <1>6 DEF NextOf

LEMMA LinkedChain ==
  ASSUME NEW b \in Block \ {Genesis}, pnext[b] = NoBlock
  PROVE  /\ Linked(NextOf(Prev[b]), b) = NextOf(b)
         /\ WriteNext(NextOf(Prev[b]), b) = NextOf(b)
<1> DEFINE p == Prev[b]
           next == NextOf(p)
<1>1. p \in Block /\ p # b
  BY PointersOfParent, ChainEnds, BlockAssumption
<1>2. next = [a \in Block |-> next[a]] /\ NextOf(b) = [a \in Block |-> NextOf(b)[a]]
  BY DEF NextOf
<1>3. \A a \in Block : NextOf(b)[a] = IF a = p THEN b ELSE next[a]
  BY PointersOfParent
<1>4. next[b] = NoBlock
  BY PointersOfParent
<1> HIDE DEF next
<1>5. [next EXCEPT ![p] = b] = NextOf(b)
  BY <1>1, <1>2, <1>3
<1>6. [next EXCEPT ![b] = pnext[b]] = next
  BY <1>2, <1>4
<1> QED
  BY <1>5, <1>6 DEF Linked, WriteNext, next

LEMMA UnlinkedChain ==
  ASSUME NEW b \in Block \ {Genesis}
  PROVE  Unlinked(NextOf(b), b) = NextOf(Prev[b])
<1> DEFINE p == Prev[b]
           next == NextOf(p)
<1>1. p \in Block
  BY BlockAssumption
<1>2. next = [a \in Block |-> next[a]] /\ NextOf(b) = [a \in Block |-> NextOf(b)[a]]
  BY DEF NextOf
<1>3. \A a \in Block : NextOf(b)[a] = IF a = p THEN b ELSE next[a]
  BY PointersOfParent
<1>4. next[p] = NoBlock
  BY PointersOfParent
<1> HIDE DEF next
<1>5. [NextOf(b) EXCEPT ![p] = NoBlock] = next
  BY <1>1, <1>2, <1>3, <1>4
<1> QED
  BY <1>5 DEF Unlinked, next

\* The two loops at the end of Reorganize turn the pointers of one chain into another's.
LEMMA RelinkedChain ==
  ASSUME NEW from \in Block, NEW to \in Block
  PROVE  Relinked(NextOf(from), from, to) = NextOf(to)
<1> DEFINE next == Relinked(NextOf(from), from, to)
           vConnect == Chain[to] \ Chain[from]
           vDisconnect == Chain[from] \ Chain[to]
<1>1. /\ Chain[to] \subseteq Block /\ Chain[from] \subseteq Block
      /\ Genesis \in Chain[to] /\ Genesis \in Chain[from]
  BY ChainEnds
<1>2. ASSUME NEW a \in Block, NEW c \in vConnect, Prev[c] = a
      PROVE  next[a] = NextOf(to)[a]
  <2>1. \A d \in vConnect : Prev[d] = a => d = c
    BY <1>1, <1>2, OneChildOnChain
  <2>2. (CHOOSE d \in vConnect : Prev[d] = a) = c
    BY <1>2, <2>1
  <2>3. next[a] = c
    BY <1>2, <2>2 DEF Relinked
  <2>4. a \in Chain[to] \ {to} /\ Toward(a, to) = c
    BY <1>1, <1>2, TowardIsTheChild
  <2> QED
    BY <2>3, <2>4 DEF NextOf
<1>3. ASSUME NEW a \in Block, \A c \in vConnect : Prev[c] # a
      PROVE  next[a] = NextOf(to)[a]
  <2>1. CASE \E d \in vDisconnect : Prev[d] = a
    <3>1. PICK d \in vDisconnect : Prev[d] = a
      BY <2>1
    <3>2. next[a] = NoBlock
      BY <1>3, <2>1 DEF Relinked
    <3>3. a \notin Chain[to] \ {to}
      <4>1. SUFFICES ASSUME a \in Chain[to] \ {to} PROVE FALSE
        OBVIOUS
      <4>2. PICK c \in Chain[to] : Prev[c] = a /\ c # Genesis
        BY <4>1, ChildOnChain
      <4>3. c \in Chain[from] \ {Genesis}
        BY <1>3, <4>2
      <4>4. c = d
        BY <1>1, <3>1, <4>2, <4>3, OneChildOnChain
      <4> QED
        BY <3>1, <4>2, <4>4
    <3> QED
      BY <3>2, <3>3 DEF NextOf
  <2>2. CASE ~ \E d \in vDisconnect : Prev[d] = a
    <3>1. next[a] = NextOf(from)[a]
      BY <1>3, <2>2 DEF Relinked
    <3>2. a \in Chain[to] \ {to} <=> a \in Chain[from] \ {from}
      <4>1. ASSUME a \in Chain[to] \ {to} PROVE a \in Chain[from] \ {from}
        <5>1. PICK c \in Chain[to] : Prev[c] = a /\ c # Genesis
          BY <4>1, ChildOnChain
        <5>2. c \in Chain[from] \ {Genesis}
          BY <1>3, <5>1
        <5> QED
          BY <5>1, <5>2, TowardIsTheChild
      <4>2. ASSUME a \in Chain[from] \ {from} PROVE a \in Chain[to] \ {to}
        <5>1. PICK c \in Chain[from] : Prev[c] = a /\ c # Genesis
          BY <4>2, ChildOnChain
        <5>2. c \in Chain[to] \ {Genesis}
          BY <2>2, <5>1
        <5> QED
          BY <5>1, <5>2, TowardIsTheChild
      <4> QED
        BY <4>1, <4>2
    <3>3. ASSUME a \in Chain[to] \ {to} PROVE Toward(a, from) = Toward(a, to)
      <4>1. PICK c \in Chain[to] : Prev[c] = a /\ c # Genesis
        BY <3>3, ChildOnChain
      <4>2. c \in Chain[from] \ {Genesis}
        BY <1>3, <4>1
      <4> QED
        BY <4>1, <4>2, TowardIsTheChild
    <3> QED
      BY <3>1, <3>2, <3>3 DEF NextOf
  <2> QED
    BY <2>1, <2>2
<1>4. \A a \in Block : next[a] = NextOf(to)[a]
  BY <1>2, <1>3
<1>5. next = [a \in Block |-> next[a]] /\ NextOf(to) = [a \in Block |-> NextOf(to)[a]]
  BY DEF Relinked, NextOf
<1> HIDE DEF next
<1>6. next = NextOf(to)
  BY <1>4, <1>5
<1> QED
  BY <1>6 DEF next

-----------------------------------------------------------------------------
(***************************************************************************)
(* While Reorganize works, cur is on the old chain until it meets the new  *)
(* one, and no block of the new chain above cur is on the old one.         *)
(***************************************************************************)
OnTheWay ==
    /\ cur \in Chain[pindexBest] \/ cur \in Chain[mid]
    /\ \A b \in Chain[mid] : b \in Chain[pindexBest] => Height[b] <= Height[cur]

(***************************************************************************)
(* The pointers in the database are those of the committed best chain, the *)
(* ones in memory agree while the node is up, and those in the open        *)
(* transaction are those of the chain that ends in cur.                    *)
(***************************************************************************)
PointersFollow ==
    \/ desynced
    \/ /\ dbNext = NextOf(dbBest)
       /\ pc # "down" => pnext = NextOf(dbBest)
       /\ pc = "reorg" => txnNext = NextOf(cur) /\ OnTheWay

LEMMA PointersFollowInit == Init => PointersFollow
<1> SUFFICES ASSUME Init PROVE PointersFollow
  OBVIOUS
<1>1. Chain[Genesis] = {Genesis}
  BY BlockAssumption
<1>2. NextOf(Genesis) = [a \in Block |-> NoBlock]
  BY <1>1 DEF NextOf
<1> QED
  BY <1>2 DEF Init, PointersFollow

LEMMA PointersFollowStep ==
  TypeOK /\ WorksTowardGoal /\ IndexFollowsChain /\ PointersFollow /\ [Next]_vars
    => PointersFollow'
<1> SUFFICES ASSUME TypeOK, WorksTowardGoal, IndexFollowsChain, PointersFollow, [Next]_vars
             PROVE  PointersFollow'
  OBVIOUS
<1> USE DEF PointersFollow, index, best, pending, keys, db, txn, control, bounds, history
<1>a. ASSUME UNCHANGED dbBest PROVE NextOf(dbBest)' = NextOf(dbBest)
  BY <1>a DEF NextOf, Toward
<1>b. ~desynced => /\ pc \notin {"down", "secondary"} => pindexBest = dbBest
                   /\ pc = "secondary" => cur = dbBest
  BY DEF IndexFollowsChain
<1>1. ASSUME NEW b \in Block, AcceptBlock(b) PROVE PointersFollow'
  BY <1>1, <1>a DEF AcceptBlock, Call, Goto
<1>2. ASSUME NEW b \in Block, ProcessSyncCheckpoint(b) PROVE PointersFollow'
  BY <1>2, <1>a DEF ProcessSyncCheckpoint, Enforce, Call, Write
<1>3. CASE ExtendBestChain
  <2>1. goal \in Block \ {Genesis} /\ Prev[goal] = pindexBest
    BY <1>3, BlockAssumption DEF TypeOK, ExtendBestChain
  <2>2. ~desynced => dbBest = Prev[goal] /\ dbNext = NextOf(Prev[goal])
                     /\ pnext = NextOf(Prev[goal])
    BY <1>3, <1>b, <2>1 DEF ExtendBestChain
  <2>3. ~desynced => pnext[goal] = NoBlock
    BY <2>1, <2>2, PointersOfParent
  <2>4. ~desynced => WriteNext(dbNext, goal) = NextOf(goal) /\ Linked(pnext, goal) = NextOf(goal)
    BY <2>1, <2>2, <2>3, LinkedChain
  <2>5. /\ dbNext' = WriteNext(dbNext, goal) /\ pnext' = Linked(pnext, goal) /\ dbBest' = goal
        /\ desynced' = desynced /\ pc' \in {"pending", "keycheck", "writesync"}
    BY <1>3 DEF ExtendBestChain, TxnCommit, Succeed, Goto
  <2>6. NextOf(dbBest)' = NextOf(goal)
    BY <2>5 DEF NextOf, Toward
  <2> QED
    BY <2>4, <2>5, <2>6
<1>4. CASE SetBestChainFails
  BY <1>4, <1>a DEF SetBestChainFails, Fail, AfterFailure, Goto
<1>5. CASE StartReorganize
  <2>1. pindexBest \in Block /\ Chain[pindexBest] \subseteq Block
        /\ pindexBest \in Chain[pindexBest]
    BY ChainEnds DEF TypeOK
  <2>2. \A b \in Chain[pindexBest] : Height[b] <= Height[pindexBest]
    BY <2>1, Ancestors, BlockAssumption
  <2>3. OnTheWay'
    BY <1>5, <2>1, <2>2 DEF StartReorganize, OnTheWay
  <2>4. ~desynced => txnNext' = NextOf(cur)'
    BY <1>5, <1>b DEF StartReorganize, TxnBegin, NextOf, Toward
  <2> QED
    BY <1>5, <1>a, <2>3, <2>4 DEF StartReorganize
<1>6. CASE DisconnectStep
  <2>1. cur \in Block \ {Genesis} /\ mid \in Block /\ pindexBest \in Block
        /\ cur \notin Chain[mid]
    BY <1>6, ChainEnds DEF TypeOK, DisconnectStep
  <2>2. cur' = Prev[cur] /\ txnNext' = Unlinked(txnNext, cur)
        /\ UNCHANGED <<mid, pindexBest, desynced, pc>>
    BY <1>6 DEF DisconnectStep
  <2>3. ~desynced => txnNext' = NextOf(cur)'
    <3>1. NextOf(cur)' = NextOf(Prev[cur])
      BY <2>2 DEF NextOf, Toward
    <3> QED
      BY <1>6, <2>1, <2>2, <3>1, UnlinkedChain DEF DisconnectStep
  <2>4. OnTheWay => OnTheWay'
    <3>1. SUFFICES ASSUME OnTheWay PROVE OnTheWay'
      OBVIOUS
    <3>2. cur \in Chain[pindexBest] /\ Prev[cur] \in Chain[pindexBest]
      BY <2>1, <3>1, ParentOnChain DEF OnTheWay
    <3>3. ASSUME NEW b \in Chain[mid], b \in Chain[pindexBest]
          PROVE  Height[b] <= Height[Prev[cur]]
      <4>1. b \in Block /\ Height[b] <= Height[cur]
        BY <2>1, <3>1, <3>3, ChainEnds DEF OnTheWay
      <4>2. Height[b] # Height[cur]
        BY <2>1, <3>2, <3>3, OneBlockPerHeight
      <4> QED
        BY <2>1, <4>1, <4>2, BlockAssumption
    <3> QED
      BY <2>2, <3>2, <3>3 DEF OnTheWay
  <2> QED
    BY <1>6, <1>a, <2>3, <2>4 DEF DisconnectStep
<1>7. CASE ConnectStep
  <2> DEFINE b == Toward(cur, mid)
  <2>1. mid \in Block /\ pindexBest \in Block /\ cur \in Chain[mid] /\ cur # mid /\ cur \in Block
    BY <1>7 DEF TypeOK, ConnectStep
  <2>2. b \in Chain[mid] \ {Genesis} /\ b \in Block \ {Genesis} /\ Prev[b] = cur
    BY <2>1, TowardOnChain, ChainEnds
  <2>3. /\ txnNext' = WriteNext(txnNext, b) /\ cur' = b
        /\ UNCHANGED <<mid, pindexBest, pnext, desynced, pc>>
    BY <1>7 DEF ConnectStep
  <2> HIDE DEF b
  <2>4. Height[b] = Height[cur] + 1 /\ Height[cur] \in Nat
    BY <2>1, <2>2, BlockAssumption
  <2>5. OnTheWay => b \notin Chain[pindexBest]
    BY <2>2, <2>4 DEF OnTheWay
  <2>6. OnTheWay => OnTheWay'
    <3>1. \A a \in Chain[mid] : Height[a] \in Nat
      BY <2>1, ChainEnds, BlockAssumption
    <3> QED
      BY <2>2, <2>3, <2>4, <3>1 DEF OnTheWay
  <2>7. ~desynced => txnNext' = NextOf(cur)'
    <3>1. SUFFICES ASSUME ~desynced PROVE txnNext' = NextOf(cur)'
      OBVIOUS
    <3>2. txnNext = NextOf(Prev[b]) /\ pnext = NextOf(pindexBest) /\ OnTheWay
      BY <1>7, <1>b, <2>2, <3>1 DEF ConnectStep
    <3>3. pnext[b] = NoBlock
      BY <2>2, <2>5, <3>2 DEF NextOf
    <3>4. WriteNext(txnNext, b) = NextOf(b)
      BY <2>2, <3>2, <3>3, LinkedChain
    <3>5. NextOf(cur)' = NextOf(b)
      BY <2>3 DEF NextOf, Toward
    <3> QED
      BY <2>3, <3>4, <3>5
  <2> QED
    BY <1>7, <1>a, <2>6, <2>7 DEF ConnectStep
<1>8. CASE ReorganizeFails
  BY <1>8, <1>a DEF ReorganizeFails, Fail, AfterFailure, Goto, TxnAbort
<1>9. CASE CommitReorganize
  <2>1. mid \in Block /\ pindexBest \in Block
    BY DEF TypeOK
  <2>2. ~desynced => txnNext = NextOf(mid) /\ pnext = NextOf(pindexBest)
    BY <1>9, <1>b DEF CommitReorganize
  <2>3. ~desynced => Relinked(pnext, pindexBest, mid) = NextOf(mid)
    BY <2>1, <2>2, RelinkedChain
  <2>4. /\ dbNext' = txnNext /\ dbBest' = mid /\ pc' = "secondary" /\ desynced' = desynced
        /\ pnext' = Relinked(pnext, pindexBest, mid)
    BY <1>9 DEF CommitReorganize, TxnCommit, Goto
  <2>5. NextOf(dbBest)' = NextOf(mid)
    BY <2>4 DEF NextOf, Toward
  <2> QED
    BY <2>2, <2>3, <2>4, <2>5
<1>10. CASE ConnectSecondary
  <2> DEFINE b == Toward(cur, goal)
  <2>1. goal \in Block /\ cur # goal /\ cur \in Chain[goal]
    BY <1>10 DEF TypeOK, ConnectSecondary, WorksTowardGoal
  <2>2. b \in Block \ {Genesis} /\ Prev[b] = cur
    BY <2>1, TowardOnChain, ChainEnds
  <2>3. /\ dbNext' = WriteNext(dbNext, b) /\ dbBest' = b /\ pnext' = Linked(pnext, b)
        /\ pc' = "secondary" /\ desynced' = desynced
    BY <1>10 DEF ConnectSecondary, TxnCommit
  <2> HIDE DEF b
  <2>4. ~desynced => dbNext = NextOf(Prev[b]) /\ pnext = NextOf(Prev[b])
    BY <1>10, <1>b, <2>2 DEF ConnectSecondary
  <2>5. ~desynced => pnext[b] = NoBlock
    BY <2>2, <2>4, PointersOfParent
  <2>6. ~desynced => WriteNext(dbNext, b) = NextOf(b) /\ Linked(pnext, b) = NextOf(b)
    BY <2>2, <2>4, <2>5, LinkedChain
  <2>7. NextOf(dbBest)' = NextOf(b)
    BY <2>3 DEF NextOf, Toward
  <2> QED
    BY <2>3, <2>6, <2>7
<1>11. CASE SecondaryFails
  BY <1>11 DEF SecondaryFails
<1>12. CASE FinishSetBestChain
  BY <1>12, <1>a DEF FinishSetBestChain, Succeed, Goto
<1>13. CASE AcceptPendingSyncCheckpoint
  BY <1>13, <1>a DEF AcceptPendingSyncCheckpoint, Enforce, Call, Write, Goto
<1>14. CASE WriteSyncCheckpoint
  BY <1>14, <1>a DEF WriteSyncCheckpoint, Goto
<1>15. CASE WriteSyncCheckpointFails
  BY <1>15, <1>a DEF WriteSyncCheckpointFails, Goto
<1>16. CASE ResetSyncCheckpoint
  BY <1>16, <1>a DEF ResetSyncCheckpoint, Enforce, Call, Write, Goto
<1>17. CASE LoadBlockIndex
  BY <1>17, <1>a DEF LoadBlockIndex, Call, Goto
<1>18. CASE CheckMasterKey
  BY <1>18, <1>a DEF CheckMasterKey, Goto
<1>19. CASE Crash
  BY <1>19, <1>a DEF Crash, Goto, TxnAbort
<1>20. CASE UNCHANGED vars
  <2>1. NextOf(cur)' = NextOf(cur) /\ (OnTheWay => OnTheWay')
    BY <1>20 DEF vars, NextOf, Toward, OnTheWay
  <2> QED
    BY <1>20, <1>a, <2>1 DEF vars
<1> QED
  BY <1>1, <1>2, <1>3, <1>4, <1>5, <1>6, <1>7, <1>8, <1>9, <1>10, <1>11, <1>12, <1>13,
     <1>14, <1>15, <1>16, <1>17, <1>18, <1>19, <1>20 DEF Next, Step

(***************************************************************************)
(* The forward pointers on disk and in memory are those of the committed   *)
(* best chain in every reachable state, on any block tree, until a         *)
(* postponed connect has failed (ConnectBlock, Reorganize, SetBestChain).  *)
(***************************************************************************)
THEOREM PointersAreRight == Spec => []PointersFollowBestChain
<1>1. IndexFollowsChain /\ PointersFollow => PointersFollowBestChain
  BY DEF IndexFollowsChain, PointersFollow, PointersFollowBestChain
<1> QED
  BY <1>1, TypeInit, TypeStep, WorkStep, IndexFollowsInit, IndexFollowsStep,
     PointersFollowInit, PointersFollowStep, PTL DEF Spec

(***************************************************************************)
(* What a crash leaves is always one best chain, its index and its pointers *)
(* (AddToBlockIndex, SetBestChain, Reorganize, ConnectBlock).              *)
(***************************************************************************)
THEOREM DatabaseStaysSound == Spec => []DatabaseIsSound
  BY IndexMatches, BestChainSound, PointersAreRight, PTL DEF DatabaseIsSound

-----------------------------------------------------------------------------
SettingBest == {"setbest", "reorg", "secondary"}

-----------------------------------------------------------------------------
(***************************************************************************)
(* A checkpoint message or the pending checkpoint was checked against the  *)
(* current checkpoint, which does not change until it is replaced.         *)
(***************************************************************************)
CheckpointAdvances ==
    /\ pc = "writesync" => caller \in {"pending", "message", "reset"}
    /\ pc \in SettingBest \cup {"writesync"} /\ caller \in {"pending", "message"}
          => hashSyncCheckpoint \in Chain[goal]

LEMMA CheckpointAdvancesStep ==
  TypeOK /\ CheckpointAdvances /\ [Next]_vars => CheckpointAdvances'
<1> SUFFICES ASSUME TypeOK, CheckpointAdvances, [Next]_vars PROVE CheckpointAdvances'
  OBVIOUS
<1> USE DEF CheckpointAdvances, SettingBest, index, best, pending, keys, db, txn, control,
            bounds, history
<1>1. ASSUME NEW b \in Block, AcceptBlock(b) PROVE CheckpointAdvances'
  BY <1>1 DEF AcceptBlock, Call, Goto
<1>2. ASSUME NEW b \in Block, ProcessSyncCheckpoint(b) PROVE CheckpointAdvances'
  BY <1>2 DEF ProcessSyncCheckpoint, Advances, Enforce, Call, Write
<1>3. CASE ExtendBestChain
  BY <1>3 DEF ExtendBestChain, Succeed, Goto, TypeOK
<1>4. CASE SetBestChainFails
  BY <1>4 DEF SetBestChainFails, Fail, AfterFailure, Goto
<1>5. CASE StartReorganize
  BY <1>5 DEF StartReorganize
<1>6. CASE DisconnectStep
  BY <1>6 DEF DisconnectStep
<1>7. CASE ConnectStep
  BY <1>7 DEF ConnectStep
<1>8. CASE ReorganizeFails
  BY <1>8 DEF ReorganizeFails, Fail, AfterFailure, Goto
<1>9. CASE CommitReorganize
  BY <1>9 DEF CommitReorganize, Goto
<1>10. CASE ConnectSecondary
  BY <1>10 DEF ConnectSecondary
<1>11. CASE SecondaryFails
  BY <1>11 DEF SecondaryFails, Succeed, Goto, TypeOK
<1>12. CASE FinishSetBestChain
  BY <1>12 DEF FinishSetBestChain, Succeed, Goto, TypeOK
<1>13. CASE AcceptPendingSyncCheckpoint
  BY <1>13 DEF AcceptPendingSyncCheckpoint, Advances, Enforce, Call, Write, Goto
<1>14. CASE WriteSyncCheckpoint
  BY <1>14 DEF WriteSyncCheckpoint, Goto
<1>15. CASE WriteSyncCheckpointFails
  BY <1>15 DEF WriteSyncCheckpointFails, Goto
<1>16. CASE ResetSyncCheckpoint
  BY <1>16 DEF ResetSyncCheckpoint, Enforce, Call, Write, Goto
<1>17. CASE LoadBlockIndex
  BY <1>17 DEF LoadBlockIndex, Call, Goto
<1>18. CASE CheckMasterKey
  BY <1>18 DEF CheckMasterKey, Goto
<1>19. CASE Crash
  BY <1>19 DEF Crash, Goto
<1>20. CASE UNCHANGED vars
  BY <1>20 DEF vars
<1> QED
  BY <1>1, <1>2, <1>3, <1>4, <1>5, <1>6, <1>7, <1>8, <1>9, <1>10, <1>11, <1>12, <1>13,
     <1>14, <1>15, <1>16, <1>17, <1>18, <1>19, <1>20 DEF Next, Step

(***************************************************************************)
(* Only the reset after a change of the master key moves the synchronized  *)
(* checkpoint to a block that does not descend from it (WriteSyncCheck-    *)
(* point and its callers).                                                 *)
(***************************************************************************)
THEOREM CheckpointOnlyAdvances == Spec => SyncCheckpointOnlyAdvances
<1>1. Init => CheckpointAdvances
  BY DEF Init, CheckpointAdvances, SettingBest
<1>2. TypeOK /\ CheckpointAdvances /\ [Next]_vars
        => [caller = "reset" \/ hashSyncCheckpoint \in Chain[hashSyncCheckpoint']]_vars
  <2> SUFFICES ASSUME TypeOK, CheckpointAdvances, Next
               PROVE  caller = "reset" \/ hashSyncCheckpoint \in Chain[hashSyncCheckpoint']
    OBVIOUS
  <2>1. hashSyncCheckpoint \in Chain[hashSyncCheckpoint]
    BY ChainEnds DEF TypeOK
  <2>2. CASE WriteSyncCheckpoint
    BY <2>2 DEF WriteSyncCheckpoint, CheckpointAdvances, SettingBest
  <2>3. CASE ~WriteSyncCheckpoint
    <3>1. hashSyncCheckpoint' = hashSyncCheckpoint
      BY <2>3 DEF Next, Step, AcceptBlock, ProcessSyncCheckpoint, ExtendBestChain, SetBestChainFails,
                  StartReorganize, DisconnectStep, ConnectStep, ReorganizeFails, CommitReorganize,
                  ConnectSecondary, SecondaryFails, FinishSetBestChain,
                  AcceptPendingSyncCheckpoint, WriteSyncCheckpointFails, ResetSyncCheckpoint,
                  LoadBlockIndex, CheckMasterKey, Crash, index
    <3> QED
      BY <2>1, <3>1
  <2> QED
    BY <2>2, <2>3
<1> QED
  BY <1>1, <1>2, TypeInit, TypeStep, WorkStep, CheckpointAdvancesStep, PTL
  DEF Spec, SyncCheckpointOnlyAdvances

-----------------------------------------------------------------------------
(***************************************************************************)
(* A received block starts SetBestChain only when its chain has more trust *)
(* than the best one, and pindexIntermediate has more trust as well.       *)
(***************************************************************************)
GoalHasMoreTrust ==
    /\ pc \in {"setbest", "reorg"} /\ caller = "block" => MoreTrust(goal)
    /\ pc = "reorg" /\ caller = "block" => MoreTrust(mid)

LEMMA GoalHasMoreTrustStep ==
  TypeOK /\ GoalHasMoreTrust /\ [Next]_vars => GoalHasMoreTrust'
<1> SUFFICES ASSUME TypeOK, GoalHasMoreTrust, [Next]_vars PROVE GoalHasMoreTrust'
  OBVIOUS
<1> USE DEF GoalHasMoreTrust, MoreTrust, index, best, pending, keys, db, txn, control,
            bounds, history
<1>1. ASSUME NEW b \in Block, AcceptBlock(b) PROVE GoalHasMoreTrust'
  BY <1>1 DEF AcceptBlock, Call, Goto
<1>2. ASSUME NEW b \in Block, ProcessSyncCheckpoint(b) PROVE GoalHasMoreTrust'
  BY <1>2 DEF ProcessSyncCheckpoint, Enforce, Call, Write
<1>3. CASE ExtendBestChain
  BY <1>3 DEF ExtendBestChain, Succeed, Goto
<1>4. CASE SetBestChainFails
  BY <1>4 DEF SetBestChainFails, Fail, AfterFailure, Goto
<1>5. CASE StartReorganize
  <2>1. goal \in Block /\ pindexBest \in Block
    BY DEF TypeOK
  <2>2. MoreTrust(goal) => MoreTrust(Intermediate(goal))
    BY <2>1, IntermediateOnChain
  <2> QED
    BY <1>5, <2>2 DEF StartReorganize
<1>6. CASE DisconnectStep
  BY <1>6 DEF DisconnectStep
<1>7. CASE ConnectStep
  BY <1>7 DEF ConnectStep
<1>8. CASE ReorganizeFails
  BY <1>8 DEF ReorganizeFails, Fail, AfterFailure, Goto
<1>9. CASE CommitReorganize
  BY <1>9 DEF CommitReorganize, Goto
<1>10. CASE ConnectSecondary
  BY <1>10 DEF ConnectSecondary
<1>11. CASE SecondaryFails
  BY <1>11 DEF SecondaryFails, Succeed, Goto
<1>12. CASE FinishSetBestChain
  BY <1>12 DEF FinishSetBestChain, Succeed, Goto
<1>13. CASE AcceptPendingSyncCheckpoint
  BY <1>13 DEF AcceptPendingSyncCheckpoint, Enforce, Call, Write, Goto
<1>14. CASE WriteSyncCheckpoint
  BY <1>14 DEF WriteSyncCheckpoint, Goto
<1>15. CASE WriteSyncCheckpointFails
  BY <1>15 DEF WriteSyncCheckpointFails, Goto
<1>16. CASE ResetSyncCheckpoint
  BY <1>16 DEF ResetSyncCheckpoint, Enforce, Call, Write, Goto
<1>17. CASE LoadBlockIndex
  BY <1>17 DEF LoadBlockIndex, Call, Goto
<1>18. CASE CheckMasterKey
  BY <1>18 DEF CheckMasterKey, Goto
<1>19. CASE Crash
  BY <1>19 DEF Crash, Goto
<1>20. CASE UNCHANGED vars
  BY <1>20 DEF vars
<1> QED
  BY <1>1, <1>2, <1>3, <1>4, <1>5, <1>6, <1>7, <1>8, <1>9, <1>10, <1>11, <1>12, <1>13,
     <1>14, <1>15, <1>16, <1>17, <1>18, <1>19, <1>20 DEF Next, Step

\* A step that commits another best block commits one on the way to goal.
LEMMA CommitsTowardGoal ==
  TypeOK /\ WorksTowardGoal /\ Next /\ dbBest' # dbBest
    => pc \in SettingBest /\ dbBest' \in Chain[goal]
<1> SUFFICES ASSUME TypeOK, WorksTowardGoal, Next, dbBest' # dbBest
             PROVE  pc \in SettingBest /\ dbBest' \in Chain[goal]
  OBVIOUS
<1> USE DEF SettingBest
<1>1. ExtendBestChain \/ CommitReorganize \/ ConnectSecondary
  BY DEF Next, Step, AcceptBlock, ProcessSyncCheckpoint, SetBestChainFails,
         StartReorganize, DisconnectStep, ConnectStep, ReorganizeFails,
         SecondaryFails, FinishSetBestChain, TxnAbort,
         AcceptPendingSyncCheckpoint, WriteSyncCheckpoint, WriteSyncCheckpointFails,
         ResetSyncCheckpoint, LoadBlockIndex, CheckMasterKey, Crash, db
<1>2. CASE ExtendBestChain
  <2>1. goal \in Chain[goal]
    BY ChainEnds DEF TypeOK
  <2> QED
    BY <1>2, <2>1 DEF ExtendBestChain, TxnCommit
<1>3. CASE CommitReorganize
  BY <1>3 DEF CommitReorganize, TxnCommit, WorksTowardGoal
<1>4. CASE ConnectSecondary
  <2> DEFINE b == Toward(cur, goal)
  <2>1. goal \in Block /\ cur # goal /\ cur \in Chain[goal] /\ dbBest' = b /\ pc = "secondary"
    BY <1>4 DEF TypeOK, WorksTowardGoal, ConnectSecondary, TxnCommit
  <2>2. b \in Chain[goal]
    BY <2>1, TowardOnChain
  <2> QED
    BY <2>1, <2>2
<1> QED
  BY <1>1, <1>2, <1>3, <1>4

\* Of a received block, one with more trust.
LEMMA TrustRisesStep ==
  TypeOK /\ WorksTowardGoal /\ IndexFollowsChain /\ GoalHasMoreTrust /\ [Next]_vars
    => [\/ desynced \/ dbBest' = dbBest \/ caller # "block"
        \/ ChainTrust[dbBest'] > ChainTrust[dbBest]]_vars
<1> SUFFICES ASSUME TypeOK, WorksTowardGoal, IndexFollowsChain, GoalHasMoreTrust, Next,
                    ~desynced, dbBest' # dbBest, caller = "block"
             PROVE  ChainTrust[dbBest'] > ChainTrust[dbBest]
  OBVIOUS
<1>1. ExtendBestChain \/ CommitReorganize \/ ConnectSecondary
  BY DEF Next, Step, AcceptBlock, ProcessSyncCheckpoint, SetBestChainFails,
         StartReorganize, DisconnectStep, ConnectStep, ReorganizeFails,
         SecondaryFails, FinishSetBestChain, TxnAbort,
         AcceptPendingSyncCheckpoint, WriteSyncCheckpoint, WriteSyncCheckpointFails,
         ResetSyncCheckpoint, LoadBlockIndex, CheckMasterKey, Crash, db
<1>2. CASE ExtendBestChain
  <2>1. goal \in Block \ {Genesis} /\ dbBest' = goal /\ dbBest = Prev[goal]
    BY <1>2, BlockAssumption
    DEF TypeOK, ExtendBestChain, TxnCommit, IndexFollowsChain
  <2> QED
    BY <2>1, BlockAssumption
<1>3. CASE CommitReorganize
  BY <1>3 DEF CommitReorganize, TxnCommit, IndexFollowsChain, GoalHasMoreTrust, MoreTrust
<1>4. CASE ConnectSecondary
  <2> DEFINE b == Toward(cur, goal)
  <2>1. goal \in Block /\ cur # goal /\ cur \in Chain[goal] /\ dbBest' = b /\ dbBest = cur
    BY <1>4 DEF TypeOK, WorksTowardGoal, ConnectSecondary, TxnCommit, IndexFollowsChain
  <2>2. b \in Block \ {Genesis} /\ Prev[b] = cur
    BY <2>1, TowardOnChain, ChainEnds
  <2> HIDE DEF b
  <2> QED
    BY <2>1, <2>2, BlockAssumption
<1> QED
  BY <1>1, <1>2, <1>3, <1>4

(***************************************************************************)
(* Every commit that a received block leads to, the postponed ones         *)
(* included, moves the committed best chain to more trust (AddToBlock-     *)
(* Index, SetBestChain), on any block tree.                                *)
(***************************************************************************)
THEOREM TrustOnlyRises == Spec => BestTrustOnlyRises
<1>1. Init => GoalHasMoreTrust
  BY DEF Init, GoalHasMoreTrust
<1> QED
  BY <1>1, TrustRisesStep, TypeInit, TypeStep, WorkStep, IndexFollowsInit, IndexFollowsStep,
     GoalHasMoreTrustStep, PTL DEF Spec, BestTrustOnlyRises

-----------------------------------------------------------------------------
(***************************************************************************)
(* Where the synchronized checkpoint is while SetBestChain and WriteSync-  *)
(* Checkpoint work, as long as the master key stays the same.              *)
(***************************************************************************)
CheckpointFollows ==
    /\ strMasterPubKey = dbKey /\ pc # "reset" /\ caller # "reset"
    /\ \/ desynced \/ rewound \/ NoSyncCheckpoints
       \/ /\ hashSyncCheckpoint \in Chain[dbBest]
          /\ pc # "down" => hashSyncCheckpoint \in Chain[pindexBest]
          /\ pc \in SettingBest => hashSyncCheckpoint \in Chain[goal]
          /\ pc = "reorg" => hashSyncCheckpoint \in Chain[mid]
          /\ pc = "writesync" => goal = dbBest \/ goal \in Chain[dbBest]

\* A block that passes CheckSync and is not indexed descends from the checkpoint.
LEMMA NewBlockAfterCheckpoint ==
  ASSUME TypeOK, NEW b \in Block, ~Known(b), CheckSync(b)
  PROVE  hashSyncCheckpoint \in Chain[b]
<1>1. hashSyncCheckpoint \in Block /\ b \in Block \ {Genesis} /\ b # hashSyncCheckpoint
  BY DEF TypeOK, Known
<1>2. Height[b] > Height[hashSyncCheckpoint]
  BY <1>1, BlockAssumption DEF CheckSync, Known
<1> QED
  BY <1>1, <1>2, BlockAssumption DEF CheckSync

\* pindexIntermediate does not stop before the checkpoint.
LEMMA IntermediateAfterCheckpoint ==
  ASSUME TypeOK, NEW g \in Block, hashSyncCheckpoint \in Chain[g],
         hashSyncCheckpoint \in Chain[pindexBest]
  PROVE  hashSyncCheckpoint \in Chain[Intermediate(g)]
<1> DEFINE m == Intermediate(g)
           h == hashSyncCheckpoint
<1>1. pindexBest \in Block /\ m \in Chain[g] /\ m \in Block /\ h \in Block
      /\ (m = g \/ ChainTrust[m] > ChainTrust[pindexBest])
  BY IntermediateOnChain, ChainEnds DEF TypeOK
<1>2. ChainTrust[h] <= ChainTrust[pindexBest]
  BY <1>1, Ancestors, BlockAssumption
<1>3. CASE Height[h] <= Height[m]
  BY <1>1, <1>3, ChainIsLinear
<1>4. CASE Height[m] < Height[h]
  <2>1. m \in Chain[h] /\ m # h
    BY <1>1, <1>4, ChainIsLinear, BlockAssumption
  <2>2. ChainTrust[m] < ChainTrust[h] /\ m # g
    <3>1. ChainTrust[m] < ChainTrust[h] /\ Height[m] < Height[h]
      BY <1>1, <2>1, Ancestors
    <3>2. Height[h] <= Height[g]
      BY <1>1, Ancestors, BlockAssumption
    <3> QED
      BY <1>1, <3>1, <3>2, BlockAssumption
  <2> QED
    BY <1>1, <1>2, <2>2, BlockAssumption
<1> QED
  BY <1>1, <1>3, <1>4, BlockAssumption

LEMMA MainChain ==
  ASSUME TypeOK, IndexFollowsChain, PointersFollow, ~desynced, pc \notin {"down", "secondary"},
         NEW c \in Block, IsInMainChain(c)
  PROVE  c \in Chain[dbBest]
<1>1. pnext = NextOf(dbBest) /\ pindexBest = dbBest /\ dbBest \in Chain[dbBest]
  BY ChainEnds DEF IndexFollowsChain, PointersFollow, TypeOK
<1> QED
  BY <1>1 DEF IsInMainChain, NextOf

LEMMA CheckpointFollowsStep ==
  ASSUME MaxRekeys = 0
  PROVE  TypeOK /\ WorksTowardGoal /\ IndexFollowsChain /\ PointersFollow /\ CheckpointAdvances
           /\ CheckpointFollows /\ [Next]_vars => CheckpointFollows'
<1> SUFFICES ASSUME TypeOK, WorksTowardGoal, IndexFollowsChain, PointersFollow,
                    CheckpointAdvances, CheckpointFollows, [Next]_vars
             PROVE  CheckpointFollows'
  OBVIOUS
<1> USE DEF CheckpointFollows, SettingBest, index, best, pending, keys, db, txn, control,
            bounds, history
<1>a. ~desynced => /\ pc \notin {"down", "secondary"} => pindexBest = dbBest
                   /\ pc = "secondary" => cur = dbBest
  BY DEF IndexFollowsChain
<1>1. ASSUME NEW b \in Block, AcceptBlock(b) PROVE CheckpointFollows'
  <2>1. ~NoSyncCheckpoints => hashSyncCheckpoint \in Chain[b]
    BY <1>1, NewBlockAfterCheckpoint DEF AcceptBlock, Accepts
  <2> QED
    BY <1>1, <2>1 DEF AcceptBlock, Call, Goto
<1>2. ASSUME NEW b \in Block, ProcessSyncCheckpoint(b) PROVE CheckpointFollows'
  <2>1. ~desynced /\ IsInMainChain(b) => b \in Chain[dbBest]
    BY <1>2, MainChain DEF ProcessSyncCheckpoint
  <2> QED
    BY <1>2, <2>1 DEF ProcessSyncCheckpoint, Advances, Enforce, Call, Write
<1>3. CASE ExtendBestChain
  <2>1. goal \in Chain[goal]
    BY ChainEnds DEF TypeOK
  <2> QED
    BY <1>3, <2>1 DEF ExtendBestChain, TxnCommit, Succeed, Goto, TypeOK
<1>4. CASE SetBestChainFails
  BY <1>4 DEF SetBestChainFails, Fail, AfterFailure, Goto
<1>5. CASE StartReorganize
  <2>1. \/ desynced \/ rewound \/ NoSyncCheckpoints
        \/ hashSyncCheckpoint \in Chain[Intermediate(goal)]
    BY <1>5, IntermediateAfterCheckpoint DEF StartReorganize, TypeOK
  <2> QED
    BY <1>5, <2>1 DEF StartReorganize
<1>6. CASE DisconnectStep
  BY <1>6 DEF DisconnectStep
<1>7. CASE ConnectStep
  BY <1>7 DEF ConnectStep
<1>8. CASE ReorganizeFails
  BY <1>8 DEF ReorganizeFails, Fail, AfterFailure, Goto, TxnAbort
<1>9. CASE CommitReorganize
  BY <1>9 DEF CommitReorganize, TxnCommit, Goto
<1>10. CASE ConnectSecondary
  <2> DEFINE b == Toward(cur, goal)
  <2>1. goal \in Block /\ cur # goal /\ cur \in Chain[goal]
    BY <1>10 DEF TypeOK, ConnectSecondary, WorksTowardGoal
  <2>2. b \in Block \ {Genesis} /\ Prev[b] = cur
    BY <2>1, TowardOnChain, ChainEnds
  <2>3. dbBest' = b /\ UNCHANGED <<pc, caller, goal, pindexBest, hashSyncCheckpoint, desynced,
                                   rewound, strMasterPubKey, dbKey>> /\ pc = "secondary"
    BY <1>10 DEF ConnectSecondary, TxnCommit
  <2> HIDE DEF b
  <2>4. ~desynced => Chain[dbBest] \subseteq Chain[b]
    BY <1>10, <1>a, <2>2, BlockAssumption DEF ConnectSecondary
  <2> QED
    BY <2>3, <2>4
<1>11. CASE SecondaryFails
  BY <1>11 DEF SecondaryFails, Succeed, Goto, TypeOK
<1>12. CASE FinishSetBestChain
  BY <1>12, <1>a DEF FinishSetBestChain, Succeed, Goto, TypeOK
<1>13. CASE AcceptPendingSyncCheckpoint
  <2> DEFINE c == hashPendingCheckpoint
  <2>1. Known(c) => c \in Block
    BY DEF Known, TypeOK
  <2>2. ~desynced /\ Known(c) /\ IsInMainChain(c) => c \in Chain[dbBest]
    BY <1>13, <2>1, MainChain DEF AcceptPendingSyncCheckpoint
  <2> QED
    BY <1>13, <2>2 DEF AcceptPendingSyncCheckpoint, Advances, Enforce, Call, Write, Goto
<1>14. CASE WriteSyncCheckpoint
  <2>1. dbBest \in Chain[dbBest]
    BY ChainEnds DEF TypeOK
  <2> QED
    BY <1>14, <1>a, <2>1 DEF WriteSyncCheckpoint, Goto
<1>15. CASE WriteSyncCheckpointFails
  BY <1>15 DEF WriteSyncCheckpointFails, Goto
<1>16. CASE ResetSyncCheckpoint
  BY <1>16 DEF ResetSyncCheckpoint
<1>17. CASE LoadBlockIndex
  BY <1>17 DEF LoadBlockIndex, Call, Goto, TypeOK
<1>18. CASE CheckMasterKey
  BY <1>18 DEF CheckMasterKey, Goto
<1>19. CASE Crash
  BY <1>19 DEF Crash, Goto, TxnAbort
<1>20. CASE UNCHANGED vars
  BY <1>20 DEF vars
<1> QED
  BY <1>1, <1>2, <1>3, <1>4, <1>5, <1>6, <1>7, <1>8, <1>9, <1>10, <1>11, <1>12, <1>13,
     <1>14, <1>15, <1>16, <1>17, <1>18, <1>19, <1>20 DEF Next, Step

(***************************************************************************)
(* While the master key stays the same, the synchronized checkpoint is on  *)
(* the best chain, committed and in memory, in every reachable state       *)
(* (CheckSync, ValidateSyncCheckpoint, SetBestChain, WriteSyncCheckpoint). *)
(***************************************************************************)
THEOREM CheckpointInBestChain ==
  ASSUME MaxRekeys = 0
  PROVE  Spec => []SyncCheckpointInBestChain
<1>1. Init => CheckpointFollows
  <2>1. Genesis \in Chain[Genesis]
    BY ChainEnds, BlockAssumption
  <2> QED
    BY <2>1 DEF Init, CheckpointFollows, SettingBest
<1>2. Init => CheckpointAdvances
  BY DEF Init, CheckpointAdvances, SettingBest
<1>3. CheckpointFollows => SyncCheckpointInBestChain
  BY DEF CheckpointFollows, SyncCheckpointInBestChain
<1> QED
  BY <1>1, <1>2, <1>3, TypeInit, TypeStep, WorkStep, IndexFollowsInit, IndexFollowsStep,
     PointersFollowInit, PointersFollowStep, CheckpointAdvancesStep, CheckpointFollowsStep,
     PTL DEF Spec

-----------------------------------------------------------------------------
(***************************************************************************)
(* A chain that is better than the best one was found invalid.  While      *)
(* SetBestChain works for a received block, that block is the one          *)
(* exception; a checkpoint may take the node to a chain with less trust,   *)
(* but then it is not the genesis block any more.                          *)
(***************************************************************************)
Recorded(b) == ChainTrust[b] <= ChainTrust[pindexBest] \/ ChainTrust[b] <= bnBestInvalidTrust

NothingFailed == crashes + faults = 0

NoRestart ==
    NothingFailed => pc \notin {"down", "reset", "keycheck"} /\ caller \in {"block", "pending", "message"}

BetterIsRecorded ==
    NothingFailed /\ hashSyncCheckpoint = Genesis =>
        /\ pc = "writesync" => goal # Genesis
        /\ pc \in SettingBest => IF caller = "block" THEN MoreTrust(goal) ELSE goal # Genesis
        /\ pc # "writesync" =>
              \A b \in mapBlockIndex : Recorded(b) \/ (pc \in SettingBest /\ b = goal)

\* The counters only rise, and a fault raises one of them.
LEMMA FailuresStay ==
  ASSUME TypeOK, [Next]_vars, NothingFailed'
  PROVE  NothingFailed /\ ~Fault /\ ~Crash
<1>1. crashes \in Nat /\ faults \in Nat
  BY CheckpointAssumption DEF TypeOK
<1>2. CASE Fault
  BY <1>1, <1>2 DEF Fault, NothingFailed
<1>3. CASE Crash
  BY <1>1, <1>3 DEF Crash, NothingFailed
<1>4. CASE ~Fault /\ ~Crash
  <2>1. UNCHANGED bounds
    BY <1>4 DEF Next, Step, AcceptBlock, ProcessSyncCheckpoint, ExtendBestChain, SetBestChainFails,
                StartReorganize, DisconnectStep, ConnectStep, ReorganizeFails, CommitReorganize,
                ConnectSecondary, SecondaryFails, FinishSetBestChain,
                AcceptPendingSyncCheckpoint, WriteSyncCheckpoint, WriteSyncCheckpointFails,
                ResetSyncCheckpoint, LoadBlockIndex, CheckMasterKey, vars
  <2> QED
    BY <1>4, <2>1 DEF bounds, NothingFailed
<1> QED
  BY <1>2, <1>3, <1>4

LEMMA NoRestartStep == TypeOK /\ NoRestart /\ [Next]_vars => NoRestart'
<1> SUFFICES ASSUME TypeOK, NoRestart, [Next]_vars, NothingFailed'
             PROVE  pc' \notin {"down", "reset", "keycheck"} /\ caller' \in {"block", "pending", "message"}
  BY DEF NoRestart
<1>0. ~Fault /\ ~Crash /\ pc \notin {"down", "reset", "keycheck"}
      /\ caller \in {"block", "pending", "message"}
  BY FailuresStay DEF NoRestart
<1>1. ASSUME NEW b \in Block, AcceptBlock(b) \/ ProcessSyncCheckpoint(b)
      PROVE  pc' \notin {"down", "reset", "keycheck"} /\ caller' \in {"block", "pending", "message"}
  BY <1>0, <1>1 DEF AcceptBlock, ProcessSyncCheckpoint, Enforce, Call, Write, Goto, control
<1>2. CASE ExtendBestChain \/ SecondaryFails \/ FinishSetBestChain
  BY <1>0, <1>2 DEF ExtendBestChain, SecondaryFails, FinishSetBestChain, Succeed, Goto
<1>3. CASE SetBestChainFails \/ ReorganizeFails
  BY <1>0, <1>3 DEF SetBestChainFails, ReorganizeFails, Fail, AfterFailure, Goto
<1>4. CASE StartReorganize \/ DisconnectStep \/ ConnectStep \/ CommitReorganize \/ ConnectSecondary
  BY <1>0, <1>4 DEF StartReorganize, DisconnectStep, ConnectStep, CommitReorganize, ConnectSecondary, Goto
<1>5. CASE AcceptPendingSyncCheckpoint
  BY <1>0, <1>5 DEF AcceptPendingSyncCheckpoint, Enforce, Call, Write, Goto
<1>6. CASE WriteSyncCheckpoint \/ WriteSyncCheckpointFails
  BY <1>0, <1>6 DEF WriteSyncCheckpoint, WriteSyncCheckpointFails, Goto
<1>7. CASE ResetSyncCheckpoint \/ LoadBlockIndex \/ CheckMasterKey
  BY <1>0, <1>7 DEF ResetSyncCheckpoint, LoadBlockIndex, CheckMasterKey
<1>8. CASE UNCHANGED vars
  BY <1>0, <1>8 DEF vars, control
<1> QED
  BY <1>0, <1>1, <1>2, <1>3, <1>4, <1>5, <1>6, <1>7, <1>8 DEF Next, Step

\* What is recorded stays so while the best chain and bnBestInvalidTrust only get better.
LEMMA StaysRecorded ==
  ASSUME TypeOK, NEW b \in Block, Recorded(b),
         pindexBest' = pindexBest \/ (pindexBest' \in Block /\ ChainTrust[pindexBest'] >= ChainTrust[pindexBest]),
         bnBestInvalidTrust' = bnBestInvalidTrust \/ \E c \in Block : InvalidChainFound(c)
  PROVE  Recorded(b)'
<1>1. ChainTrust[b] \in Nat /\ ChainTrust[pindexBest] \in Nat /\ bnBestInvalidTrust \in Nat
      /\ \A c \in Block : ChainTrust[c] \in Nat
  BY BlockAssumption DEF TypeOK
<1>2. bnBestInvalidTrust' \in Nat /\ bnBestInvalidTrust' >= bnBestInvalidTrust
  BY <1>1 DEF InvalidChainFound
<1>3. ChainTrust[pindexBest'] \in Nat /\ ChainTrust[pindexBest'] >= ChainTrust[pindexBest]
  BY <1>1
<1> QED
  BY <1>1, <1>2, <1>3 DEF Recorded

LEMMA FoundIsRecorded ==
  ASSUME TypeOK, NEW b \in Block, InvalidChainFound(b)
  PROVE  Recorded(b)'
BY BlockAssumption DEF TypeOK, InvalidChainFound, Recorded

LEMMA BetterIsRecordedStep ==
  TypeOK /\ WorksTowardGoal /\ NoRestart /\ CheckpointAdvances /\ BetterIsRecorded /\ [Next]_vars
    => BetterIsRecorded'
<1> SUFFICES ASSUME TypeOK, WorksTowardGoal, NoRestart, CheckpointAdvances, BetterIsRecorded, [Next]_vars,
                    NothingFailed', hashSyncCheckpoint' = Genesis
             PROVE  BetterIsRecorded'
  BY DEF BetterIsRecorded
<1>0. /\ NothingFailed /\ ~Fault /\ ~Crash /\ pc \notin {"down", "reset", "keycheck"}
      /\ caller \in {"block", "pending", "message"}
      /\ goal \in Block /\ pindexBest \in Block /\ mapBlockIndex \subseteq Block
  BY FailuresStay DEF NoRestart, TypeOK
<1>a. hashSyncCheckpoint = Genesis
  <2>1. CASE WriteSyncCheckpoint
    <3>1. goal = Genesis /\ hashSyncCheckpoint \in Chain[goal]
      BY <1>0, <2>1 DEF WriteSyncCheckpoint, CheckpointAdvances, SettingBest
    <3> QED
      BY <3>1, BlockAssumption
  <2>2. CASE ~WriteSyncCheckpoint
    <3>1. hashSyncCheckpoint' = hashSyncCheckpoint
      BY <2>2 DEF Next, Step, AcceptBlock, ProcessSyncCheckpoint, ExtendBestChain, SetBestChainFails,
                  StartReorganize, DisconnectStep, ConnectStep, ReorganizeFails, CommitReorganize,
                  ConnectSecondary, SecondaryFails, FinishSetBestChain,
                  AcceptPendingSyncCheckpoint, WriteSyncCheckpointFails, ResetSyncCheckpoint,
                  LoadBlockIndex, CheckMasterKey, Crash, index, vars
    <3> QED
      BY <3>1
  <2> QED
    BY <2>1, <2>2
<1>b. /\ pc = "writesync" => goal # Genesis
      /\ pc \in SettingBest => IF caller = "block" THEN MoreTrust(goal) ELSE goal # Genesis
      /\ pc # "writesync" => \A b \in mapBlockIndex : Recorded(b) \/ (pc \in SettingBest /\ b = goal)
  BY <1>0, <1>a DEF BetterIsRecorded
<1> USE DEF SettingBest
<1>1. ASSUME NEW c \in Block, AcceptBlock(c) PROVE BetterIsRecorded'
  <2>1. /\ pc = "idle" /\ mapBlockIndex' = mapBlockIndex \cup {c} /\ UNCHANGED <<pindexBest, bnBestInvalidTrust>>
        /\ IF MoreTrust(c) THEN pc' = "setbest" /\ caller' = "block" /\ goal' = c ELSE pc' = "pending"
    BY <1>1 DEF AcceptBlock, Call, Goto, best
  <2>2. \A b \in mapBlockIndex : Recorded(b)'
    BY <1>b, <2>1 DEF Recorded
  <2>3. ~MoreTrust(c) => Recorded(c)'
    BY <2>1, <1>0, BlockAssumption DEF MoreTrust, Recorded
  <2> QED
    BY <2>1, <2>2, <2>3 DEF BetterIsRecorded, MoreTrust
<1>2. ASSUME NEW c \in Block, UNCHANGED <<mapBlockIndex, pindexBest, bnBestInvalidTrust>>,
             pc \in {"idle", "pending"},
             \/ pc' \in {"idle", "pending"}
             \/ Advances(c) /\ Enforce("message", c)
             \/ Advances(c) /\ Enforce("pending", c)
      PROVE  BetterIsRecorded'
  <2>1. \A b \in mapBlockIndex' : Recorded(b)'
    BY <1>b, <1>2 DEF Recorded
  <2>2. CASE pc' \in {"idle", "pending"}
    BY <2>1, <2>2 DEF BetterIsRecorded
  <2>3. CASE pc' \notin {"idle", "pending"}
    <3>1. c # Genesis /\ goal' = c /\ pc' \in {"setbest", "writesync"} /\ caller' \in {"message", "pending"}
      BY <1>2, <1>a, <2>3 DEF Advances, Enforce, Call, Write
    <3> QED
      BY <2>1, <3>1 DEF BetterIsRecorded
  <2> QED
    BY <2>2, <2>3
<1>3. ASSUME NEW c \in Block, ProcessSyncCheckpoint(c) PROVE BetterIsRecorded'
  <2>1. /\ UNCHANGED <<mapBlockIndex, pindexBest, bnBestInvalidTrust>> /\ pc = "idle"
        /\ pc' = pc \/ (Advances(c) /\ Enforce("message", c))
    BY <1>3 DEF ProcessSyncCheckpoint, index, best, control
  <2> QED
    BY <1>2, <2>1
<1>4. CASE AcceptPendingSyncCheckpoint
  <2>1. /\ UNCHANGED <<mapBlockIndex, pindexBest, bnBestInvalidTrust>> /\ pc = "pending"
        /\ pc' = "idle" \/ (Known(hashPendingCheckpoint) /\ Advances(hashPendingCheckpoint)
                            /\ Enforce("pending", hashPendingCheckpoint))
    BY <1>4 DEF AcceptPendingSyncCheckpoint, index, best, Goto
  <2>2. CASE pc' = "idle"
    BY <1>2, <1>0, <2>1, <2>2
  <2>3. CASE Known(hashPendingCheckpoint) /\ Advances(hashPendingCheckpoint)
             /\ Enforce("pending", hashPendingCheckpoint)
    <3>1. hashPendingCheckpoint \in Block
      BY <1>0, <2>3 DEF Known
    <3> QED
      BY <1>2, <2>1, <2>3, <3>1
  <2> QED
    BY <2>1, <2>2, <2>3
<1>5. ASSUME pindexBest' = goal, pc \in SettingBest, pc' = IF caller = "block" THEN "pending" ELSE "writesync",
             UNCHANGED <<mapBlockIndex, goal, caller>>,
             bnBestInvalidTrust' = bnBestInvalidTrust \/ \E c \in Block : InvalidChainFound(c)
      PROVE  BetterIsRecorded'
  <2>1. CASE caller = "block"
    <3>1. ChainTrust[goal] >= ChainTrust[pindexBest] /\ ChainTrust[goal] \in Nat
      BY <1>b, <1>0, <1>5, <2>1, BlockAssumption DEF MoreTrust
    <3>2. \A b \in mapBlockIndex : Recorded(b) => Recorded(b)'
      BY <1>0, <1>5, <3>1, StaysRecorded
    <3>3. Recorded(goal)'
      BY <1>5, <3>1 DEF Recorded
    <3>4. \A b \in mapBlockIndex' : Recorded(b)'
      BY <1>b, <1>5, <3>2, <3>3
    <3> QED
      BY <1>5, <2>1, <3>4 DEF BetterIsRecorded
  <2>2. CASE caller # "block"
    BY <1>b, <1>5, <2>2 DEF BetterIsRecorded
  <2> QED
    BY <2>1, <2>2
<1>6. CASE ExtendBestChain \/ FinishSetBestChain
  <2>1. /\ pindexBest' = goal /\ pc \in SettingBest /\ Succeed
        /\ UNCHANGED <<mapBlockIndex, bnBestInvalidTrust>>
    BY <1>6 DEF ExtendBestChain, FinishSetBestChain, index
  <2>2. pc' = (IF caller = "block" THEN "pending" ELSE "writesync") /\ UNCHANGED <<goal, caller>>
    BY <1>0, <2>1 DEF Succeed, Goto
  <2> QED
    BY <1>5, <2>1, <2>2
<1>7. CASE SecondaryFails
  <2>1. pindexBest' = goal /\ pc \in SettingBest /\ Succeed /\ UNCHANGED mapBlockIndex
    BY <1>7 DEF SecondaryFails
  <2>2. pc' = (IF caller = "block" THEN "pending" ELSE "writesync") /\ UNCHANGED <<goal, caller>>
    BY <1>0, <2>1 DEF Succeed, Goto
  <2>3. InvalidChainFound(Toward(cur, goal)) /\ Toward(cur, goal) \in Block
    <3>1. InvalidChainFound(Toward(cur, goal)) /\ cur # goal
      BY <1>0, <1>7 DEF SecondaryFails
    <3>2. Toward(cur, goal) \in Block
      BY <1>0, <1>7, <3>1, TowardOnChain, ChainEnds DEF WorksTowardGoal, SecondaryFails
    <3> QED
      BY <3>1, <3>2
  <2> QED
    BY <1>5, <2>1, <2>2, <2>3
<1>8. CASE SetBestChainFails \/ ReorganizeFails
  <2>1. /\ pc \in SettingBest /\ pc' = "idle" /\ UNCHANGED <<pindexBest, mapBlockIndex, goal>>
        /\ InvalidChainFound(goal)
    BY <1>0, <1>8 DEF SetBestChainFails, ReorganizeFails, Fail, AfterFailure, Goto, best
  <2>2. \A b \in mapBlockIndex : Recorded(b) => Recorded(b)'
    BY <1>0, <2>1, StaysRecorded
  <2>3. Recorded(goal)'
    BY <1>0, <2>1, FoundIsRecorded
  <2>4. \A b \in mapBlockIndex' : Recorded(b)'
    BY <1>b, <2>1, <2>2, <2>3
  <2> QED
    BY <2>1, <2>4 DEF BetterIsRecorded
<1>9. CASE StartReorganize \/ DisconnectStep \/ ConnectStep \/ CommitReorganize \/ ConnectSecondary
  <2>1. /\ pc \in SettingBest /\ pc' \in SettingBest
        /\ UNCHANGED <<pindexBest, mapBlockIndex, bnBestInvalidTrust, goal, caller>>
    BY <1>9 DEF StartReorganize, DisconnectStep, ConnectStep, CommitReorganize, ConnectSecondary,
                Goto, index, best
  <2> QED
    BY <1>b, <2>1 DEF BetterIsRecorded, Recorded, MoreTrust
<1>10. ~WriteSyncCheckpoint
  BY <1>0, <1>b DEF WriteSyncCheckpoint
<1>11. CASE UNCHANGED vars
  BY <1>b, <1>11 DEF BetterIsRecorded, Recorded, MoreTrust, vars, index, best, control
<1> QED
  BY <1>0, <1>1, <1>3, <1>4, <1>6, <1>7, <1>8, <1>9, <1>10, <1>11
  DEF Next, Step, WriteSyncCheckpointFails, ResetSyncCheckpoint, LoadBlockIndex, CheckMasterKey

(***************************************************************************)
(* A node that has not crashed and whose storage has not failed is on the  *)
(* best chain it knows, until its first checkpoint: what is better was     *)
(* found invalid, and bnBestInvalidTrust covers it (AddToBlockIndex, Set-  *)
(* BestChain, InvalidChainFound).                                          *)
(***************************************************************************)
THEOREM BetterIsAlwaysRecorded == Spec => []BetterChainIsRecorded
<1>1. Init => NoRestart /\ BetterIsRecorded /\ CheckpointAdvances
  <2>1. Init => \A b \in mapBlockIndex : Recorded(b)
    BY BlockAssumption DEF Init, Recorded
  <2> QED
    BY <2>1 DEF Init, NoRestart, BetterIsRecorded, CheckpointAdvances, SettingBest
<1>2. BetterIsRecorded => BetterChainIsRecorded
  BY DEF BetterIsRecorded, BetterChainIsRecorded, NothingFailed, Recorded, SettingBest
<1> QED
  BY <1>1, <1>2, TypeInit, TypeStep, WorkStep, CheckpointAdvancesStep, NoRestartStep,
     BetterIsRecordedStep, PTL DEF Spec

=============================================================================
