----------------------------- MODULE ChainState -----------------------------
(***************************************************************************)
(* The best chain of one node and the synchronized checkpoint that         *)
(* restricts it: AcceptBlock, AddToBlockIndex, SetBestChain, Reorganize    *)
(* (main.cpp), the sync-checkpoint operations (checkpoints.cpp), crashes   *)
(* and LoadBlockIndex (main.cpp, db.cpp).                                  *)
(*                                                                         *)
(* All of it runs in whichever thread holds cs_main, so there is one       *)
(* control variable, pc.  A step of the model ends where a crash can tell  *)
(* the difference (a database commit) and at every iteration of a loop;    *)
(* a crash may come between any two steps.                                 *)
(***************************************************************************)
EXTENDS TxIndex

CONSTANTS
    Hardened,           \* the blocks of mapCheckpoints
    LastHardened,       \* mapCheckpoints.rbegin()->second
    SyncCheckpoints,    \* [key -> blocks a message signed with key may name]
    NoSyncCheckpoints,  \* -nosynccheckpoints
    MayRewind,          \* LoadBlockIndex may find bad blocks (a clock set back)
    MaxRekeys,          \* bound on the changes of the checkpoint master key
    MaxCrashes,         \* bound on the crashes
    MaxFaults           \* bound on the storage operations that fail

ASSUME CheckpointAssumption ==
    /\ Hardened \subseteq Block
    /\ Genesis \in Hardened
    /\ LastHardened \in Hardened
    /\ \A h \in Hardened : Height[h] <= Height[LastHardened]
    /\ \A g, h \in Hardened : Height[g] = Height[h] => g = h
    /\ MaxRekeys \in Nat /\ MaxCrashes \in Nat /\ MaxFaults \in Nat
    /\ SyncCheckpoints \in [0 .. MaxRekeys -> SUBSET Block]
    /\ NoSyncCheckpoints \in BOOLEAN
    /\ MayRewind \in BOOLEAN

VARIABLES
    \* Memory and disk at once: both are changed before anyone looks again.
    mapBlockIndex,          \* the indexed blocks
    bnBestInvalidTrust,
    hashSyncCheckpoint,
    \* Memory only.
    pindexBest,             \* also hashBestChain, nBestHeight, bnBestChainTrust
    pnext,                  \* CBlockIndex::pnext
    hashPendingCheckpoint,
    hashInvalidCheckpoint,
    strMasterPubKey,        \* the key compiled into the running binary
    \* Disk only: the committed block database.
    dbBest,                 \* "hashBestChain"
    dbNext,                 \* hashNext of the "blockindex" records
    dbTx,                   \* the "tx" records
    dbKey,                  \* "strCheckpointPubKey"
    \* The open database transaction of Reorganize.
    txnNext, txnTx,
    \* Control.
    pc,                     \* where the thread is
    caller,                 \* who called SetBestChain or WriteSyncCheckpoint
    goal,                   \* pindexNew of SetBestChain, the checkpoint to write
    mid,                    \* pindexIntermediate
    cur,                    \* the last block connected in the transaction
    crashes, faults,        \* how many there have been
    \* History, read by the properties only.
    desynced,               \* SetBestChain left memory ahead of the database
    rewound,                \* LoadBlockIndex moved the best chain back
    syncKey                 \* the master key when hashSyncCheckpoint was written

index   == <<mapBlockIndex, bnBestInvalidTrust, hashSyncCheckpoint>>
best    == <<pindexBest, pnext>>
pending == <<hashPendingCheckpoint, hashInvalidCheckpoint>>
keys    == <<strMasterPubKey, dbKey>>
db      == <<dbBest, dbNext, dbTx>>
txn     == <<txnNext, txnTx>>
control == <<pc, caller, goal, mid, cur>>
bounds  == <<crashes, faults>>
history == <<desynced, rewound, syncKey>>
vars    == <<index, best, pending, keys, db, txn, control, bounds, history>>

BlockOrNone == Block \cup {NoBlock}

Init ==
    /\ mapBlockIndex = {Genesis}
    /\ bnBestInvalidTrust = 0
    /\ hashSyncCheckpoint = Genesis
    /\ pindexBest = Genesis
    /\ pnext = [b \in Block |-> NoBlock]
    /\ hashPendingCheckpoint = IF LastHardened = Genesis THEN NoBlock ELSE LastHardened
    /\ hashInvalidCheckpoint = NoBlock
    /\ strMasterPubKey = 0 /\ dbKey = 0
    /\ dbBest = Genesis
    /\ dbNext = pnext
    /\ dbTx = ConnectBlock(Genesis, NoIndex)
    /\ txnNext = dbNext /\ txnTx = dbTx
    /\ pc = "idle" /\ caller = "block"
    /\ goal = Genesis /\ mid = Genesis /\ cur = Genesis
    /\ crashes = 0 /\ faults = 0
    /\ desynced = FALSE /\ rewound = FALSE /\ syncKey = 0

-----------------------------------------------------------------------------
(***************************************************************************)
(* Predicates of the code.                                                 *)
(***************************************************************************)
\* Altered: the lookup succeeds for a block that was never indexed.
Known_Anything(b) == b \in Block

Known(b) == b \in mapBlockIndex

IsInMainChain(b) == pnext[b] # NoBlock \/ b = pindexBest

CheckHardened(b) == \A h \in Hardened : Height[h] = Height[b] => h = b

\* Altered: only the block at the checkpoint's own height is compared with it.
CheckSync_SameHeightOnly(b) == Height[b] = Height[hashSyncCheckpoint] => b = hashSyncCheckpoint

CheckSync(b) ==
    /\ Height[b] > Height[hashSyncCheckpoint] => hashSyncCheckpoint \in Chain[Prev[b]]
    /\ Height[b] = Height[hashSyncCheckpoint] => b = hashSyncCheckpoint
    /\ Height[b] < Height[hashSyncCheckpoint] => b \in mapBlockIndex

\* The checks of AcceptBlock, before anything is written.
Accepts(b) ==
    /\ ~Known(b)
    /\ Known(Prev[b])
    /\ CheckHardened(b)
    /\ CheckSync(b) \/ NoSyncCheckpoints
    /\ CoinbaseHeight[Vtx[b][1]] = Height[b]

\* More trust than the best chain, by the test of AddToBlockIndex.
MoreTrust(b) == ChainTrust[b] > ChainTrust[pindexBest]

\* Altered: any block that the checkpoint does not descend from advances.
Advances_NotOlder(c) == c \notin Chain[hashSyncCheckpoint]

\* ValidateSyncCheckpoint returns true; it notes a conflict when it does not.
Advances(c) == hashSyncCheckpoint \in Chain[c] /\ c # hashSyncCheckpoint
Conflicts(c) == hashSyncCheckpoint \notin Chain[c] /\ c \notin Chain[hashSyncCheckpoint]

\* Altered: the search goes on while the parent has as much trust.
Intermediate_AsMuch(g) ==
    CHOOSE a \in Chain[g] :
        /\ a = g \/ ChainTrust[a] >= ChainTrust[pindexBest]
        /\ a = Genesis \/ ChainTrust[Prev[a]] < ChainTrust[pindexBest]

(***************************************************************************)
(* pindexIntermediate: from g back to the first block whose parent has no  *)
(* more trust than the best chain.                                         *)
(***************************************************************************)
Intermediate(g) ==
    CHOOSE a \in Chain[g] :
        /\ a = g \/ ChainTrust[a] > ChainTrust[pindexBest]
        /\ a = Genesis \/ ChainTrust[Prev[a]] <= ChainTrust[pindexBest]

\* The block after a on the way to g.
Toward(a, g) == CHOOSE b \in Chain[g] : Prev[b] = a

\* Altered: the pointer of the parent of a disconnected block is left alone.
Unlinked_Not(next, b) == next

\* hashNext (or pnext) once b is, or is no more, the next block of its parent.
Linked(next, b) == [next EXCEPT ![Prev[b]] = b]
Unlinked(next, b) == [next EXCEPT ![Prev[b]] = NoBlock]

(***************************************************************************)
(* ConnectBlock rewrites the "blockindex" record of b, with the pnext that *)
(* memory has for it, and then the one of its parent.                      *)
(***************************************************************************)
WriteNext(next, b) == Linked([next EXCEPT ![b] = pnext[b]], b)

\* Altered: the loop over vDisconnect is missing.
Relinked_ConnectOnly(next, from, to) ==
    [a \in Block |->
        IF \E c \in Chain[to] \ Chain[from] : Prev[c] = a
        THEN CHOOSE c \in Chain[to] \ Chain[from] : Prev[c] = a ELSE next[a]]

\* The two loops of Reorganize that bring pnext up to date after the commit.
Relinked(next, from, to) ==
    LET vDisconnect == Chain[from] \ Chain[to]
        vConnect    == Chain[to] \ Chain[from]
    IN  [a \in Block |->
            IF \E c \in vConnect : Prev[c] = a THEN CHOOSE c \in vConnect : Prev[c] = a
            ELSE IF \E d \in vDisconnect : Prev[d] = a THEN NoBlock
            ELSE next[a]]

\* Altered: the last invalid chain is recorded, not the best one.
InvalidChainFound_Last(b) == bnBestInvalidTrust' = ChainTrust[b]

InvalidChainFound(b) ==
    bnBestInvalidTrust' = IF ChainTrust[b] > bnBestInvalidTrust
                          THEN ChainTrust[b] ELSE bnBestInvalidTrust

Fault == faults < MaxFaults /\ faults' = faults + 1 /\ UNCHANGED crashes

-----------------------------------------------------------------------------
(***************************************************************************)
(* The database transaction of SetBestChain.  next and tx are the "block-  *)
(* index" pointers and the "tx" records it has written.                    *)
(***************************************************************************)
TxnBegin == txnTx' = dbTx /\ txnNext' = dbNext

TxnCommit(b, tx, next) ==
    /\ dbBest' = b /\ dbTx' = tx /\ dbNext' = next
    /\ txnTx' = tx /\ txnNext' = next

\* Altered: what was written in the transaction is kept.
TxnAbort_Keeps == dbTx' = txnTx /\ dbNext' = txnNext /\ UNCHANGED <<dbBest, txn>>

TxnAbort == txnTx' = dbTx /\ txnNext' = dbNext /\ UNCHANGED db

(***************************************************************************)
(* What the callers of SetBestChain do when it returns.                    *)
(***************************************************************************)
Call(who, b) == pc' = "setbest" /\ caller' = who /\ goal' = b /\ UNCHANGED <<mid, cur>>

Write(who, b) == pc' = "writesync" /\ caller' = who /\ goal' = b /\ UNCHANGED <<mid, cur>>

Goto(label) == pc' = label /\ UNCHANGED <<caller, goal, mid, cur>>

Succeed ==
    Goto(CASE caller = "block" -> "pending"
           [] caller = "load"  -> "keycheck"
           [] OTHER            -> "writesync")

\* Altered: the failed operation is tried again at once.
AfterFailure_Retry == "setbest"

AfterFailure ==
    CASE caller = "load"  -> "keycheck"
      [] caller = "reset" -> "down"
      [] OTHER            -> "idle"

Fail ==
    /\ Goto(AfterFailure)
    /\ hashInvalidCheckpoint' = IF caller \in {"pending", "message"}
                                THEN goal ELSE hashInvalidCheckpoint
    /\ UNCHANGED hashPendingCheckpoint

-----------------------------------------------------------------------------
(***************************************************************************)
(* AcceptBlock and AddToBlockIndex.  A block that is refused changes       *)
(* nothing here.  The index record is committed by itself, before          *)
(* SetBestChain is called for a chain with more trust than the best one.   *)
(***************************************************************************)
AcceptBlock(b) ==
    /\ pc = "idle"
    /\ Accepts(b)
    /\ mapBlockIndex' = mapBlockIndex \cup {b}
    /\ IF MoreTrust(b) THEN Call("block", b) ELSE Goto("pending")
    /\ UNCHANGED <<bnBestInvalidTrust, hashSyncCheckpoint,
                   best, pending, keys, db, txn, bounds, history>>

(***************************************************************************)
(* SetBestChain for a child of the best block: SetBestChainInner connects  *)
(* it and commits.                                                         *)
(***************************************************************************)
ExtendBestChain ==
    /\ pc = "setbest"
    /\ Prev[goal] = pindexBest
    /\ Connects(goal, dbTx, pindexBest)
    /\ TxnCommit(goal, ConnectBlock(goal, dbTx), WriteNext(dbNext, goal))
    /\ pnext' = Linked(pnext, goal)
    /\ pindexBest' = goal
    /\ Succeed
    /\ UNCHANGED <<index, pending, keys, bounds, history>>

(***************************************************************************)
(* ConnectBlock refuses the block or a write fails.  When the transaction  *)
(* cannot be begun, of a reorganize neither, or its commit fails, there is *)
(* no call of InvalidChainFound.                                           *)
(***************************************************************************)
SetBestChainFails ==
    /\ pc = "setbest"
    /\ \/ /\ Prev[goal] = pindexBest
          /\ (~Connects(goal, dbTx, pindexBest) /\ UNCHANGED bounds) \/ Fault
          /\ InvalidChainFound(goal)
       \/ Fault /\ UNCHANGED bnBestInvalidTrust
    /\ Fail
    /\ UNCHANGED <<mapBlockIndex, hashSyncCheckpoint, best, keys, db, txn, history>>

(***************************************************************************)
(* SetBestChain for any other block: Reorganize to pindexIntermediate in   *)
(* one database transaction.                                               *)
(***************************************************************************)
StartReorganize ==
    /\ pc = "setbest"
    /\ Prev[goal] # pindexBest
    /\ mid' = Intermediate(goal)
    /\ cur' = pindexBest
    /\ TxnBegin
    /\ pc' = "reorg"
    /\ UNCHANGED <<caller, goal, index, best, pending, keys, db, bounds, history>>

\* One iteration of the loop over vDisconnect, until the fork is reached.
DisconnectStep ==
    /\ pc = "reorg"
    /\ cur \notin Chain[mid]
    /\ Disconnects(cur, txnTx)
    /\ txnTx' = DisconnectBlock(cur, txnTx)
    /\ txnNext' = Unlinked(txnNext, cur)
    /\ cur' = Prev[cur]
    /\ UNCHANGED <<pc, caller, goal, mid, index, best, pending, keys, db, bounds, history>>

\* One iteration of the loop over vConnect.
ConnectStep ==
    /\ pc = "reorg"
    /\ cur \in Chain[mid]
    /\ cur # mid
    /\ LET b == Toward(cur, mid)
       IN  /\ Connects(b, txnTx, pindexBest)
           /\ txnTx' = ConnectBlock(b, txnTx)
           /\ txnNext' = WriteNext(txnNext, b)
           /\ cur' = b
    /\ UNCHANGED <<pc, caller, goal, mid, index, best, pending, keys, db, bounds, history>>

(***************************************************************************)
(* A block that cannot be disconnected or connected, or a read, write or   *)
(* commit that fails, aborts the transaction.                              *)
(***************************************************************************)
ReorganizeFails ==
    /\ pc = "reorg"
    /\ \/ /\ \/ cur \notin Chain[mid] /\ ~Disconnects(cur, txnTx)
             \/ cur \in Chain[mid] \ {mid} /\ ~Connects(Toward(cur, mid), txnTx, pindexBest)
          /\ UNCHANGED bounds
       \/ Fault
    /\ InvalidChainFound(goal)
    /\ Fail
    /\ TxnAbort
    /\ UNCHANGED <<mapBlockIndex, hashSyncCheckpoint, best, keys, history>>

(***************************************************************************)
(* The commit of Reorganize, then the two loops that bring pnext up to     *)
(* date.  pindexBest still is the old best block.                          *)
(***************************************************************************)
CommitReorganize ==
    /\ pc = "reorg"
    /\ cur = mid
    /\ TxnCommit(mid, txnTx, txnNext)
    /\ pnext' = Relinked(pnext, pindexBest, mid)
    /\ Goto("secondary")
    /\ UNCHANGED <<pindexBest, index, pending, keys, bounds, history>>

\* One postponed block: SetBestChainInner in a transaction of its own.
ConnectSecondary ==
    /\ pc = "secondary"
    /\ cur # goal
    /\ LET b == Toward(cur, goal)
       IN  /\ Connects(b, dbTx, pindexBest)
           /\ TxnCommit(b, ConnectBlock(b, dbTx), WriteNext(dbNext, b))
           /\ pnext' = Linked(pnext, b)
           /\ cur' = b
    /\ UNCHANGED <<pindexBest, pc, caller, goal, mid, index, pending, keys, bounds, history>>

(***************************************************************************)
(* A postponed block fails: the loop ends, SetBestChain goes on as if it   *)
(* had connected all of them.                                              *)
(***************************************************************************)
SecondaryFails ==
    /\ pc = "secondary"
    /\ cur # goal
    /\ LET b == Toward(cur, goal)
       IN  \/ ~Connects(b, dbTx, pindexBest) /\ InvalidChainFound(b) /\ UNCHANGED bounds
           \/ Fault /\ (InvalidChainFound(b) \/ UNCHANGED bnBestInvalidTrust)
    /\ pindexBest' = goal
    /\ desynced' = TRUE
    /\ Succeed
    /\ UNCHANGED <<mapBlockIndex, hashSyncCheckpoint, pnext, pending, keys, db, txn,
                   rewound, syncKey>>

FinishSetBestChain ==
    /\ pc = "secondary"
    /\ cur = goal
    /\ pindexBest' = goal
    /\ Succeed
    /\ UNCHANGED <<pnext, index, pending, keys, db, txn, bounds, history>>

-----------------------------------------------------------------------------
(***************************************************************************)
(* Synchronized checkpoints.                                               *)
(***************************************************************************)
\* A checkpoint c that advances the current one: reorganize to it if needed.
Enforce(who, c) == IF IsInMainChain(c) THEN Write(who, c) ELSE Call(who, c)

NoteConflict(c) ==
    hashInvalidCheckpoint' = IF Conflicts(c) THEN c ELSE hashInvalidCheckpoint

\* The last call of AcceptBlock.
AcceptPendingSyncCheckpoint ==
    LET c == hashPendingCheckpoint
    IN  /\ pc = "pending"
        /\ \/ /\ ~Known(c)
              /\ Goto("idle")
              /\ UNCHANGED <<pending, bounds>>
           \/ /\ Known(c)
              /\ ~Advances(c)
              /\ NoteConflict(c)
              /\ hashPendingCheckpoint' = NoBlock
              /\ Goto("idle")
              /\ UNCHANGED bounds
           \/ /\ Known(c)
              /\ Advances(c)
              /\ Enforce("pending", c)
              /\ UNCHANGED <<pending, bounds>>
           \/ /\ Known(c)       \* ReadFromDisk fails
              /\ Advances(c)
              /\ ~IsInMainChain(c)
              /\ Fault
              /\ Goto("idle")
              /\ UNCHANGED pending
        /\ UNCHANGED <<index, best, keys, db, txn, history>>

\* A "checkpoint" message signed with the master key of this binary.
ProcessSyncCheckpoint(c) ==
    /\ pc = "idle"
    /\ c \in SyncCheckpoints[strMasterPubKey]
    /\ \/ /\ ~Known(c)
          /\ hashPendingCheckpoint' = c
          /\ UNCHANGED <<hashInvalidCheckpoint, control>>
       \/ /\ Known(c)
          /\ ~Advances(c)
          /\ NoteConflict(c)
          /\ UNCHANGED <<hashPendingCheckpoint, control>>
       \/ /\ Known(c)
          /\ Advances(c)
          /\ Enforce("message", c)
          /\ UNCHANGED pending
    /\ UNCHANGED <<index, best, keys, db, txn, bounds, history>>

\* The hardened checkpoints of the main chain; ResetSyncCheckpoint takes the last.
HardenedInMainChain == {h \in Hardened : Known(h) /\ IsInMainChain(h)}

LastHardenedInMainChain ==
    CHOOSE h \in HardenedInMainChain : \A g \in HardenedInMainChain : Height[g] <= Height[h]

\* WriteSyncCheckpoint and what its three callers do after it.
WriteSyncCheckpoint ==
    /\ pc = "writesync"
    /\ caller = "reset" => HardenedInMainChain # {}
    /\ hashSyncCheckpoint' = IF caller = "reset" THEN LastHardenedInMainChain ELSE goal
    /\ syncKey' = strMasterPubKey
    /\ hashPendingCheckpoint' = IF caller = "reset" THEN hashPendingCheckpoint ELSE NoBlock
    /\ Goto("idle")
    /\ UNCHANGED <<mapBlockIndex, bnBestInvalidTrust, hashInvalidCheckpoint,
                   best, keys, db, txn, bounds, desynced, rewound>>

\* The write fails.  (The genesis block is always there for ResetSyncCheckpoint.)
WriteSyncCheckpointFails ==
    /\ pc = "writesync"
    /\ Fault
    /\ Goto(IF caller = "reset" THEN "down" ELSE "idle")
    /\ UNCHANGED <<index, best, pending, keys, db, txn, history>>

\* The first half of ResetSyncCheckpoint; the second chooses what to write.
ResetSyncCheckpoint ==
    /\ pc = "reset"
    /\ \/ /\ Known(LastHardened)
          /\ Enforce("reset", LastHardened)
          /\ UNCHANGED <<pending, bounds>>
       \/ /\ ~Known(LastHardened)
          /\ hashPendingCheckpoint' = LastHardened
          /\ Write("reset", goal)
          /\ UNCHANGED <<hashInvalidCheckpoint, bounds>>
       \/ /\ Known(LastHardened)       \* ReadFromDisk fails
          /\ ~IsInMainChain(LastHardened)
          /\ Fault
          /\ Goto("down")
          /\ UNCHANGED pending
    /\ UNCHANGED <<index, best, keys, db, txn, history>>

-----------------------------------------------------------------------------
(***************************************************************************)
(* The process dies between two steps: the open transaction is lost and    *)
(* memory means nothing until LoadBlockIndex has run.                      *)
(***************************************************************************)
Crash ==
    /\ pc # "down"
    /\ crashes < MaxCrashes
    /\ crashes' = crashes + 1
    /\ Goto("down")
    /\ TxnAbort
    /\ UNCHANGED <<index, best, pending, keys, faults, history>>

(***************************************************************************)
(* The node is started, perhaps with a binary that has another master key. *)
(* CTxDB::LoadBlockIndex reads the database and checks the blocks of the   *)
(* best chain again; when the lowest one it finds bad has parent fork, it  *)
(* calls SetBestChain(fork) and ignores the result.                        *)
(***************************************************************************)
LoadBlockIndex ==
    /\ pc = "down"
    /\ pindexBest' = dbBest
    /\ pnext' = dbNext
    /\ hashPendingCheckpoint' = NoBlock
    /\ hashInvalidCheckpoint' = NoBlock
    /\ strMasterPubKey' \in strMasterPubKey .. MaxRekeys
    /\ \/ Goto("keycheck") /\ UNCHANGED rewound
       \/ /\ MayRewind
          /\ \E fork \in Chain[dbBest] \ {dbBest} : Call("load", fork)
          /\ rewound' = TRUE
    /\ UNCHANGED <<index, dbKey, db, txn, bounds, desynced, syncKey>>

\* A changed master key is recorded and committed, then the checkpoint is reset.
CheckMasterKey ==
    /\ pc = "keycheck"
    /\ \/ dbKey = strMasterPubKey /\ Goto("idle") /\ UNCHANGED <<dbKey, bounds>>
       \/ /\ dbKey # strMasterPubKey
          /\ dbKey' = strMasterPubKey
          /\ Goto("reset")
          /\ UNCHANGED bounds
       \/ dbKey # strMasterPubKey /\ Fault /\ Goto("down") /\ UNCHANGED dbKey
    /\ UNCHANGED <<strMasterPubKey, index, best, pending, db, txn, history>>

-----------------------------------------------------------------------------
\* The steps of the thread that holds cs_main.
Step ==
    \/ ExtendBestChain \/ SetBestChainFails
    \/ StartReorganize \/ DisconnectStep \/ ConnectStep
    \/ ReorganizeFails \/ CommitReorganize
    \/ ConnectSecondary \/ SecondaryFails \/ FinishSetBestChain
    \/ AcceptPendingSyncCheckpoint
    \/ WriteSyncCheckpoint \/ WriteSyncCheckpointFails
    \/ ResetSyncCheckpoint \/ LoadBlockIndex \/ CheckMasterKey

Next ==
    \/ \E b \in Block : AcceptBlock(b) \/ ProcessSyncCheckpoint(b)
    \/ Step
    \/ Crash

Spec == Init /\ [][Next]_vars

\* The thread that holds cs_main goes on with what it has begun.
LiveSpec == Spec /\ WF_vars(Step)

-----------------------------------------------------------------------------
(***************************************************************************)
(* Properties.                                                             *)
(***************************************************************************)
Labels == {"idle", "setbest", "reorg", "secondary", "pending", "writesync",
           "reset", "keycheck", "down"}

\* Every variable has its type, and what is worked on has been indexed.
TypeOK ==
    /\ mapBlockIndex \subseteq Block
    /\ Genesis \in mapBlockIndex
    /\ \A b \in mapBlockIndex \ {Genesis} : Prev[b] \in mapBlockIndex
    /\ bnBestInvalidTrust \in Nat
    /\ {hashSyncCheckpoint, pindexBest, dbBest, goal, mid, cur} \subseteq mapBlockIndex
    /\ {hashPendingCheckpoint, hashInvalidCheckpoint} \subseteq BlockOrNone
    /\ {pnext, dbNext, txnNext} \subseteq [Block -> BlockOrNone]
    /\ {dbTx, txnTx} \subseteq Index
    /\ {strMasterPubKey, dbKey, syncKey} \subseteq 0 .. MaxRekeys
    /\ pc \in Labels
    /\ caller \in {"block", "pending", "message", "reset", "load"}
    /\ crashes \in 0 .. MaxCrashes
    /\ faults \in 0 .. MaxFaults
    /\ desynced \in BOOLEAN
    /\ rewound \in BOOLEAN

(***************************************************************************)
(* The committed transaction index is the index of the committed best      *)
(* chain at every moment, so also after a crash anywhere in a reorganize:  *)
(* each record is there and points into the chain, each output is marked   *)
(* spent exactly when a block of the chain spends it.  (ConnectBlock,      *)
(* DisconnectBlock, Reorganize; not after a postponed block has failed.)   *)
(***************************************************************************)
TxIndexMatchesBestChain == desynced \/ dbTx = IndexOf(dbBest)

(***************************************************************************)
(* No output is spent twice on the committed best chain, no transaction    *)
(* is in it twice, nothing is spent before it exists (FetchInputs,         *)
(* ConnectInputs, BIP30 and the height in the coinbase together).          *)
(***************************************************************************)
BestChainIsSound == desynced \/ SoundChain(dbBest)

\* The forward pointers of the blocks of the chain that ends in tip.
NextOf(tip) == [a \in Block |-> IF a \in Chain[tip] \ {tip} THEN Toward(a, tip) ELSE NoBlock]

(***************************************************************************)
(* The forward pointers, on disk and in memory, are those of the committed *)
(* best chain, and between operations memory and disk agree on the best    *)
(* block: IsInMainChain() is true of its blocks and of no other.           *)
(***************************************************************************)
PointersFollowBestChain ==
    \/ desynced
    \/ /\ dbNext = NextOf(dbBest)
       /\ pc # "down" => pnext = dbNext
       /\ pc \notin {"down", "secondary"} => pindexBest = dbBest

(***************************************************************************)
(* The three together: what the database says after any crash is one best  *)
(* chain, its index and its pointers, from which LoadBlockIndex can start. *)
(***************************************************************************)
DatabaseIsSound == TxIndexMatchesBestChain /\ BestChainIsSound /\ PointersFollowBestChain

(***************************************************************************)
(* The synchronized checkpoint is a block of the best chain, in memory and *)
(* on disk, whatever crashes: CheckSync and ValidateSyncCheckpoint let     *)
(* nothing replace it (a clock set back at start-up aside).                *)
(***************************************************************************)
SyncCheckpointInBestChain ==
    \/ desynced \/ rewound \/ NoSyncCheckpoints
    \/ /\ hashSyncCheckpoint \in Chain[dbBest]
       /\ pc # "down" => hashSyncCheckpoint \in Chain[pindexBest]

(***************************************************************************)
(* The synchronized checkpoint only moves to its descendants: the reset    *)
(* after a change of the master key is the one way back.                   *)
(***************************************************************************)
SyncCheckpointOnlyAdvances ==
    [][caller = "reset" \/ hashSyncCheckpoint \in Chain[hashSyncCheckpoint']]_vars

(***************************************************************************)
(* A received block never moves the committed best chain to one that has   *)
(* no more trust: not by the reorganize to pindexIntermediate, not by the  *)
(* postponed connects after it, so not by a crash between them either.     *)
(***************************************************************************)
BestTrustOnlyRises ==
    [][\/ desynced \/ dbBest' = dbBest \/ caller # "block"
       \/ ChainTrust[dbBest'] > ChainTrust[dbBest]]_vars

(***************************************************************************)
(* Before the first synchronized checkpoint, crash or storage fault, an    *)
(* indexed chain with more trust than the best one is one that was found   *)
(* invalid, and bnBestInvalidTrust, from which GetWarnings warns, covers   *)
(* it.                                                                     *)
(***************************************************************************)
BetterChainIsRecorded ==
    pc = "idle" /\ hashSyncCheckpoint = Genesis /\ crashes + faults = 0 =>
        \A b \in mapBlockIndex :
        \/ ChainTrust[b] <= ChainTrust[pindexBest]
        \/ ChainTrust[b] <= bnBestInvalidTrust

(***************************************************************************)
(* The chain of b is valid: all its blocks connect, one after the other.   *)
(***************************************************************************)
ValidChain(b) ==
    \A a \in Chain[b] \ {Genesis} :
        CheckHardened(a) /\ CoinbaseHeight[Vtx[a][1]] = Height[a]
                         /\ Connects(a, IndexOf(Prev[a]), Prev[a])

\* Every operation that was begun is finished and the node takes messages again.
NodeBecomesIdle == (pc # "idle") ~> (pc = "idle")

(***************************************************************************)
(* What SetBestChain says of its postponed connects, "errors now are not   *)
(* fatal, we still did a reorganisation to a new chain in a valid way":    *)
(* between operations the best block in memory is the one the database was *)
(* brought to.                                                             *)
(***************************************************************************)
TipMatchesDatabase == pc = "idle" => pindexBest = dbBest

(***************************************************************************)
(* What LoadBlockIndex says of the master key, "if checkpoint master key   *)
(* changed must reset sync-checkpoint": a node that takes messages under a *)
(* key has no checkpoint that another key set.                             *)
(***************************************************************************)
KeyChangeResetsCheckpoint == pc = "idle" => syncKey = strMasterPubKey

=============================================================================
