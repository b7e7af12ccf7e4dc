---------------------------- MODULE OrphanBlocks ----------------------------
(***************************************************************************)
(* ProcessBlock (main.cpp): blocks arrive in any order, those without a    *)
(* known parent wait in mapOrphanBlocks, and the arrival of a parent lets  *)
(* AcceptBlock (module ChainState) take its descendants one by one.  The   *)
(* duplicate-stake rules of proof-of-stake refuse some blocks until an     *)
(* orphan child or a checkpoint wants them.                                *)
(***************************************************************************)
EXTENDS ChainState

CONSTANTS
    NoStake,        \* the GetProofOfStake() of a proof-of-work block
    Stake,          \* CBlock::GetProofOfStake(): <<kernel prevout, nTime>>
    TooEasy,        \* blocks below the work ComputeMinWork or ComputeMinStake requires
    Tips            \* the best blocks of the peers

ASSUME StakeAssumption ==
    /\ Stake \in [Block -> {NoStake} \cup ((Tx \X Nat) \X Nat)]
    /\ TooEasy \subseteq Block
    /\ Stake[Genesis] = NoStake
    /\ Tips \subseteq Block \ {Genesis}

VARIABLES
    mapOrphanBlocks,        \* the orphan blocks
    mapOrphanBlocksByPrev,  \* the blocks with an entry under their parent
    setStakeSeen,           \* the proofs of the indexed blocks
    setStakeSeenOrphan,     \* the proofs of the orphan blocks
    vWorkQueue,             \* hashes whose orphan children are still to be taken
    accepting,              \* the block AcceptBlock was called for, or NoBlock
    accepted,               \* what that call will return
    inFlight                \* blocks asked of a peer (AskFor) and not yet received

pool     == <<mapOrphanBlocks, mapOrphanBlocksByPrev>>
stakes   == <<setStakeSeen, setStakeSeenOrphan>>
call     == <<accepting, accepted>>
poolVars == <<pool, stakes, vWorkQueue, call, inFlight>>

PoolInit ==
    /\ Init
    /\ mapOrphanBlocks = {} /\ mapOrphanBlocksByPrev = {}
    /\ setStakeSeen = {} /\ setStakeSeenOrphan = {}
    /\ vWorkQueue = << >>
    /\ accepting = NoBlock /\ accepted = FALSE
    /\ inFlight = {}

-----------------------------------------------------------------------------
\* The thread that holds cs_main handles its next message.
Ready == pc = "idle" /\ accepting = NoBlock /\ vWorkQueue = << >>

IsProofOfStake(b) == Stake[b] # NoStake

\* Altered: a proof-of-work block leaves its null proof among them.
StakesOf_Any(blocks) == {Stake[b] : b \in blocks}

\* The proofs of the proof-of-stake blocks among some blocks.
StakesOf(blocks) == {Stake[b] : b \in {c \in blocks : IsProofOfStake(c)}}

AlreadyHave(b) == Known(b) \/ b \in mapOrphanBlocks

\* GetOrphanRoot: back from b along the orphans, to the last one.
OrphanRoot(b) ==
    CHOOSE r \in Chain[b] :
        /\ Prev[r] \notin mapOrphanBlocks
        /\ {a \in Chain[b] : Height[a] >= Height[r]} \subseteq mapOrphanBlocks \cup {b}

WantedByOrphan(b) == Prev[OrphanRoot(b)]

WantedByPendingSyncCheckpoint(b) ==
    /\ hashPendingCheckpoint # NoBlock
    /\ \/ b = hashPendingCheckpoint
       \/ /\ hashPendingCheckpoint \in mapOrphanBlocks
          /\ b = WantedByOrphan(hashPendingCheckpoint)

HasOrphanChild(b) == \E c \in mapOrphanBlocksByPrev : Prev[c] = b

\* Altered: a proof that was seen before is refused whoever wants the block.
DuplicateStake_Always(b, seen) == IsProofOfStake(b) /\ Stake[b] \in seen

(***************************************************************************)
(* Limited duplicity on stake: a proof that was seen before counts against *)
(* b unless b is wanted by an orphan child or by the pending checkpoint.   *)
(***************************************************************************)
DuplicateStake(b, seen) ==
    /\ IsProofOfStake(b)
    /\ Stake[b] \in seen
    /\ ~HasOrphanChild(b)
    /\ ~WantedByPendingSyncCheckpoint(b)

\* CheckProofOfStake finds the transaction of the kernel in the database.
StakeConnects(b) == IsProofOfStake(b) => dbTx.pos[Stake[b][1][1]] # NoBlock

\* ProcessBlock gives b up before it looks for its parent.
Refuses(b) ==
    \/ AlreadyHave(b)
    \/ DuplicateStake(b, setStakeSeen)
    \/ ~StakeConnects(b)
    \/ b \in TooEasy /\ Prev[b] # pindexBest /\ ~WantedByPendingSyncCheckpoint(b)

\* A peer that has hashStop answers PushGetBlocks(pindexBest, hashStop).
GetBlocks(hashStop) == Chain[hashStop] \ ({hashStop} \cup Chain[pindexBest])

\* SendMessages drops what has arrived meanwhile from what AskFor queued.
Ask(blocks) == inFlight \cup {b \in blocks : ~AlreadyHave(b)}

-----------------------------------------------------------------------------
(***************************************************************************)
(* What peers say.  A peer with best block t is new and gets PushGetBlocks *)
(* after its version message, or announces t with an inv.  (An inv of an   *)
(* indexed block on a long side chain asks like the version message; the   *)
(* filter of repeated requests in PushGetBlocks works per peer.)           *)
(***************************************************************************)
HandleVersion(t) ==
    /\ Ready
    /\ inFlight' = Ask(Chain[t] \ Chain[pindexBest])
    /\ UNCHANGED <<vars, pool, stakes, vWorkQueue, call>>

HandleInv(t) ==
    /\ Ready
    /\ inFlight' = IF t \in mapOrphanBlocks THEN Ask(GetBlocks(OrphanRoot(t))) ELSE Ask({t})
    /\ UNCHANGED <<vars, pool, stakes, vWorkQueue, call>>

\* The peer that was asked disconnects or does not answer.
LoseRequest(b) ==
    /\ b \in inFlight
    /\ inFlight' = inFlight \ {b}
    /\ UNCHANGED <<vars, pool, stakes, vWorkQueue, call>>

-----------------------------------------------------------------------------
(***************************************************************************)
(* ProcessBlock for a block a peer has sent: refused, put aside, or given  *)
(* to AcceptBlock.                                                         *)
(***************************************************************************)
\* AskForPendingSyncCheckpoint, while b is neither indexed nor an orphan yet.
PendingWanted(b) == {hashPendingCheckpoint} \ ({NoBlock, b} \cup mapBlockIndex \cup mapOrphanBlocks)

ReceiveRefused(b) ==
    /\ Ready
    /\ b \in inFlight
    /\ \/ /\ Refuses(b)
          /\ inFlight' = inFlight \ {b}
       \/ /\ ~Refuses(b)
          /\ IF Known(Prev[b]) THEN ~Accepts(b) ELSE DuplicateStake(b, setStakeSeenOrphan)
          /\ \E initialDownload \in BOOLEAN :
                inFlight' = (inFlight \cup IF initialDownload THEN {} ELSE PendingWanted(b)) \ {b}
    /\ UNCHANGED <<vars, pool, stakes, vWorkQueue, call>>

(***************************************************************************)
(* An orphan.  The peer is asked for the blocks before its root, unless it *)
(* was asked the same last time, and, except in the initial download, for  *)
(* the parent of the root directly.                                        *)
(***************************************************************************)
ReceiveOrphan(b) ==
    /\ Ready
    /\ b \in inFlight
    /\ ~Refuses(b)
    /\ ~Known(Prev[b])
    /\ ~DuplicateStake(b, setStakeSeenOrphan)
    /\ mapOrphanBlocks' = mapOrphanBlocks \cup {b}
    /\ mapOrphanBlocksByPrev' = mapOrphanBlocksByPrev \cup {b}
    /\ setStakeSeenOrphan' = setStakeSeenOrphan \cup StakesOf({b})
    /\ \E repeated, initialDownload \in BOOLEAN :
          inFlight' = Ask( (IF repeated THEN {} ELSE GetBlocks(OrphanRoot(b))) \cup
                           (IF initialDownload THEN {}
                            ELSE {WantedByOrphan(b)} \cup PendingWanted(b)) ) \ {b}
    /\ UNCHANGED <<vars, setStakeSeen, vWorkQueue, call>>

\* The call of AcceptBlock and AddToBlockIndex's setStakeSeen.insert.
BeginAccept(b) ==
    /\ AcceptBlock(b)
    /\ accepting' = b
    /\ accepted' = TRUE
    /\ setStakeSeen' = setStakeSeen \cup StakesOf({b})

ReceiveChild(b) ==
    /\ Ready
    /\ b \in inFlight
    /\ ~Refuses(b)
    /\ BeginAccept(b)
    /\ \E initialDownload \in BOOLEAN :
          inFlight' = Ask(IF initialDownload THEN {} ELSE PendingWanted(b)) \ {b}
    /\ UNCHANGED <<pool, setStakeSeenOrphan, vWorkQueue>>

\* AcceptBlock has returned to ProcessBlock.
AcceptReturns ==
    /\ pc = "idle"
    /\ accepting # NoBlock
    /\ vWorkQueue = << >>
    /\ vWorkQueue' = IF accepted THEN <<accepting>> ELSE << >>
    /\ accepting' = NoBlock
    /\ UNCHANGED <<vars, pool, stakes, accepted, inFlight>>

\* Altered: the proofs of the orphans that leave the pool are not forgotten.
Forget_KeepsStake(b) == mapOrphanBlocks' = mapOrphanBlocks \ {b} /\ UNCHANGED setStakeSeenOrphan

\* The orphan b has been given to AcceptBlock and is deleted.
Forget(b) ==
    /\ mapOrphanBlocks' = mapOrphanBlocks \ {b}
    /\ setStakeSeenOrphan' = setStakeSeenOrphan \ {Stake[b]}

\* An orphan child of the first hash in the work queue.
TakeOrphan(b) ==
    /\ pc = "idle"
    /\ accepting = NoBlock
    /\ vWorkQueue # << >>
    /\ b \in mapOrphanBlocks
    /\ Prev[b] = Head(vWorkQueue)
    /\ \/ BeginAccept(b) /\ UNCHANGED <<mapOrphanBlocks, setStakeSeenOrphan>>
       \/ ~Accepts(b) /\ Forget(b) /\ UNCHANGED <<vars, setStakeSeen, call>>
    /\ UNCHANGED <<mapOrphanBlocksByPrev, vWorkQueue, inFlight>>

\* AcceptBlock has returned to the loop over the orphans.
OrphanReturns ==
    /\ pc = "idle"
    /\ accepting # NoBlock
    /\ vWorkQueue # << >>
    /\ vWorkQueue' = IF accepted THEN Append(vWorkQueue, accepting) ELSE vWorkQueue
    /\ Forget(accepting)
    /\ accepting' = NoBlock
    /\ UNCHANGED <<vars, mapOrphanBlocksByPrev, setStakeSeen, accepted, inFlight>>

\* Altered: the hash leaves the queue while it still has orphan children.
ChildrenTaken_First(h) == TRUE

ChildrenTaken(h) == \A c \in mapOrphanBlocks : Prev[c] # h

\* Altered: the entries of the hash stay in the map.
WithoutEntries_Keeps(h) == mapOrphanBlocksByPrev

\* mapOrphanBlocksByPrev.erase(h)
WithoutEntries(h) == {c \in mapOrphanBlocksByPrev : Prev[c] # h}

NextHash ==
    /\ pc = "idle"
    /\ accepting = NoBlock
    /\ vWorkQueue # << >>
    /\ ChildrenTaken(Head(vWorkQueue))
    /\ mapOrphanBlocksByPrev' = WithoutEntries(Head(vWorkQueue))
    /\ vWorkQueue' = Tail(vWorkQueue)
    /\ UNCHANGED <<vars, mapOrphanBlocks, stakes, call, inFlight>>

-----------------------------------------------------------------------------
(***************************************************************************)
(* The steps of module ChainState.  AcceptBlock returns false when         *)
(* SetBestChain does; a start builds setStakeSeen from the block index.    *)
(***************************************************************************)
ChainStep ==
    /\ Step
    /\ accepted' = (accepted /\ ~(caller = "block" /\ pc \in {"setbest", "reorg"} /\ pc' = "idle"))
    /\ setStakeSeen' = IF pc = "down" THEN StakesOf(mapBlockIndex) ELSE setStakeSeen
    /\ UNCHANGED <<pool, setStakeSeenOrphan, vWorkQueue, accepting, inFlight>>

\* A checkpoint whose block is unknown is asked for, or what its orphan wants.
ReceiveSyncCheckpoint(c) ==
    /\ Ready
    /\ ProcessSyncCheckpoint(c)
    /\ inFlight' = IF Known(c) THEN inFlight
                   ELSE Ask(GetBlocks(c) \cup
                            {IF c \in mapOrphanBlocks THEN WantedByOrphan(c) ELSE c})
    /\ UNCHANGED <<pool, stakes, vWorkQueue, call>>

CrashNode ==
    /\ Crash
    /\ mapOrphanBlocks' = {} /\ mapOrphanBlocksByPrev' = {}
    /\ setStakeSeen' = {} /\ setStakeSeenOrphan' = {}
    /\ vWorkQueue' = << >>
    /\ accepting' = NoBlock /\ accepted' = FALSE
    /\ inFlight' = {}

ProcessBlockStep ==
    \/ AcceptReturns \/ OrphanReturns \/ NextHash
    \/ \E b \in Block : TakeOrphan(b)

PoolNext ==
    \/ \E t \in Tips : HandleVersion(t) \/ HandleInv(t)
    \/ \E b \in Block : LoseRequest(b) \/ ReceiveRefused(b) \/ ReceiveOrphan(b) \/ ReceiveChild(b)
    \/ ProcessBlockStep
    \/ ChainStep
    \/ \E c \in Block : ReceiveSyncCheckpoint(c)
    \/ CrashNode

allVars == <<vars, poolVars>>

PoolSpec == PoolInit /\ [][PoolNext]_allVars

\* The blocks, after the first, that end a valid chain.
Honest == {b \in Block \ {Genesis} : ValidChain(b)}

(***************************************************************************)
(* The thread that holds cs_main goes on; peers with a valid chain         *)
(* announce their best block again and again (new ones connect), and       *)
(* though requests may be lost, a valid block that is asked for again and  *)
(* again arrives.  Of other peers nothing is assumed.                      *)
(***************************************************************************)
PoolFairness ==
    /\ WF_allVars(ChainStep \/ ProcessBlockStep)
    /\ \A t \in Tips \cap Honest : SF_allVars(HandleInv(t))
    /\ \A b \in Honest : SF_allVars(ReceiveRefused(b) \/ ReceiveOrphan(b) \/ ReceiveChild(b))

PoolLiveSpec == PoolSpec /\ PoolFairness

-----------------------------------------------------------------------------
\* Every variable has its type and AcceptBlock was called for an indexed block.
PoolTypeOK ==
    /\ mapOrphanBlocks \subseteq Block \ {Genesis}
    /\ mapOrphanBlocksByPrev \subseteq Block \ {Genesis}
    /\ setStakeSeen \cup setStakeSeenOrphan \subseteq {Stake[b] : b \in Block} \ {NoStake}
    /\ vWorkQueue \in Seq(mapBlockIndex)
    /\ accepting \in mapBlockIndex \cup {NoBlock}
    /\ accepted \in BOOLEAN
    /\ inFlight \subseteq Block

(***************************************************************************)
(* No entry of mapOrphanBlocksByPrev points to a deleted block, between    *)
(* messages; while the work queue runs the only such entries are those of  *)
(* its first hash, which the loop has passed.                              *)
(***************************************************************************)
NoDanglingOrphan ==
    /\ mapOrphanBlocks \subseteq mapOrphanBlocksByPrev
    /\ \A c \in mapOrphanBlocksByPrev \ mapOrphanBlocks :
          vWorkQueue # << >> /\ Prev[c] = Head(vWorkQueue)

(***************************************************************************)
(* An orphan does not wait for a block that is there: when its parent is   *)
(* indexed, between messages, SetBestChain has found the chain of the      *)
(* parent invalid (no storage fault, no crash).  Nothing would ever take   *)
(* such an orphan out of the pool.                                         *)
(***************************************************************************)
NoOrphanForgotten ==
    Ready => \A c \in mapOrphanBlocks : Known(Prev[c]) => ~ValidChain(Prev[c])

(***************************************************************************)
(* The proofs remembered are those of blocks that are there: a stake that  *)
(* outlived its orphan would keep honest orphans with it out for good.     *)
(***************************************************************************)
StakesSeenAreThere ==
    /\ pc # "down" => setStakeSeen = StakesOf(mapBlockIndex)
    /\ setStakeSeenOrphan \subseteq StakesOf(mapOrphanBlocks)

(***************************************************************************)
(* Both: nothing that refers to an orphan, by pointer or by stake, stays   *)
(* when ProcessBlock takes the orphan out.                                 *)
(***************************************************************************)
OrphansAreWhole == NoDanglingOrphan /\ StakesSeenAreThere

(***************************************************************************)
(* The best block of every peer that has a valid chain from the            *)
(* synchronized checkpoint and ends with a proof-of-work block is indexed  *)
(* in the end, and the best chain is a valid one that has as much trust as *)
(* any of them: in whatever order blocks arrive and whatever requests are  *)
(* lost, duplicate stakes and kernels that cannot be read yet hold nothing *)
(* up for good.  (A crash may leave an indexed block that SetBestChain was *)
(* not called for, and the stakes it holds cannot be used until a proof of *)
(* work follows it.)                                                       *)
(***************************************************************************)
EventuallyCaughtUp ==
    <>[](\/ crashes > 0
         \/ /\ ValidChain(pindexBest)
            /\ \A t \in Tips :
                  ValidChain(t) /\ ~IsProofOfStake(t) /\ hashSyncCheckpoint \in Chain[t]
                  => Known(t) /\ ChainTrust[t] <= ChainTrust[pindexBest])

=============================================================================
