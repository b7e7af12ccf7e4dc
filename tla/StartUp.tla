------------------------------- MODULE StartUp -------------------------------
(***************************************************************************)
(* From the start of the process to the running node, over a block         *)
(* database that an earlier process may have left at any commit:           *)
(* LoadBlockIndexGuts and CTxDB::LoadBlockIndex (db.cpp), LoadBlockIndex   *)
(* with the genesis block and the checkpoint key (main.cpp), the end of    *)
(* step 7 of AppInit2 (init.cpp).  A running node adds blocks, and the     *)
(* commit of a new index record may fail (AddToBlockIndex): memory then    *)
(* has a block that the disk has not, and a later start finds its children *)
(* but not the block.                                                      *)
(*                                                                         *)
(* SetBestChain is one commit here; ChainState has its steps.  Of the      *)
(* hardened checkpoints only the genesis block is in the tree.             *)
(***************************************************************************)
EXTENDS ChainData

CONSTANTS
    NewBlock,       \* the blocks that arrive while the node runs
    MaxKills,       \* bound on crashes
    MaxLost         \* bound on the commits that fail

ASSUME StartAssumption == NewBlock \subseteq Block

VARIABLES
    disk,           \* blkindex.dat
    mem,            \* what the process has read of it
    stage,          \* where the process is
    toRead,         \* the index records the cursor has not reached
    fRequestShutdown,
    goal,           \* the block that AddToBlockIndex has added
    kills, lost,    \* crashes and failed commits so far
    reborn          \* history: a genesis block was initialised over a database

startVars == <<disk, mem, stage, toRead, fRequestShutdown, goal, kills, lost, reborn>>

NoDisk == [record |-> {}, best |-> NoBlock, sync |-> NoBlock, key |-> FALSE, tx |-> {}]

\* The database of a node that has been running on the chain of tip.
DiskOf(tip) == [record |-> Chain[tip], best |-> tip, sync |-> Genesis, key |-> TRUE, tx |-> Chain[tip]]

NoMemory == [index |-> {}, ghost |-> {}, genesis |-> FALSE, best |-> NoBlock, sync |-> NoBlock]

StartInit ==
    /\ disk \in {NoDisk} \cup {DiskOf(tip) : tip \in NewBlock}
    /\ mem = NoMemory /\ stage = "off" /\ toRead = {}
    /\ fRequestShutdown = FALSE /\ goal = NoBlock
    /\ kills = 0 /\ lost = 0 /\ reborn = FALSE

Unmoved == UNCHANGED <<goal, kills, lost, reborn>>
Exit == stage' = "off" /\ mem' = NoMemory /\ toRead' = {} /\ fRequestShutdown' = FALSE
At(here) == stage = here /\ UNCHANGED <<fRequestShutdown, toRead>>

mapBlockIndex == mem.index \cup mem.ghost

-----------------------------------------------------------------------------
(***************************************************************************)
(* CTxDB::LoadBlockIndex.                                                  *)
(***************************************************************************)
Launch ==
    /\ stage = "off" /\ stage' = "guts"
    /\ toRead' = disk.record /\ mem' = NoMemory
    /\ UNCHANGED <<disk, fRequestShutdown>> /\ Unmoved

\* InsertBlockIndex makes an empty entry for a parent that has not been read, and the
\* entry stays empty if it has no record of its own.
Inserted(m, b) ==
    [m EXCEPT !.index = @ \cup {b},
              !.ghost = (@ \cup {Prev[b]}) \ (m.index \cup {b, NoBlock}),
              !.genesis = @ \/ b = Genesis]

\* One record of LoadBlockIndexGuts; they come in the order of their hashes.
ReadRecord(b) ==
    /\ stage = "guts" /\ ~fRequestShutdown /\ b \in toRead
    /\ toRead' = toRead \ {b} /\ mem' = Inserted(mem, b)
    /\ UNCHANGED <<disk, stage, fRequestShutdown>> /\ Unmoved

\* What LoadBlockIndex() does next: an empty index means a new database.
AfterLoad(m) == IF m.index = {} THEN "genesis" ELSE "key"

\* The cursor loop ends when a shutdown is requested, and so does the rest.
StopsReading ==
    /\ At("guts") /\ fRequestShutdown
    /\ stage' = AfterLoad(mem)
    /\ UNCHANGED <<disk, mem>> /\ Unmoved

\* hashBestChain or hashSyncCheckpoint "not loaded": the start fails.
PointersMissing == disk.best = NoBlock \/ disk.sync = NoBlock

LoadPointers ==
    /\ At("guts") /\ ~fRequestShutdown /\ toRead = {}
    /\ \/ disk.best = NoBlock /\ ~mem.genesis /\ UNCHANGED mem
       \/ /\ ~PointersMissing /\ disk.best \in mapBlockIndex
          /\ mem' = [mem EXCEPT !.best = disk.best, !.sync = disk.sync]
    /\ stage' = AfterLoad(mem')
    /\ UNCHANGED disk /\ Unmoved

LoadFails ==
    /\ stage = "guts" /\ ~fRequestShutdown /\ toRead = {}
    /\ \/ PointersMissing /\ mem.genesis
       \/ disk.best # NoBlock /\ disk.best \notin mapBlockIndex
    /\ Exit /\ UNCHANGED disk /\ Unmoved

-----------------------------------------------------------------------------
(***************************************************************************)
(* LoadBlockIndex: the genesis block, in four commits, and the key.        *)
(***************************************************************************)
AddGenesis ==
    /\ At("genesis") /\ stage' = "genesis best"
    /\ disk' = [disk EXCEPT !.record = @ \cup {Genesis}]
    /\ mem' = [mem EXCEPT !.index = {Genesis}]
    /\ reborn' = (reborn \/ disk.best # NoBlock)
    /\ UNCHANGED <<goal, kills, lost>>

SetGenesisBest ==
    /\ At("genesis best") /\ stage' = "genesis sync"
    /\ disk' = [disk EXCEPT !.best = Genesis]
    /\ mem' = [mem EXCEPT !.best = Genesis, !.genesis = TRUE]
    /\ Unmoved

WriteGenesisCheckpoint ==
    /\ At("genesis sync") /\ stage' = "genesis connect"
    /\ disk' = [disk EXCEPT !.sync = Genesis]
    /\ mem' = [mem EXCEPT !.sync = Genesis]
    /\ Unmoved

\* BIP30: what is indexed with an unspent output is not connected once more.
MayConnect(blocks) == blocks \cap disk.tx = {}

ConnectGenesis ==
    /\ At("genesis connect") /\ MayConnect({Genesis}) /\ stage' = "key"
    /\ disk' = [disk EXCEPT !.tx = @ \cup {Genesis}]
    /\ UNCHANGED mem /\ Unmoved

ConnectGenesisFails ==
    /\ stage = "genesis connect" /\ ~MayConnect({Genesis})
    /\ Exit /\ UNCHANGED disk /\ Unmoved

CheckKey ==
    /\ At("key")
    /\ \/ disk.key /\ stage' = "check" /\ UNCHANGED disk
       \/ ~disk.key /\ stage' = "reset" /\ disk' = [disk EXCEPT !.key = TRUE]
    /\ UNCHANGED mem /\ Unmoved

\* The last hardened checkpoint is pending; the genesis block is the one to go back to.
ResetCheckpoint ==
    /\ At("reset") /\ mem.best = Genesis /\ stage' = "check"
    /\ disk' = [disk EXCEPT !.sync = Genesis]
    /\ mem' = [mem EXCEPT !.sync = Genesis]
    /\ Unmoved

ResetFails ==
    /\ stage = "reset" /\ mem.best # Genesis
    /\ Exit /\ UNCHANGED disk /\ Unmoved

\* AppInit2 looks at fRequestShutdown once, behind LoadBlockIndex.
CheckRequest ==
    /\ stage = "check" /\ UNCHANGED disk /\ Unmoved
    /\ \/ fRequestShutdown /\ Exit
       \/ ~fRequestShutdown /\ stage' = "running" /\ UNCHANGED <<mem, toRead, fRequestShutdown>>

-----------------------------------------------------------------------------
(***************************************************************************)
(* The running node.                                                       *)
(***************************************************************************)
\* AddToBlockIndex: the entry is in memory before the commit, which may fail.
AddToIndex(b) ==
    /\ At("running") /\ b \notin mapBlockIndex /\ Prev[b] \in mapBlockIndex
    /\ mem' = [mem EXCEPT !.index = @ \cup {b}]
    /\ \/ /\ disk' = [disk EXCEPT !.record = @ \cup {b}]
          /\ goal' = b /\ stage' = "connect" /\ UNCHANGED lost
       \/ /\ lost < MaxLost /\ lost' = lost + 1
          /\ UNCHANGED <<disk, goal, stage>>
    /\ UNCHANGED <<kills, reborn>>

\* The chain trust as LoadBlockIndex adds it up: an entry without a record has none.
TrustInMemory(b) ==
    LET empty == Chain[b] \cap mem.ghost
    IN  IF empty = {} THEN ChainTrust[b]
        ELSE ChainTrust[b] - ChainTrust[CHOOSE x \in empty : \A y \in empty : Height[y] <= Height[x]]

ToConnect == Chain[goal] \ Chain[mem.best]

\* Altered: ConnectBlock does not write the record of the block again.
Connected_RecordKept(d) ==
    [d EXCEPT !.best = goal, !.tx = (@ \ (Chain[mem.best] \ Chain[goal])) \cup ToConnect]

\* ConnectBlock writes the record of every block it connects.
Connected(d) ==
    [d EXCEPT !.record = @ \cup ToConnect, !.best = goal,
              !.tx = (@ \ (Chain[mem.best] \ Chain[goal])) \cup ToConnect]

\* Reorganize finds no fork for a chain that has an empty entry.
CanReorganize ==
    /\ TrustInMemory(goal) > TrustInMemory(mem.best)
    /\ Chain[goal] \cap mem.ghost = {}
    /\ MayConnect(ToConnect)

SetBest ==
    /\ At("connect") /\ CanReorganize /\ stage' = "running"
    /\ disk' = Connected(disk) /\ mem' = [mem EXCEPT !.best = goal]
    /\ goal' = NoBlock /\ UNCHANGED <<kills, lost, reborn>>

NotBest ==
    /\ At("connect") /\ ~CanReorganize /\ stage' = "running"
    /\ goal' = NoBlock /\ UNCHANGED <<disk, mem, kills, lost, reborn>>

\* HandleSIGTERM; a running node then shuts down.
HandleSIGTERM ==
    /\ stage # "off" /\ ~fRequestShutdown
    /\ fRequestShutdown' = TRUE
    /\ UNCHANGED <<disk, mem, stage, toRead>> /\ Unmoved

ShutDown ==
    /\ stage = "running" /\ fRequestShutdown
    /\ Exit /\ UNCHANGED disk /\ Unmoved

Die ==
    /\ stage # "off" /\ kills < MaxKills /\ kills' = kills + 1
    /\ Exit /\ goal' = NoBlock /\ UNCHANGED <<disk, lost, reborn>>

StartNext ==
    \/ Launch \/ \E b \in Block : ReadRecord(b)
    \/ StopsReading \/ LoadPointers \/ LoadFails
    \/ AddGenesis \/ SetGenesisBest \/ WriteGenesisCheckpoint
    \/ ConnectGenesis \/ ConnectGenesisFails
    \/ CheckKey \/ ResetCheckpoint \/ ResetFails \/ CheckRequest
    \/ \E b \in NewBlock : AddToIndex(b)
    \/ SetBest \/ NotBest \/ HandleSIGTERM \/ ShutDown \/ Die

StartSpec == StartInit /\ [][StartNext]_startVars

-----------------------------------------------------------------------------
\* Every variable has its type.
StartTypeOK ==
    /\ disk \in [record : SUBSET Block, best : Block \cup {NoBlock}, sync : {Genesis, NoBlock},
                 key : BOOLEAN, tx : SUBSET Block]
    /\ mem.index \subseteq Block /\ mem.ghost \subseteq Block \ mem.index
    /\ mem.best \in mem.index \cup {NoBlock}
    /\ toRead \subseteq Block /\ goal \in Block \cup {NoBlock}
    /\ fRequestShutdown \in BOOLEAN /\ reborn \in BOOLEAN

(***************************************************************************)
(* A node that runs has all of its best chain: whatever commits failed and *)
(* wherever a process ended before, the blocks of the chain are in the     *)
(* index with their records, no empty entry is among them, and the node    *)
(* has a checkpoint (LoadBlockIndex, AddToBlockIndex, ConnectBlock).       *)
(***************************************************************************)
StartedNodeIsWhole ==
    stage \in {"running", "connect"} =>
        /\ mem.best = disk.best /\ mem.sync = disk.sync /\ mem.sync # NoBlock
        /\ mem.genesis /\ disk.key
        /\ Chain[mem.best] \subseteq mem.index \cap disk.record
        /\ Chain[mem.best] \ {Genesis} \subseteq disk.tx
        /\ reborn \/ disk.tx \subseteq Chain[mem.best]

\* The types, and that.
StartIsWhole == StartTypeOK /\ StartedNodeIsWhole

(***************************************************************************)
(* What AppInit2 says of a user who kills the program while the index      *)
(* loads: "If so, exit."  A stop does not take the best chain away.        *)
(***************************************************************************)
StopKeepsBestChain ==
    [][disk.best # NoBlock => ChainTrust[disk'.best] >= ChainTrust[disk.best]]_startVars

=============================================================================
