----------------------------- MODULE PartsProofs -----------------------------
(***************************************************************************)
(* Proofs about the two parts that live through crashes, and about what    *)
(* lives through the loss of a connection, the alerts.  StartUp: a node    *)
(* that runs has all of its best chain, for every block tree and every     *)
(* number of crashes and failed commits; what each commit leaves on disk   *)
(* is enough to start from, and what a start reads of it is closed under   *)
(* parents up to the empty entries InsertBlockIndex makes.  KeyPool: no    *)
(* key is lost or given out twice, for every number of keys, threads and   *)
(* stops; a section under cs_wallet takes a wallet that is right to one,   *)
(* and at every stage of EncryptWallet and Rewrite one of the two files    *)
(* has it all.  Messages: an alert that is in effect, or one that cancels  *)
(* it, is on every node that a node which has it can tell it to.           *)
(***************************************************************************)
EXTENDS StartUp, KeyPool, Messages, TxIndexProofs, FiniteSetTheorems, SequenceTheorems

-----------------------------------------------------------------------------
(***************************************************************************)
(* Start-up.                                                               *)
(***************************************************************************)
Loaded == {"key", "reset", "check", "running", "connect"}

Memory == [index : SUBSET Block, ghost : SUBSET Block, genesis : BOOLEAN,
           best : Block \cup {NoBlock}, sync : {Genesis, NoBlock}]

Disk == [record : SUBSET Block, best : Block \cup {NoBlock}, sync : {Genesis, NoBlock},
         key : BOOLEAN, tx : SUBSET Block]

StartShape ==
    /\ StartTypeOK /\ mem \in Memory
    /\ stage \in {"off", "guts", "genesis", "genesis best", "genesis sync", "genesis connect"} \cup Loaded
    /\ stage \in {"off", "genesis"} => mem = NoMemory
    /\ stage = "connect" => goal \in mem.index \cap disk.record

\* At every commit the records and the transactions of the best chain are there.
DiskIsWhole ==
    /\ disk.best # NoBlock =>
          Chain[disk.best] \subseteq disk.record /\ Chain[disk.best] \ {Genesis} \subseteq disk.tx
    /\ disk.best = NoBlock => disk.record \subseteq {Genesis} /\ disk.tx = {}
    /\ reborn \/ disk.best = NoBlock \/ disk.tx \subseteq Chain[disk.best]

\* The parent of an entry is an entry too, at worst an empty one.
IndexIsClosed == \A b \in mem.index : Prev[b] \in mapBlockIndex \cup {NoBlock}

\* What has been read so far, while the cursor moves.
ReadingIsRight ==
    stage = "guts" =>
        /\ mem.index \cup toRead = disk.record
        /\ (mem.genesis <=> Genesis \in mem.index)
        /\ mem.best = NoBlock /\ mem.sync = NoBlock
        /\ mem.index = {} => mem = NoMemory

\* How far the genesis block has got.
GenesisIsRight ==
    /\ stage \in {"genesis best", "genesis sync", "genesis connect"} =>
          /\ mem.index = {Genesis} /\ mem.ghost = {}
          /\ Genesis \in disk.record
          /\ reborn \/ disk.best \in {Genesis, NoBlock}
    /\ stage = "genesis best" => reborn \/ disk.best = NoBlock
    /\ stage \in {"genesis sync", "genesis connect"} =>
          mem.best = Genesis /\ mem.genesis /\ disk.best = Genesis
    /\ stage = "genesis connect" => mem.sync = Genesis /\ disk.sync = Genesis

\* Memory follows the disk once the index is loaded; it is without a best chain only
\* when the user has stopped the loading, and then no node starts to run.
LoadedIsRight ==
    stage \in Loaded =>
        /\ mem.best = NoBlock => fRequestShutdown /\ stage \in {"key", "reset", "check"}
        /\ mem.best # NoBlock =>
              /\ mem.best = disk.best /\ mem.sync = disk.sync /\ mem.sync # NoBlock
              /\ mem.genesis /\ Chain[mem.best] \subseteq mem.index
        /\ stage # "key" => disk.key

StartInv ==
    /\ StartShape /\ DiskIsWhole /\ IndexIsClosed
    /\ ReadingIsRight /\ GenesisIsRight /\ LoadedIsRight

-----------------------------------------------------------------------------
LEMMA ChainOfGenesis ==
  Chain[Genesis] = {Genesis} /\ Prev[Genesis] = NoBlock /\ Genesis \in Block /\ NoBlock \notin Block
  BY BlockAssumption

LEMMA NoMemoryIsMemory == NoMemory \in Memory
  BY DEF NoMemory, Memory

\* A whole database gives an index with the best chain in it.
LEMMA WholeChains ==
  ASSUME NEW tip \in Block
  PROVE  tip \in Chain[tip] /\ Genesis \in Chain[tip] /\ Chain[tip] \in SUBSET Block
  BY ChainEnds

LEMMA StartInvInit == StartInit => StartInv
<1> SUFFICES ASSUME StartInit PROVE StartInv
  OBVIOUS
<1> USE DEF StartInit, NoDisk, DiskOf, NoMemory
<1>1. \/ disk = NoDisk
      \/ \E tip \in Block : disk = DiskOf(tip)
  BY StartAssumption
<1>2. disk \in Disk
  <2>1. NoDisk \in Disk
    BY DEF Disk
  <2>2. ASSUME NEW tip \in Block PROVE DiskOf(tip) \in Disk
    BY <2>2, WholeChains, ChainOfGenesis DEF Disk
  <2> QED
    BY <1>1, <2>1, <2>2
<1>3. mem.index = {} /\ mem.ghost = {} /\ mem.best = NoBlock
  OBVIOUS
<1>4. StartTypeOK
  BY <1>2, <1>3 DEF StartTypeOK, Disk
<1>5. mem \in Memory
  BY NoMemoryIsMemory
<1>6. StartShape
  BY <1>4, <1>5 DEF StartShape, Loaded
<1>7. DiskIsWhole
  BY <1>1, WholeChains, ChainOfGenesis DEF DiskIsWhole
<1> QED
  BY <1>6, <1>7 DEF StartInv, IndexIsClosed, ReadingIsRight, GenesisIsRight, LoadedIsRight, Loaded

\* Every chain without an empty entry whose last block has an entry is in the index.
LEMMA NoGapBelow ==
  ASSUME StartShape, IndexIsClosed, NEW g \in mem.index, Chain[g] \cap mem.ghost = {}
  PROVE  Chain[g] \subseteq mem.index
<1> DEFINE S == Chain[g] \cap mem.index
<1>1. g \in Block /\ mem.index \subseteq Block
  BY DEF StartShape, StartTypeOK
<1>2. g \in S /\ S \subseteq Block
  BY <1>1, ChainEnds
<1>3. ASSUME NEW b \in S \ {Genesis} PROVE Prev[b] \in S
  <2>1. Prev[b] \in Chain[g]
    BY <1>1, <1>3, ParentOnChain
  <2>2. Prev[b] # NoBlock
    BY <1>1, <2>1, ChainEnds, BlockAssumption
  <2> QED
    BY <1>3, <2>1, <2>2 DEF IndexIsClosed, mapBlockIndex
<1> QED
  BY <1>2, <1>3, ClosedUnderPrev

-----------------------------------------------------------------------------
(***************************************************************************)
(* The steps.  Exit and Die leave nothing but the disk.                    *)
(***************************************************************************)
LEMMA ExitKeeps ==
  ASSUME StartInv, Exit, UNCHANGED <<disk, reborn>>, goal' \in Block \cup {NoBlock}
  PROVE  StartInv'
<1> USE DEF Exit
<1>1. mem' = [index |-> {}, ghost |-> {}, genesis |-> FALSE, best |-> NoBlock, sync |-> NoBlock]
  BY DEF NoMemory
<1>2. StartTypeOK'
  <2>1. disk' \in Disk /\ reborn' \in BOOLEAN
    BY DEF StartInv, StartShape, StartTypeOK, Disk
  <2>2. mem'.index = {} /\ mem'.ghost = {} /\ mem'.best = NoBlock
    BY <1>1
  <2>3. toRead' = {} /\ fRequestShutdown' = FALSE
    OBVIOUS
  <2> QED
    BY <2>1, <2>2, <2>3 DEF StartTypeOK, Disk
<1>3. mem' \in Memory
  BY NoMemoryIsMemory
<1>4. StartShape'
  BY <1>2, <1>3 DEF StartShape, Loaded
<1>5. DiskIsWhole'
  BY DEF StartInv, DiskIsWhole
<1>6. IndexIsClosed'
  BY <1>1 DEF IndexIsClosed
<1> QED
  BY <1>5, <1>6, <1>4 DEF StartInv, ReadingIsRight, GenesisIsRight, LoadedIsRight, Loaded

LEMMA ReadRecordKeeps == ASSUME StartInv, NEW b \in Block, ReadRecord(b) PROVE StartInv'
<1> USE DEF ReadRecord, Inserted, Unmoved, mapBlockIndex
<1>1. disk \in Disk /\ mem \in Memory
  BY DEF StartInv, StartShape, StartTypeOK, Disk
<1>2. disk' \in Disk
  BY <1>1, ChainOfGenesis DEF Disk
<1>3. mem' \in Memory
  <2>1. (mem.genesis \/ b = Genesis) \in BOOLEAN
    OBVIOUS
  <2>2. Prev[b] \in Block \cup {NoBlock}
    BY BlockAssumption
  <2>3. mem' = [index |-> mem.index \cup {b},
                ghost |-> (mem.ghost \cup {Prev[b]}) \ (mem.index \cup {b, NoBlock}),
                genesis |-> mem.genesis \/ b = Genesis, best |-> mem.best, sync |-> mem.sync]
    BY <1>1 DEF Memory
  <2>4. mem.index \cup {b} \in SUBSET Block
        /\ (mem.ghost \cup {Prev[b]}) \ (mem.index \cup {b, NoBlock}) \in SUBSET Block
        /\ mem.best \in Block \cup {NoBlock} /\ mem.sync \in {Genesis, NoBlock}
    BY <1>1, <2>2 DEF Memory
  <2> HIDE DEF ReadRecord, Inserted
  <2> QED
    BY <2>1, <2>3, <2>4 DEF Memory
<1>4. mem'.ghost \cap mem'.index = {} /\ mem'.best \in mem'.index \cup {NoBlock}
  BY <1>1, ChainOfGenesis DEF StartInv, StartShape, StartTypeOK
<1>5. toRead' \subseteq Block /\ goal' \in Block \cup {NoBlock} /\ fRequestShutdown' \in BOOLEAN
      /\ reborn' \in BOOLEAN
  BY <1>1 DEF StartInv, StartShape, StartTypeOK, Disk
<1>6. StartTypeOK'
  BY <1>2, <1>3, <1>4, <1>5 DEF StartTypeOK, Disk, Memory
<1>7. StartShape'
  BY <1>6, <1>3 DEF StartShape, StartInv, Loaded
<1>8. DiskIsWhole'
  BY <1>1, ChainOfGenesis DEF StartInv, DiskIsWhole, Disk
<1>9. IndexIsClosed'
  BY <1>1 DEF StartInv, IndexIsClosed
<1>10. ReadingIsRight'
  <2>1. mem'.index = mem.index \cup {b} /\ mem'.best = mem.best /\ mem'.sync = mem.sync
    BY <1>1 DEF Memory
  <2>2. (mem'.genesis <=> mem.genesis \/ b = Genesis)
    BY <1>1 DEF Memory
  <2>3. (mem'.genesis <=> Genesis \in mem'.index)
    BY <2>1, <2>2 DEF StartInv, ReadingIsRight
  <2> QED
    BY <2>1, <2>3 DEF StartInv, ReadingIsRight
<1>11. GenesisIsRight'
  BY <1>1 DEF StartInv, GenesisIsRight, StartShape, Memory
<1>12. LoadedIsRight'
  BY <1>1 DEF StartInv, LoadedIsRight, Loaded
<1> QED
  BY <1>7, <1>8, <1>9, <1>10, <1>11, <1>12 DEF StartInv

LEMMA AddToIndexKeeps == ASSUME StartInv, NEW b \in Block, AddToIndex(b) PROVE StartInv'
<1> USE DEF AddToIndex, At, mapBlockIndex
<1>1. disk \in Disk /\ mem \in Memory
  BY DEF StartInv, StartShape, StartTypeOK, Disk
<1>2. disk' \in Disk
  BY <1>1, ChainOfGenesis DEF Disk
<1>3. mem' \in Memory
  BY <1>1, ChainOfGenesis DEF Memory, StartInv, StartShape, StartTypeOK, Disk
<1>4. mem'.ghost \cap mem'.index = {} /\ mem'.best \in mem'.index \cup {NoBlock}
  BY <1>1, ChainOfGenesis DEF StartInv, StartShape, StartTypeOK
<1>5. toRead' \subseteq Block /\ goal' \in Block \cup {NoBlock} /\ fRequestShutdown' \in BOOLEAN
      /\ reborn' \in BOOLEAN
  BY <1>1 DEF StartInv, StartShape, StartTypeOK, Disk
<1>6. StartTypeOK'
  BY <1>2, <1>3, <1>4, <1>5 DEF StartTypeOK, Disk, Memory
<1>7. StartShape'
  <2>1. stage' = "connect" => goal' \in mem'.index \cap disk'.record
    BY <1>1 DEF Disk, Memory
  <2> QED
    BY <1>6, <1>3, <2>1 DEF StartShape, StartInv, Loaded
<1>8. DiskIsWhole'
  <2>1. disk.best # NoBlock
    BY DEF StartInv, LoadedIsRight, Loaded
  <2>2. disk'.best = disk.best /\ disk'.tx = disk.tx /\ disk.record \subseteq disk'.record
    BY <1>1 DEF Disk
  <2> QED
    BY <2>1, <2>2 DEF StartInv, DiskIsWhole
<1>9. IndexIsClosed'
  BY <1>1 DEF StartInv, IndexIsClosed
<1>10. ReadingIsRight'
  BY <1>1 DEF StartInv, ReadingIsRight
<1>11. GenesisIsRight'
  BY <1>1 DEF StartInv, GenesisIsRight, StartShape, Memory
<1>12. LoadedIsRight'
  <2>1. mem.index \subseteq mem'.index /\ mem'.best = mem.best /\ mem'.sync = mem.sync
        /\ mem'.genesis = mem.genesis
    BY <1>1 DEF Memory
  <2>2. disk'.best = disk.best /\ disk'.sync = disk.sync /\ disk'.key = disk.key
    BY <1>1 DEF Disk
  <2> QED
    BY <2>1, <2>2 DEF StartInv, LoadedIsRight, Loaded
<1> QED
  BY <1>7, <1>8, <1>9, <1>10, <1>11, <1>12 DEF StartInv

LEMMA LaunchKeeps == ASSUME StartInv, Launch PROVE StartInv'
<1> USE DEF Launch, Unmoved, mapBlockIndex
<1>1. disk \in Disk /\ mem \in Memory
  BY DEF StartInv, StartShape, StartTypeOK, Disk
<1>2. disk' \in Disk
  BY <1>1, ChainOfGenesis DEF Disk
<1>3. mem' \in Memory
  BY <1>1, ChainOfGenesis DEF Memory, StartInv, StartShape, StartTypeOK, Disk
<1>4. mem'.ghost \cap mem'.index = {} /\ mem'.best \in mem'.index \cup {NoBlock}
  BY <1>1, ChainOfGenesis DEF StartInv, StartShape, StartTypeOK
<1>5. toRead' \subseteq Block /\ goal' \in Block \cup {NoBlock} /\ fRequestShutdown' \in BOOLEAN
      /\ reborn' \in BOOLEAN
  BY <1>1 DEF StartInv, StartShape, StartTypeOK, Disk
<1>6. StartTypeOK'
  BY <1>2, <1>3, <1>4, <1>5 DEF StartTypeOK, Disk, Memory
<1>7. StartShape'
  BY <1>6, <1>3 DEF StartShape, StartInv, Loaded
<1>8. DiskIsWhole'
  BY <1>1, ChainOfGenesis DEF StartInv, DiskIsWhole, Disk
<1>9. IndexIsClosed'
  BY DEF IndexIsClosed, NoMemory
<1>10. ReadingIsRight'
  <2>1. mem' = [index |-> {}, ghost |-> {}, genesis |-> FALSE, best |-> NoBlock, sync |-> NoBlock]
    BY DEF NoMemory
  <2>2. mem'.index \cup toRead' = disk'.record /\ (mem'.genesis <=> Genesis \in mem'.index)
    BY <2>1
  <2>3. mem'.best = NoBlock /\ mem'.sync = NoBlock
    BY <2>1
  <2> QED
    BY <2>2, <2>3 DEF ReadingIsRight, NoMemory
<1>11. GenesisIsRight'
  BY <1>1 DEF StartInv, GenesisIsRight, StartShape, Memory
<1>12. LoadedIsRight'
  BY <1>1 DEF StartInv, LoadedIsRight, Loaded
<1> QED
  BY <1>7, <1>8, <1>9, <1>10, <1>11, <1>12 DEF StartInv

LEMMA StopsReadingKeeps == ASSUME StartInv, StopsReading PROVE StartInv'
<1> USE DEF StopsReading, At, AfterLoad, Unmoved, mapBlockIndex
<1>1. disk \in Disk /\ mem \in Memory
  BY DEF StartInv, StartShape, StartTypeOK, Disk
<1>2. disk' \in Disk
  BY <1>1, ChainOfGenesis DEF Disk
<1>3. mem' \in Memory
  BY <1>1, ChainOfGenesis DEF Memory, StartInv, StartShape, StartTypeOK, Disk
<1>4. mem'.ghost \cap mem'.index = {} /\ mem'.best \in mem'.index \cup {NoBlock}
  BY <1>1, ChainOfGenesis DEF StartInv, StartShape, StartTypeOK
<1>5. toRead' \subseteq Block /\ goal' \in Block \cup {NoBlock} /\ fRequestShutdown' \in BOOLEAN
      /\ reborn' \in BOOLEAN
  BY <1>1 DEF StartInv, StartShape, StartTypeOK, Disk
<1>6. StartTypeOK'
  BY <1>2, <1>3, <1>4, <1>5 DEF StartTypeOK, Disk, Memory
<1>7. StartShape'
  <2>1. stage' \in {"genesis", "key"} /\ (stage' = "genesis" => mem' = NoMemory)
    BY DEF StartInv, ReadingIsRight
  <2> QED
    BY <1>6, <1>3, <2>1 DEF StartShape, Loaded
<1>8. DiskIsWhole'
  BY <1>1, ChainOfGenesis DEF StartInv, DiskIsWhole, Disk
<1>9. IndexIsClosed'
  BY <1>1 DEF StartInv, IndexIsClosed
<1>10. ReadingIsRight'
  BY <1>1 DEF StartInv, ReadingIsRight
<1>11. GenesisIsRight'
  BY <1>1 DEF StartInv, GenesisIsRight, StartShape, Memory
<1>12. LoadedIsRight'
  <2>1. mem'.best = NoBlock /\ fRequestShutdown' /\ stage' \in {"genesis", "key"}
    BY DEF StartInv, ReadingIsRight
  <2> QED
    BY <2>1 DEF LoadedIsRight, Loaded
<1> QED
  BY <1>7, <1>8, <1>9, <1>10, <1>11, <1>12 DEF StartInv

LEMMA LoadPointersKeeps == ASSUME StartInv, LoadPointers PROVE StartInv'
<1> USE DEF LoadPointers, At, PointersMissing, AfterLoad, Unmoved, mapBlockIndex
<1>1. disk \in Disk /\ mem \in Memory
  BY DEF StartInv, StartShape, StartTypeOK, Disk
<1>2. disk' \in Disk
  BY <1>1, ChainOfGenesis DEF Disk
<1>3. mem' \in Memory
  BY <1>1, ChainOfGenesis DEF Memory, StartInv, StartShape, StartTypeOK, Disk
<1>4. \/ disk.best = NoBlock /\ mem.index = {} /\ mem' = NoMemory /\ mem = NoMemory
      \/ /\ disk.best # NoBlock /\ disk.sync # NoBlock
         /\ Chain[disk.best] \subseteq mem.index /\ disk.best \in mem.index /\ mem.genesis
         /\ mem' = [mem EXCEPT !.best = disk.best, !.sync = disk.sync]
  <2>1. CASE disk.best = NoBlock /\ ~mem.genesis /\ mem' = mem
    BY <2>1 DEF StartInv, ReadingIsRight, DiskIsWhole
  <2>2. CASE /\ disk.best # NoBlock /\ disk.sync # NoBlock
             /\ mem' = [mem EXCEPT !.best = disk.best, !.sync = disk.sync]
    <3>1. disk.best \in Block /\ Chain[disk.best] \subseteq mem.index
      BY <1>1, <2>2 DEF StartInv, ReadingIsRight, DiskIsWhole, Disk
    <3>2. disk.best \in mem.index /\ Genesis \in mem.index
      BY <3>1, WholeChains
    <3>3. mem.genesis
      BY <3>2 DEF StartInv, ReadingIsRight
    <3> QED
      BY <2>2, <3>1, <3>2, <3>3
  <2> QED
    BY <2>1, <2>2
<1>5. mem'.ghost \cap mem'.index = {} /\ mem'.best \in mem'.index \cup {NoBlock}
  <2>1. CASE mem' = NoMemory
    BY <2>1 DEF NoMemory
  <2>2. CASE disk.best \in mem.index /\ mem' = [mem EXCEPT !.best = disk.best, !.sync = disk.sync]
    <3>1. mem'.best = disk.best /\ mem'.index = mem.index /\ mem'.ghost = mem.ghost
      BY <1>1, <2>2 DEF Memory
    <3> QED
      BY <2>2, <3>1 DEF StartInv, StartShape, StartTypeOK
  <2> QED
    BY <1>4, <2>1, <2>2
<1>6. toRead' \subseteq Block /\ goal' \in Block \cup {NoBlock} /\ fRequestShutdown' \in BOOLEAN
      /\ reborn' \in BOOLEAN
  BY <1>1 DEF StartInv, StartShape, StartTypeOK, Disk
<1>7. StartTypeOK'
  BY <1>2, <1>3, <1>5, <1>6 DEF StartTypeOK, Disk, Memory
<1>8. \/ disk.best = NoBlock /\ mem' = NoMemory /\ mem'.index = {} /\ stage' = "genesis"
      \/ /\ mem'.best = disk.best /\ mem'.sync = disk.sync /\ disk.sync # NoBlock /\ mem'.genesis
         /\ mem'.index = mem.index /\ mem'.ghost = mem.ghost
         /\ Chain[disk.best] \subseteq mem'.index /\ stage' = "key"
  <2>1. CASE disk.best = NoBlock /\ mem' = NoMemory
    BY <2>1 DEF NoMemory
  <2>2. CASE /\ disk.best # NoBlock /\ disk.sync # NoBlock
             /\ Chain[disk.best] \subseteq mem.index /\ disk.best \in mem.index /\ mem.genesis
             /\ mem' = [mem EXCEPT !.best = disk.best, !.sync = disk.sync]
    <3>1. mem'.best = disk.best /\ mem'.sync = disk.sync /\ mem'.index = mem.index
          /\ mem'.ghost = mem.ghost
      BY <1>1, <2>2 DEF Memory
    <3>2. mem'.genesis = mem.genesis
      BY <1>1, <2>2 DEF Memory
    <3> QED
      BY <2>2, <3>1, <3>2
  <2> QED
    BY <1>4, <2>1, <2>2
<1>9. StartShape'
  BY <1>7, <1>3, <1>8 DEF StartShape, Loaded
<1>10. DiskIsWhole'
  BY <1>1, ChainOfGenesis DEF StartInv, DiskIsWhole, Disk
<1>11. IndexIsClosed'
  BY <1>8 DEF StartInv, IndexIsClosed
<1>12. ReadingIsRight'
  BY <1>1 DEF StartInv, ReadingIsRight
<1>13. GenesisIsRight'
  BY <1>1 DEF StartInv, GenesisIsRight, StartShape, Memory
<1>14. LoadedIsRight'
  BY <1>8 DEF LoadedIsRight, Loaded, StartInv
<1> QED
  BY <1>9, <1>10, <1>11, <1>12, <1>13, <1>14 DEF StartInv

LEMMA LoadFailsKeeps == ASSUME StartInv, LoadFails PROVE StartInv'
<1>1. goal \in Block \cup {NoBlock}
  BY DEF StartInv, StartShape, StartTypeOK
<1> QED
  BY <1>1, ExitKeeps DEF LoadFails, Unmoved

LEMMA AddGenesisKeeps == ASSUME StartInv, AddGenesis PROVE StartInv'
<1> USE DEF AddGenesis, At, mapBlockIndex
<1>1. disk \in Disk /\ mem \in Memory
  BY DEF StartInv, StartShape, StartTypeOK, Disk
<1>2. disk' \in Disk
  BY <1>1, ChainOfGenesis DEF Disk
<1>3. mem' \in Memory
  BY <1>1, ChainOfGenesis DEF Memory, StartInv, StartShape, StartTypeOK, Disk
<1>4. mem.index = {} /\ mem.ghost = {} /\ mem.best = NoBlock /\ mem.sync = NoBlock
  <2>1. mem = NoMemory
    BY DEF StartInv, StartShape
  <2> QED
    BY <2>1 DEF NoMemory
<1>5. mem'.index = {Genesis} /\ mem'.ghost = {} /\ mem'.best = NoBlock
  BY <1>1, <1>4 DEF Memory
<1>6. disk'.best = disk.best /\ disk'.record = disk.record \cup {Genesis}
  BY <1>1 DEF Disk
<1>7. mem'.ghost \cap mem'.index = {} /\ mem'.best \in mem'.index \cup {NoBlock}
  BY <1>5
<1>8. toRead' \subseteq Block /\ goal' \in Block \cup {NoBlock} /\ fRequestShutdown' \in BOOLEAN
      /\ reborn' \in BOOLEAN
  BY <1>1 DEF StartInv, StartShape, StartTypeOK, Disk
<1>9. StartTypeOK'
  BY <1>2, <1>3, <1>7, <1>8 DEF StartTypeOK, Disk, Memory
<1>10. StartShape'
  BY <1>9, <1>3 DEF StartShape, StartInv, Loaded
<1>11. DiskIsWhole'
  BY <1>1, ChainOfGenesis DEF StartInv, DiskIsWhole, Disk
<1>12. IndexIsClosed'
  BY <1>5, ChainOfGenesis DEF IndexIsClosed
<1>13. ReadingIsRight'
  BY <1>1 DEF StartInv, ReadingIsRight
<1>14. GenesisIsRight'
  BY <1>5, <1>6 DEF GenesisIsRight
<1>15. LoadedIsRight'
  BY <1>1 DEF StartInv, LoadedIsRight, Loaded
<1> QED
  BY <1>10, <1>11, <1>12, <1>13, <1>14, <1>15 DEF StartInv

LEMMA SetGenesisBestKeeps == ASSUME StartInv, SetGenesisBest PROVE StartInv'
<1> USE DEF SetGenesisBest, At, Unmoved, mapBlockIndex
<1>1. disk \in Disk /\ mem \in Memory
  BY DEF StartInv, StartShape, StartTypeOK, Disk
<1>2. disk' \in Disk
  BY <1>1, ChainOfGenesis DEF Disk
<1>3. mem' \in Memory
  BY <1>1, ChainOfGenesis DEF Memory, StartInv, StartShape, StartTypeOK, Disk
<1>4. mem.index = {Genesis} /\ mem.ghost = {} /\ Genesis \in disk.record
      /\ (reborn \/ disk.best \in {Genesis, NoBlock})
  BY DEF StartInv, GenesisIsRight
<1>5. mem'.index = {Genesis} /\ mem'.ghost = {} /\ mem'.best = Genesis /\ mem'.genesis
  BY <1>1, <1>4 DEF Memory
<1>6. disk'.best = Genesis /\ disk'.record = disk.record /\ disk'.tx = disk.tx
  BY <1>1 DEF Disk
<1>7. mem'.ghost \cap mem'.index = {} /\ mem'.best \in mem'.index \cup {NoBlock}
  BY <1>5
<1>8. toRead' \subseteq Block /\ goal' \in Block \cup {NoBlock} /\ fRequestShutdown' \in BOOLEAN
      /\ reborn' \in BOOLEAN
  BY <1>1 DEF StartInv, StartShape, StartTypeOK, Disk
<1>9. StartTypeOK'
  BY <1>2, <1>3, <1>7, <1>8 DEF StartTypeOK, Disk, Memory
<1>10. StartShape'
  BY <1>9, <1>3 DEF StartShape, StartInv, Loaded
<1>11. DiskIsWhole'
  <2>1. reborn \/ disk.tx = {}
    BY DEF StartInv, GenesisIsRight, DiskIsWhole
  <2> QED
    BY <1>4, <1>6, <2>1, ChainOfGenesis DEF DiskIsWhole
<1>12. IndexIsClosed'
  BY <1>5, ChainOfGenesis DEF IndexIsClosed
<1>13. ReadingIsRight'
  BY <1>1 DEF StartInv, ReadingIsRight
<1>14. GenesisIsRight'
  BY <1>4, <1>5, <1>6 DEF GenesisIsRight
<1>15. LoadedIsRight'
  BY <1>1 DEF StartInv, LoadedIsRight, Loaded
<1> QED
  BY <1>10, <1>11, <1>12, <1>13, <1>14, <1>15 DEF StartInv

LEMMA WriteGenesisCheckpointKeeps == ASSUME StartInv, WriteGenesisCheckpoint PROVE StartInv'
<1> USE DEF WriteGenesisCheckpoint, At, Unmoved, mapBlockIndex
<1>1. disk \in Disk /\ mem \in Memory
  BY DEF StartInv, StartShape, StartTypeOK, Disk
<1>2. disk' \in Disk
  BY <1>1, ChainOfGenesis DEF Disk
<1>3. mem' \in Memory
  BY <1>1, ChainOfGenesis DEF Memory, StartInv, StartShape, StartTypeOK, Disk
<1>4. mem.index = {Genesis} /\ mem.ghost = {} /\ Genesis \in disk.record
      /\ (reborn \/ disk.best \in {Genesis, NoBlock})
  BY DEF StartInv, GenesisIsRight
<1>5. mem'.index = {Genesis} /\ mem'.ghost = {} /\ mem'.best = Genesis /\ mem'.genesis
      /\ mem'.sync = Genesis
  BY <1>1, <1>4 DEF Memory, StartInv, GenesisIsRight
<1>6. disk'.best = Genesis /\ disk'.record = disk.record /\ disk'.tx = disk.tx /\ disk'.sync = Genesis
  BY <1>1 DEF Disk, StartInv, GenesisIsRight
<1>7. mem'.ghost \cap mem'.index = {} /\ mem'.best \in mem'.index \cup {NoBlock}
  BY <1>5
<1>8. toRead' \subseteq Block /\ goal' \in Block \cup {NoBlock} /\ fRequestShutdown' \in BOOLEAN
      /\ reborn' \in BOOLEAN
  BY <1>1 DEF StartInv, StartShape, StartTypeOK, Disk
<1>9. StartTypeOK'
  BY <1>2, <1>3, <1>7, <1>8 DEF StartTypeOK, Disk, Memory
<1>10. StartShape'
  BY <1>9, <1>3 DEF StartShape, StartInv, Loaded
<1>11. DiskIsWhole'
  BY <1>1, ChainOfGenesis DEF StartInv, DiskIsWhole, Disk
<1>12. IndexIsClosed'
  BY <1>5, ChainOfGenesis DEF IndexIsClosed
<1>13. ReadingIsRight'
  BY <1>1 DEF StartInv, ReadingIsRight
<1>14. GenesisIsRight'
  BY <1>4, <1>5, <1>6 DEF GenesisIsRight
<1>15. LoadedIsRight'
  BY <1>1 DEF StartInv, LoadedIsRight, Loaded
<1> QED
  BY <1>10, <1>11, <1>12, <1>13, <1>14, <1>15 DEF StartInv

LEMMA ConnectGenesisKeeps == ASSUME StartInv, ConnectGenesis PROVE StartInv'
<1> USE DEF ConnectGenesis, At, MayConnect, Unmoved, mapBlockIndex
<1>1. disk \in Disk /\ mem \in Memory
  BY DEF StartInv, StartShape, StartTypeOK, Disk
<1>2. disk' \in Disk
  BY <1>1, ChainOfGenesis DEF Disk
<1>3. mem' \in Memory
  BY <1>1, ChainOfGenesis DEF Memory, StartInv, StartShape, StartTypeOK, Disk
<1>4. mem'.ghost \cap mem'.index = {} /\ mem'.best \in mem'.index \cup {NoBlock}
  BY <1>1, ChainOfGenesis DEF StartInv, StartShape, StartTypeOK
<1>5. toRead' \subseteq Block /\ goal' \in Block \cup {NoBlock} /\ fRequestShutdown' \in BOOLEAN
      /\ reborn' \in BOOLEAN
  BY <1>1 DEF StartInv, StartShape, StartTypeOK, Disk
<1>6. StartTypeOK'
  BY <1>2, <1>3, <1>4, <1>5 DEF StartTypeOK, Disk, Memory
<1>7. StartShape'
  BY <1>6, <1>3 DEF StartShape, StartInv, Loaded
<1>8. mem.index = {Genesis} /\ mem.best = Genesis /\ mem.sync = Genesis /\ mem.genesis
  BY DEF StartInv, GenesisIsRight
<1>9. disk'.best = Genesis /\ disk'.sync = Genesis /\ disk'.record = disk.record
      /\ disk'.tx = disk.tx \cup {Genesis}
  BY <1>1 DEF Disk, StartInv, GenesisIsRight
<1>10. DiskIsWhole'
  <2>1. disk.best = Genesis
    BY DEF StartInv, GenesisIsRight
  <2> QED
    BY <1>9, <2>1, ChainOfGenesis DEF StartInv, DiskIsWhole
<1>11. IndexIsClosed'
  BY <1>1 DEF StartInv, IndexIsClosed
<1>12. ReadingIsRight'
  BY <1>1 DEF StartInv, ReadingIsRight
<1>13. GenesisIsRight'
  BY <1>1 DEF StartInv, GenesisIsRight, StartShape, Memory
<1>14. LoadedIsRight'
  BY <1>8, <1>9, ChainOfGenesis DEF LoadedIsRight, Loaded
<1> QED
  BY <1>7, <1>10, <1>11, <1>12, <1>13, <1>14 DEF StartInv

LEMMA ConnectGenesisFailsKeeps == ASSUME StartInv, ConnectGenesisFails PROVE StartInv'
<1>1. goal \in Block \cup {NoBlock}
  BY DEF StartInv, StartShape, StartTypeOK
<1> QED
  BY <1>1, ExitKeeps DEF ConnectGenesisFails, Unmoved

LEMMA CheckKeyKeeps == ASSUME StartInv, CheckKey PROVE StartInv'
<1> USE DEF CheckKey, At, Unmoved, mapBlockIndex
<1>1. disk \in Disk /\ mem \in Memory
  BY DEF StartInv, StartShape, StartTypeOK, Disk
<1>2. disk' \in Disk
  BY <1>1, ChainOfGenesis DEF Disk
<1>3. mem' \in Memory
  BY <1>1, ChainOfGenesis DEF Memory, StartInv, StartShape, StartTypeOK, Disk
<1>4. mem'.ghost \cap mem'.index = {} /\ mem'.best \in mem'.index \cup {NoBlock}
  BY <1>1, ChainOfGenesis DEF StartInv, StartShape, StartTypeOK
<1>5. toRead' \subseteq Block /\ goal' \in Block \cup {NoBlock} /\ fRequestShutdown' \in BOOLEAN
      /\ reborn' \in BOOLEAN
  BY <1>1 DEF StartInv, StartShape, StartTypeOK, Disk
<1>6. StartTypeOK'
  BY <1>2, <1>3, <1>4, <1>5 DEF StartTypeOK, Disk, Memory
<1>7. StartShape'
  BY <1>6, <1>3 DEF StartShape, StartInv, Loaded
<1>8. DiskIsWhole'
  BY <1>1, ChainOfGenesis DEF StartInv, DiskIsWhole, Disk
<1>9. IndexIsClosed'
  BY <1>1 DEF StartInv, IndexIsClosed
<1>10. ReadingIsRight'
  BY <1>1 DEF StartInv, ReadingIsRight
<1>11. GenesisIsRight'
  BY <1>1 DEF StartInv, GenesisIsRight, StartShape, Memory
<1>12. LoadedIsRight'
  <2>1. disk'.best = disk.best /\ disk'.sync = disk.sync
    BY <1>1 DEF Disk
  <2>2. disk'.key /\ stage' \in {"check", "reset"}
    BY <1>1 DEF Disk
  <2> QED
    BY <2>1, <2>2 DEF StartInv, LoadedIsRight, Loaded
<1> QED
  BY <1>7, <1>8, <1>9, <1>10, <1>11, <1>12 DEF StartInv

LEMMA ResetCheckpointKeeps == ASSUME StartInv, ResetCheckpoint PROVE StartInv'
<1> USE DEF ResetCheckpoint, At, Unmoved, mapBlockIndex
<1>1. disk \in Disk /\ mem \in Memory
  BY DEF StartInv, StartShape, StartTypeOK, Disk
<1>2. disk' \in Disk
  BY <1>1, ChainOfGenesis DEF Disk
<1>3. mem' \in Memory
  BY <1>1, ChainOfGenesis DEF Memory, StartInv, StartShape, StartTypeOK, Disk
<1>4. mem'.ghost \cap mem'.index = {} /\ mem'.best \in mem'.index \cup {NoBlock}
  BY <1>1, ChainOfGenesis DEF StartInv, StartShape, StartTypeOK
<1>5. toRead' \subseteq Block /\ goal' \in Block \cup {NoBlock} /\ fRequestShutdown' \in BOOLEAN
      /\ reborn' \in BOOLEAN
  BY <1>1 DEF StartInv, StartShape, StartTypeOK, Disk
<1>6. StartTypeOK'
  BY <1>2, <1>3, <1>4, <1>5 DEF StartTypeOK, Disk, Memory
<1>7. StartShape'
  BY <1>6, <1>3 DEF StartShape, StartInv, Loaded
<1>8. DiskIsWhole'
  BY <1>1, ChainOfGenesis DEF StartInv, DiskIsWhole, Disk
<1>9. IndexIsClosed'
  BY <1>1 DEF StartInv, IndexIsClosed
<1>10. ReadingIsRight'
  BY <1>1 DEF StartInv, ReadingIsRight
<1>11. GenesisIsRight'
  BY <1>1 DEF StartInv, GenesisIsRight, StartShape, Memory
<1>12. LoadedIsRight'
  BY <1>1 DEF StartInv, LoadedIsRight, Loaded
<1> QED
  BY <1>7, <1>8, <1>9, <1>10, <1>11, <1>12 DEF StartInv

LEMMA ResetFailsKeeps == ASSUME StartInv, ResetFails PROVE StartInv'
<1>1. goal \in Block \cup {NoBlock}
  BY DEF StartInv, StartShape, StartTypeOK
<1> QED
  BY <1>1, ExitKeeps DEF ResetFails, Unmoved

LEMMA CheckRequestKeeps == ASSUME StartInv, CheckRequest PROVE StartInv'
<1> USE DEF CheckRequest, Unmoved, Exit, mapBlockIndex
<1>1. disk \in Disk /\ mem \in Memory
  BY DEF StartInv, StartShape, StartTypeOK, Disk
<1>2. disk' \in Disk
  BY <1>1, ChainOfGenesis DEF Disk
<1>3. mem' \in Memory
  BY <1>1, NoMemoryIsMemory
<1>4. mem'.ghost \cap mem'.index = {} /\ mem'.best \in mem'.index \cup {NoBlock}
  BY <1>1 DEF StartInv, StartShape, StartTypeOK, NoMemory
<1>5. toRead' \subseteq Block /\ goal' \in Block \cup {NoBlock} /\ fRequestShutdown' \in BOOLEAN
      /\ reborn' \in BOOLEAN
  BY <1>1 DEF StartInv, StartShape, StartTypeOK, Disk
<1>6. StartTypeOK'
  BY <1>2, <1>3, <1>4, <1>5 DEF StartTypeOK, Disk, Memory
<1>7. StartShape'
  BY <1>6, <1>3 DEF StartShape, StartInv, Loaded
<1>8. DiskIsWhole'
  BY <1>1, ChainOfGenesis DEF StartInv, DiskIsWhole, Disk
<1>9. IndexIsClosed'
  BY <1>1 DEF StartInv, IndexIsClosed, NoMemory
<1>10. ReadingIsRight'
  BY <1>1 DEF StartInv, ReadingIsRight
<1>11. GenesisIsRight'
  BY <1>1 DEF StartInv, GenesisIsRight, StartShape, Memory
<1>12. LoadedIsRight'
  BY <1>1 DEF StartInv, LoadedIsRight, Loaded
<1> QED
  BY <1>7, <1>8, <1>9, <1>10, <1>11, <1>12 DEF StartInv

LEMMA SetBestKeeps == ASSUME StartInv, SetBest PROVE StartInv'
<1> USE DEF SetBest, At, CanReorganize, Connected, ToConnect, mapBlockIndex
<1>1. disk \in Disk /\ mem \in Memory
  BY DEF StartInv, StartShape, StartTypeOK, Disk
<1>2. /\ goal \in mem.index /\ goal \in Block /\ Chain[goal] \subseteq Block /\ goal \in Chain[goal]
      /\ mem.best # NoBlock /\ mem.best = disk.best /\ mem.best \in Block
      /\ Chain[mem.best] \subseteq Block
  <2>1. goal \in mem.index /\ goal \in Block
    BY DEF StartInv, StartShape, StartTypeOK
  <2>2. mem.best # NoBlock /\ mem.best = disk.best
    BY DEF StartInv, LoadedIsRight, Loaded
  <2>3. mem.best \in Block
    BY <1>1, <2>2 DEF Memory
  <2> QED
    BY <2>1, <2>2, <2>3, ChainEnds
<1>3. /\ disk'.record = disk.record \cup (Chain[goal] \ Chain[mem.best]) /\ disk'.best = goal
      /\ disk'.tx = (disk.tx \ (Chain[mem.best] \ Chain[goal])) \cup (Chain[goal] \ Chain[mem.best])
      /\ disk'.sync = disk.sync /\ disk'.key = disk.key
  BY <1>1 DEF Disk
<1>4. disk' \in Disk
  BY <1>1, <1>2 DEF Disk
<1>5. mem' \in Memory
  BY <1>1, ChainOfGenesis DEF Memory, StartInv, StartShape, StartTypeOK, Disk
<1>6. mem'.ghost \cap mem'.index = {} /\ mem'.best \in mem'.index \cup {NoBlock}
  BY <1>1, ChainOfGenesis DEF StartInv, StartShape, StartTypeOK
<1>7. toRead' \subseteq Block /\ goal' \in Block \cup {NoBlock} /\ fRequestShutdown' \in BOOLEAN
      /\ reborn' \in BOOLEAN
  BY <1>1 DEF StartInv, StartShape, StartTypeOK, Disk
<1>8. StartTypeOK'
  BY <1>4, <1>5, <1>6, <1>7 DEF StartTypeOK, Disk, Memory
<1>9. StartShape'
  BY <1>8, <1>5 DEF StartShape, StartInv, Loaded
<1>10. DiskIsWhole'
  <2>1. Chain[mem.best] \subseteq disk.record /\ Chain[mem.best] \ {Genesis} \subseteq disk.tx
        /\ (reborn \/ disk.tx \subseteq Chain[mem.best])
    BY <1>2 DEF StartInv, DiskIsWhole
  <2>2. goal # NoBlock
    BY <1>2, ChainOfGenesis
  <2> QED
    BY <1>3, <2>1, <2>2 DEF DiskIsWhole
<1>11. IndexIsClosed'
  BY <1>1 DEF StartInv, IndexIsClosed
<1>12. ReadingIsRight'
  BY <1>1 DEF StartInv, ReadingIsRight
<1>13. GenesisIsRight'
  BY <1>1 DEF StartInv, GenesisIsRight, StartShape, Memory
<1>14. LoadedIsRight'
  <2>1. Chain[goal] \subseteq mem.index
    BY <1>2, NoGapBelow DEF StartInv
  <2>2. mem'.best = goal /\ mem'.index = mem.index /\ mem'.sync = mem.sync
    BY <1>1 DEF Memory
  <2>3. mem'.genesis /\ mem.sync = disk.sync /\ mem.sync # NoBlock /\ disk.key
    BY <1>1, <1>2 DEF Memory, StartInv, LoadedIsRight, Loaded
  <2>4. goal # NoBlock
    BY <1>2, ChainOfGenesis
  <2> QED
    BY <1>3, <2>1, <2>2, <2>3, <2>4 DEF LoadedIsRight, Loaded
<1> QED
  BY <1>9, <1>10, <1>11, <1>12, <1>13, <1>14 DEF StartInv

LEMMA NotBestKeeps == ASSUME StartInv, NotBest PROVE StartInv'
<1> USE DEF NotBest, At, mapBlockIndex
<1>1. disk \in Disk /\ mem \in Memory
  BY DEF StartInv, StartShape, StartTypeOK, Disk
<1>2. disk' \in Disk
  BY <1>1, ChainOfGenesis DEF Disk
<1>3. mem' \in Memory
  BY <1>1, ChainOfGenesis DEF Memory, StartInv, StartShape, StartTypeOK, Disk
<1>4. mem'.ghost \cap mem'.index = {} /\ mem'.best \in mem'.index \cup {NoBlock}
  BY <1>1, ChainOfGenesis DEF StartInv, StartShape, StartTypeOK
<1>5. toRead' \subseteq Block /\ goal' \in Block \cup {NoBlock} /\ fRequestShutdown' \in BOOLEAN
      /\ reborn' \in BOOLEAN
  BY <1>1 DEF StartInv, StartShape, StartTypeOK, Disk
<1>6. StartTypeOK'
  BY <1>2, <1>3, <1>4, <1>5 DEF StartTypeOK, Disk, Memory
<1>7. StartShape'
  BY <1>6, <1>3 DEF StartShape, StartInv, Loaded
<1>8. DiskIsWhole'
  BY <1>1, ChainOfGenesis DEF StartInv, DiskIsWhole, Disk
<1>9. IndexIsClosed'
  BY <1>1 DEF StartInv, IndexIsClosed
<1>10. ReadingIsRight'
  BY <1>1 DEF StartInv, ReadingIsRight
<1>11. GenesisIsRight'
  BY <1>1 DEF StartInv, GenesisIsRight, StartShape, Memory
<1>12. LoadedIsRight'
  BY <1>1 DEF StartInv, LoadedIsRight, Loaded
<1> QED
  BY <1>7, <1>8, <1>9, <1>10, <1>11, <1>12 DEF StartInv

LEMMA HandleSIGTERMKeeps == ASSUME StartInv, HandleSIGTERM PROVE StartInv'
<1> USE DEF HandleSIGTERM, Unmoved, mapBlockIndex
<1>1. disk \in Disk /\ mem \in Memory
  BY DEF StartInv, StartShape, StartTypeOK, Disk
<1>2. disk' \in Disk
  BY <1>1, ChainOfGenesis DEF Disk
<1>3. mem' \in Memory
  BY <1>1, ChainOfGenesis DEF Memory, StartInv, StartShape, StartTypeOK, Disk
<1>4. mem'.ghost \cap mem'.index = {} /\ mem'.best \in mem'.index \cup {NoBlock}
  BY <1>1, ChainOfGenesis DEF StartInv, StartShape, StartTypeOK
<1>5. toRead' \subseteq Block /\ goal' \in Block \cup {NoBlock} /\ fRequestShutdown' \in BOOLEAN
      /\ reborn' \in BOOLEAN
  BY <1>1 DEF StartInv, StartShape, StartTypeOK, Disk
<1>6. StartTypeOK'
  BY <1>2, <1>3, <1>4, <1>5 DEF StartTypeOK, Disk, Memory
<1>7. StartShape'
  BY <1>6, <1>3 DEF StartShape, StartInv, Loaded
<1>8. DiskIsWhole'
  BY <1>1, ChainOfGenesis DEF StartInv, DiskIsWhole, Disk
<1>9. IndexIsClosed'
  BY <1>1 DEF StartInv, IndexIsClosed
<1>10. ReadingIsRight'
  BY <1>1 DEF StartInv, ReadingIsRight
<1>11. GenesisIsRight'
  BY <1>1 DEF StartInv, GenesisIsRight, StartShape, Memory
<1>12. LoadedIsRight'
  BY <1>1 DEF StartInv, LoadedIsRight, Loaded
<1> QED
  BY <1>7, <1>8, <1>9, <1>10, <1>11, <1>12 DEF StartInv

LEMMA ShutDownKeeps == ASSUME StartInv, ShutDown PROVE StartInv'
<1>1. goal \in Block \cup {NoBlock}
  BY DEF StartInv, StartShape, StartTypeOK
<1> QED
  BY <1>1, ExitKeeps DEF ShutDown, Unmoved

LEMMA DieKeeps == ASSUME StartInv, Die PROVE StartInv'
<1>1. goal \in Block \cup {NoBlock}
  BY DEF StartInv, StartShape, StartTypeOK
<1> QED
  BY <1>1, ExitKeeps DEF Die, Unmoved

LEMMA StartInvStep == StartInv /\ [StartNext]_startVars => StartInv'
<1> SUFFICES ASSUME StartInv, [StartNext]_startVars PROVE StartInv'
  OBVIOUS
<1>1. ASSUME NEW b \in Block, ReadRecord(b) PROVE StartInv'
  BY <1>1, ReadRecordKeeps
<1>2. ASSUME NEW b \in NewBlock, AddToIndex(b) PROVE StartInv'
  BY <1>2, StartAssumption, AddToIndexKeeps
<1>3. CASE Launch
  BY <1>3, LaunchKeeps
<1>4. CASE StopsReading
  BY <1>4, StopsReadingKeeps
<1>5. CASE LoadPointers
  BY <1>5, LoadPointersKeeps
<1>6. CASE LoadFails
  BY <1>6, LoadFailsKeeps
<1>7. CASE AddGenesis
  BY <1>7, AddGenesisKeeps
<1>8. CASE SetGenesisBest
  BY <1>8, SetGenesisBestKeeps
<1>9. CASE WriteGenesisCheckpoint
  BY <1>9, WriteGenesisCheckpointKeeps
<1>10. CASE ConnectGenesis
  BY <1>10, ConnectGenesisKeeps
<1>11. CASE ConnectGenesisFails
  BY <1>11, ConnectGenesisFailsKeeps
<1>12. CASE CheckKey
  BY <1>12, CheckKeyKeeps
<1>13. CASE ResetCheckpoint
  BY <1>13, ResetCheckpointKeeps
<1>14. CASE ResetFails
  BY <1>14, ResetFailsKeeps
<1>15. CASE CheckRequest
  BY <1>15, CheckRequestKeeps
<1>16. CASE SetBest
  BY <1>16, SetBestKeeps
<1>17. CASE NotBest
  BY <1>17, NotBestKeeps
<1>18. CASE HandleSIGTERM
  BY <1>18, HandleSIGTERMKeeps
<1>19. CASE ShutDown
  BY <1>19, ShutDownKeeps
<1>20. CASE Die
  BY <1>20, DieKeeps
<1>21. CASE UNCHANGED startVars
  <2> USE <1>21 DEF startVars, StartInv
  <2>1. StartShape'
    BY DEF StartShape, StartTypeOK
  <2>2. DiskIsWhole' /\ IndexIsClosed'
    BY DEF DiskIsWhole, IndexIsClosed, mapBlockIndex
  <2>3. ReadingIsRight' /\ GenesisIsRight'
    BY DEF ReadingIsRight, GenesisIsRight
  <2>4. LoadedIsRight'
    BY DEF LoadedIsRight
  <2> QED
    BY <2>1, <2>2, <2>3, <2>4
<1> QED
  BY <1>1, <1>2, <1>3, <1>4, <1>5, <1>6, <1>7, <1>8, <1>9, <1>10, <1>11, <1>12, <1>13, <1>14,
     <1>15, <1>16, <1>17, <1>18, <1>19, <1>20, <1>21 DEF StartNext

\* What a node that runs has is part of the invariant.
LEMMA StartInvImplies == StartInv => StartIsWhole
<1> SUFFICES ASSUME StartInv, stage \in {"running", "connect"} PROVE StartedNodeIsWhole
  BY DEF StartInv, StartShape, StartIsWhole, StartedNodeIsWhole
<1>1. mem.best # NoBlock /\ mem.best = disk.best /\ mem.sync = disk.sync /\ mem.sync # NoBlock
      /\ mem.genesis /\ Chain[mem.best] \subseteq mem.index /\ disk.key
  BY DEF StartInv, LoadedIsRight, Loaded
<1> QED
  BY <1>1 DEF StartInv, DiskIsWhole, StartedNodeIsWhole

(***************************************************************************)
(* A node that runs has all of its best chain, in memory and on disk, and  *)
(* a checkpoint, wherever an earlier process ended and whichever commits   *)
(* failed (LoadBlockIndex, AddToBlockIndex, SetBestChain).                 *)
(***************************************************************************)
THEOREM StartStaysWhole == StartSpec => []StartIsWhole
<1>1. StartSpec => []StartInv
  BY StartInvInit, StartInvStep, PTL DEF StartSpec
<1> QED
  BY <1>1, StartInvImplies, PTL

-----------------------------------------------------------------------------
(***************************************************************************)
(* The pool of keys.                                                       *)
(*                                                                         *)
(* The wallet file of the moment is wallet.dat, or its copy while a        *)
(* rewrite has removed the one and not yet renamed the other.              *)
(***************************************************************************)
current == IF encrypting = "rename" THEN copyFile ELSE datFile

Bounded(S) == \E n \in Nat : S \subseteq 1 .. n

FileShape(f) == DOMAIN f = {"key", "ckey", "mkey", "pool", "default"}

\* A file by itself, when m keys have been made.
FileIsWhole(f, m) ==
    /\ FileShape(f)
    /\ KeysIn(f) \subseteq 1 .. m
    /\ Bounded(DOMAIN f.pool) /\ \A i \in DOMAIN f.pool : f.pool[i] \in KeysIn(f)
    /\ f.mkey \in 0 .. m /\ (f.mkey # 0 <=> DOMAIN f.ckey # {})
    /\ f.mkey # 0 => f.key = {}

\* The default key is one that was given out; only the file that is not there has none.
DefaultIsGiven(f) ==
    /\ f.default = NoKey => f = NoFile
    /\ f.default # NoKey => f.default \in given \cap KeysIn(f)

SamePool(f, g) == DOMAIN f.pool = DOMAIN g.pool /\ \A i \in DOMAIN f.pool : f.pool[i] = g.pool[i]

UnderOneKey(f) == \A k \in DOMAIN f.ckey : f.ckey[k] = f.mkey

FilesAreRight ==
    /\ FileIsWhole(datFile, made) /\ FileIsWhole(copyFile, made)
    /\ DefaultIsGiven(datFile) /\ DefaultIsGiven(copyFile)
    /\ copyFile = NoFile \/ copyFile.mkey # 0
    /\ ~merged => UnderOneKey(datFile) /\ UnderOneKey(copyFile)

Reserve == [nIndex : (Nat \ {0}) \cup {-1}, key : 0 .. MaxKey]

KeyTypes ==
    /\ made \in Key /\ keys \subseteq 1 .. made /\ given \subseteq 1 .. made /\ Bounded(setKeyPool)
    /\ vchDefaultKey \in 0 .. MaxKey /\ stops \in 0 .. MaxStops
    /\ fUseCrypto \in BOOLEAN /\ vMasterKey \in BOOLEAN /\ merged \in BOOLEAN
    /\ encrypting \in {"no", "erase", "fill", "copy", "remove", "rename", "done"}
    /\ process \in {"up", "stopping", "down"}
    /\ reserved \in [MinerThread -> Reserve] /\ coinbase \in [MinerThread -> 0 .. MaxKey]

\* The keys in memory are those of the file: of all of it, before it is encrypted.
MemoryFollows ==
    process # "down" =>
        /\ current.default # NoKey /\ vchDefaultKey \in given
        /\ fUseCrypto <=> current.mkey # 0
        /\ keys \subseteq KeysIn(current) /\ (~fUseCrypto => keys = KeysIn(current))

\* Where EncryptWallet and the process are.
StagesAreRight ==
    /\ process = "down" =>
          /\ encrypting = "no" /\ keys = {} /\ setKeyPool = {} /\ fUseCrypto = FALSE
          /\ \A r \in MinerThread : reserved[r] = NoReserve
    /\ encrypting # "no" => fUseCrypto
    /\ encrypting \in {"erase", "fill"} => made + PoolSize <= MaxKey
    /\ encrypting = "remove" =>
          /\ KeysIn(datFile) \subseteq KeysIn(copyFile)
          /\ copyFile.default # NoKey /\ copyFile.mkey # 0
          /\ ~merged => SamePool(copyFile, datFile)
    /\ encrypting = "rename" => datFile = NoFile

\* No key is lost.
KeysAreThere ==
    LET files == KeysIn(datFile) \cup KeysIn(copyFile)
    IN  /\ given \cup mined \subseteq files
        /\ \A r \in MinerThread : {reserved[r].key, coinbase[r]} \subseteq files \cup {NoKey}

\* No key has two records, none that was given out has one.
Fresh(pool, out) ==
    /\ \A i, j \in DOMAIN pool : pool[i] = pool[j] => i = j
    /\ \A i \in DOMAIN pool : pool[i] \notin out

PoolIsFresh == ~merged => Fresh(current.pool, given)

\* An index that no new key has crossed stands for its key, in the set or reserved by
\* one thread.
HasRecord(i) == i \in DOMAIN current.pool /\ current.pool[i] \in keys

IndicesAreRight ==
    ~merged =>
        /\ \A i \in setKeyPool \ crossed : HasRecord(i)
        /\ \A r \in MinerThread :
              LET i == reserved[r].nIndex
              IN  i # -1 /\ i \notin crossed =>
                      /\ i \notin setKeyPool /\ HasRecord(i)
                      /\ \A q \in MinerThread \ {r} : reserved[q].nIndex # i

KeyPoolInv ==
    /\ KeyTypes /\ FilesAreRight /\ MemoryFollows /\ StagesAreRight
    /\ KeysAreThere /\ PoolIsFresh /\ IndicesAreRight

-----------------------------------------------------------------------------
(***************************************************************************)
(* The same for the wallet that a section under cs_wallet works on.        *)
(***************************************************************************)
WalletShape(w) == DOMAIN w = {"keys", "pool", "file", "made", "new"} /\ FileShape(w.file)

WalletIsRight(w) ==
    /\ WalletShape(w)
    /\ w.made \in Nat \ {0} /\ w.keys \subseteq 1 .. w.made /\ Bounded(w.pool)
    /\ FileIsWhole(w.file, w.made)
    /\ w.keys \subseteq KeysIn(w.file) /\ (~fUseCrypto => w.keys = KeysIn(w.file))
    /\ fUseCrypto <=> w.file.mkey # 0
    /\ ~merged => UnderOneKey(w.file) /\ Fresh(w.file.pool, given)

IndicesOf(w, c) ==
    ~merged =>
        /\ \A i \in w.pool \ c : Readable(w, i)
        /\ \A r \in MinerThread :
              LET i == reserved[r].nIndex
              IN  i # -1 /\ i \notin c => i \notin w.pool /\ Readable(w, i)

Crossed(w) == crossed \cup ({reserved[r].nIndex : r \in MinerThread} \cap w.new)

\* The pool's indices are bounded, so there is a greatest one and a least one.
LEMMA MaxOfBounded ==
  ASSUME NEW S, Bounded(S), S # {}
  PROVE  Max(S) \in S /\ \A y \in S : y <= Max(S)
<1>1. PICK n \in Nat : S \subseteq 1 .. n
  BY DEF Bounded
<1> DEFINE T == {n - x : x \in S}
<1>2. T \subseteq Nat /\ T # {}
  <2>1. \A x \in S : n - x \in Nat
    BY <1>1
  <2> QED
    BY <2>1
<1>3. PICK t \in T : \A y \in T : t <= y
  BY <1>2, LeastNatural
<1>4. PICK x \in S : t = n - x
  BY <1>3
<1>5. \A y \in S : x >= y
  BY <1>1, <1>3, <1>4
<1>6. \A y \in S : Max(S) \in S /\ Max(S) >= y
  BY <1>5 DEF Max
<1> QED
  BY <1>1, <1>4, <1>6

LEMMA MinOfBounded ==
  ASSUME NEW S, Bounded(S), S # {}
  PROVE  Min(S) \in S
<1>1. S \subseteq Nat
  BY DEF Bounded
<1>2. PICK x \in S : \A y \in S : x <= y
  BY <1>1, LeastNatural
<1> QED
  BY <1>2 DEF Min

LEMMA BoundedGrows ==
  ASSUME NEW S, Bounded(S), NEW i \in Nat \ {0}, NEW n \in Nat
  PROVE  Bounded(S \cup i .. i + n - 1)
<1>1. PICK m \in Nat : S \subseteq 1 .. m
  BY DEF Bounded
<1>2. S \cup i .. i + n - 1 \subseteq 1 .. m + i + n
  BY <1>1
<1> QED
  BY <1>2, m + i + n \in Nat DEF Bounded

LEMMA BoundedParts ==
  ASSUME NEW S, Bounded(S), NEW T, T \subseteq S
  PROVE  Bounded(T) /\ S \subseteq Nat \ {0}
  BY DEF Bounded

LEMMA NextIndexType ==
  ASSUME NEW w, Bounded(w.pool)
  PROVE  NextIndex(w) \in Nat \ {0}
<1>1. CASE w.pool = {}
  BY <1>1 DEF NextIndex
<1>2. CASE w.pool # {}
  <2>1. Max(w.pool) \in Nat
    BY <1>2, MaxOfBounded, BoundedParts
  <2> QED
    BY <1>2, <2>1 DEF NextIndex
<1> QED
  BY <1>1, <1>2

LEMMA ShortfallType ==
  ASSUME NEW w, Bounded(w.pool)
  PROVE  Shortfall(w) \in Nat
<1>1. PICK m \in Nat : w.pool \subseteq 1 .. m
  BY DEF Bounded
<1>2. IsFiniteSet(w.pool)
  <2>1. IsFiniteSet(1 .. m)
    BY FS_Interval
  <2> QED
    BY <1>1, <2>1, FS_Subset
<1>3. Cardinality(w.pool) \in Nat
  BY <1>2, FS_CardinalityType
<1> DEFINE d == PoolSize + 1 - Cardinality(w.pool)
<1>4. d \in Int
  BY <1>3, KeyPoolAssumption
<1> HIDE DEF d
<1>5. Max({0, d}) \in {0, d} /\ Max({0, d}) >= 0
  <2>1. \E x \in {0, d} : \A y \in {0, d} : x >= y
    <3>1. CASE d >= 0
      BY <1>4, <3>1
    <3>2. CASE d < 0
      BY <1>4, <3>2
    <3> QED
      BY <1>4, <3>1, <3>2
  <2> QED
    BY <2>1 DEF Max
<1>6. Max({0, d}) \in Nat
  BY <1>4, <1>5
<1> QED
  BY <1>6 DEF Shortfall, d

\* a is w with n new keys in the pool from index i on.
HasAdded(a, w, i, n) ==
    LET new == w.made + 1 .. w.made + n
        idx == i .. i + n - 1
    IN  /\ WalletShape(a)
        /\ a.keys = w.keys \cup new /\ a.made = w.made + n
        /\ a.pool = w.pool \cup idx /\ a.new = idx
        /\ a.file.mkey = w.file.mkey /\ a.file.default = w.file.default
        /\ a.file.key = IF fUseCrypto THEN w.file.key ELSE w.file.key \cup new
        /\ a.file.ckey = IF fUseCrypto
                         THEN [k \in DOMAIN w.file.ckey \cup new |->
                                 IF k \in new THEN w.file.mkey ELSE w.file.ckey[k]]
                         ELSE w.file.ckey
        /\ a.file.pool = [j \in DOMAIN w.file.pool \cup idx |->
                            IF j \in idx THEN w.made + 1 + j - i ELSE w.file.pool[j]]

LEMMA AddedFields ==
  ASSUME NEW w, WalletShape(w), NEW i, NEW n
  PROVE  HasAdded(AddToPool(w, i, n), w, i, n)
<1> DEFINE b == AddKeys(w, n)
           a == AddToPool(w, i, n)
           new == w.made + 1 .. w.made + n
<1>1. /\ WalletShape(b)
      /\ b.keys = w.keys \cup new /\ b.made = w.made + n /\ b.pool = w.pool /\ b.new = w.new
      /\ b.file.mkey = w.file.mkey /\ b.file.default = w.file.default /\ b.file.pool = w.file.pool
      /\ b.file.key = IF fUseCrypto THEN w.file.key ELSE w.file.key \cup new
      /\ b.file.ckey = IF fUseCrypto
                              THEN [k \in DOMAIN w.file.ckey \cup new |->
                                      IF k \in new THEN w.file.mkey ELSE w.file.ckey[k]]
                              ELSE w.file.ckey
  BY DEF AddKeys, WalletShape, FileShape
<1> HIDE DEF b
<1>2. a = [b EXCEPT
            !.pool = @ \cup i .. i + n - 1, !.new = i .. i + n - 1,
            !.file.pool = [j \in DOMAIN w.file.pool \cup i .. i + n - 1 |->
                              IF j \in i .. i + n - 1 THEN w.made + 1 + j - i ELSE w.file.pool[j]]]
  BY DEF AddToPool, b
<1> HIDE DEF a
<1>3. /\ WalletShape(a)
      /\ a.keys = b.keys /\ a.made = b.made
      /\ a.pool = w.pool \cup i .. i + n - 1 /\ a.new = i .. i + n - 1
      /\ a.file.mkey = b.file.mkey /\ a.file.default = b.file.default
      /\ a.file.key = b.file.key /\ a.file.ckey = b.file.ckey
      /\ a.file.pool = [j \in DOMAIN w.file.pool \cup i .. i + n - 1 |->
                          IF j \in i .. i + n - 1 THEN w.made + 1 + j - i ELSE w.file.pool[j]]
  BY <1>1, <1>2 DEF WalletShape, FileShape
<1> QED
  BY <1>1, <1>3 DEF a, HasAdded

LEMMA KeptFields ==
  ASSUME NEW w, WalletShape(w), NEW i
  PROVE  LET a == KeepKey(w, i)
         IN  /\ WalletShape(a)
             /\ a.keys = w.keys /\ a.made = w.made /\ a.pool = w.pool \ {i} /\ a.new = w.new
             /\ a.file.mkey = w.file.mkey /\ a.file.default = w.file.default
             /\ a.file.key = w.file.key /\ a.file.ckey = w.file.ckey
             /\ a.file.pool = [j \in DOMAIN w.file.pool \ {i} |-> w.file.pool[j]]
  BY DEF KeepKey, WalletShape, FileShape

\* New keys are fresh, so a pool that was right stays right.
LEMMA AddToPoolRight ==
  ASSUME NEW w, WalletIsRight(w), NEW i \in Nat \ {0}, NEW n \in Nat, given \subseteq 1 .. w.made
  PROVE  LET a == AddToPool(w, i, n)
         IN  /\ WalletIsRight(a)
             /\ w.made <= a.made /\ w.keys \subseteq a.keys /\ KeysIn(w.file) \subseteq KeysIn(a.file)
<1> DEFINE a == AddToPool(w, i, n)
           new == w.made + 1 .. w.made + n
           idx == i .. i + n - 1
<1>1. WalletShape(w) /\ w.made \in Nat \ {0} /\ FileIsWhole(w.file, w.made)
  BY DEF WalletIsRight
<1>2. /\ WalletShape(a)
      /\ a.keys = w.keys \cup new /\ a.made = w.made + n
      /\ a.pool = w.pool \cup idx /\ a.file.mkey = w.file.mkey
      /\ a.file.key = IF fUseCrypto THEN w.file.key ELSE w.file.key \cup new
      /\ a.file.ckey = IF fUseCrypto
                       THEN [k \in DOMAIN w.file.ckey \cup new |->
                               IF k \in new THEN w.file.mkey ELSE w.file.ckey[k]]
                       ELSE w.file.ckey
      /\ a.file.pool = [j \in DOMAIN w.file.pool \cup idx |->
                          IF j \in idx THEN w.made + 1 + j - i ELSE w.file.pool[j]]
  <2>1. HasAdded(a, w, i, n)
    BY <1>1, AddedFields
  <2> HIDE DEF a
  <2> QED
    BY <2>1 DEF HasAdded
<1> HIDE DEF a
<1>3. KeysIn(a.file) = KeysIn(w.file) \cup new
  BY <1>2 DEF KeysIn
<1>4. a.made \in Nat \ {0} /\ w.made <= a.made /\ 1 .. w.made \subseteq 1 .. a.made
      /\ new \subseteq 1 .. a.made
  BY <1>1, <1>2
<1>5. a.keys \subseteq 1 .. a.made /\ KeysIn(a.file) \subseteq 1 .. a.made
  BY <1>1, <1>2, <1>3, <1>4 DEF WalletIsRight, FileIsWhole
<1>6. Bounded(a.pool)
  BY <1>2, BoundedGrows DEF WalletIsRight
<1>7. Bounded(DOMAIN a.file.pool)
  BY <1>1, <1>2, BoundedGrows DEF FileIsWhole
<1>8. \A j \in idx :
         j \in DOMAIN a.file.pool /\ a.file.pool[j] = w.made + 1 + j - i /\ a.file.pool[j] \in new
  BY <1>1, <1>2
<1>9. \A j \in DOMAIN a.file.pool \ idx : j \in DOMAIN w.file.pool /\ a.file.pool[j] = w.file.pool[j]
                                          /\ a.file.pool[j] \in KeysIn(w.file)
  BY <1>1, <1>2 DEF FileIsWhole
<1>10. \A j \in DOMAIN a.file.pool : a.file.pool[j] \in KeysIn(a.file)
  BY <1>3, <1>8, <1>9
<1>11. a.file.mkey \in 0 .. a.made
  BY <1>1, <1>2 DEF FileIsWhole
<1>12. (a.file.mkey # 0 <=> DOMAIN a.file.ckey # {}) /\ (a.file.mkey # 0 => a.file.key = {})
  BY <1>1, <1>2 DEF FileIsWhole, WalletIsRight
<1>13. FileIsWhole(a.file, a.made)
  BY <1>2, <1>5, <1>7, <1>10, <1>11, <1>12 DEF FileIsWhole, WalletShape
<1>14. ~merged => UnderOneKey(a.file)
  BY <1>2 DEF UnderOneKey, WalletIsRight
<1>15. ~merged => Fresh(a.file.pool, given)
  <2> SUFFICES ASSUME ~merged PROVE Fresh(a.file.pool, given)
    OBVIOUS
  <2>1. Fresh(w.file.pool, given)
    BY DEF WalletIsRight
  <2>2. \A k \in new : k \notin 1 .. w.made
    BY <1>1
  <2>3. KeysIn(w.file) \subseteq 1 .. w.made
    BY <1>1 DEF FileIsWhole
  <2>4. \A j, k \in idx : a.file.pool[j] = a.file.pool[k] => j = k
    BY <1>1, <1>8
  <2>5. ASSUME NEW j \in DOMAIN a.file.pool, NEW k \in DOMAIN a.file.pool, a.file.pool[j] = a.file.pool[k]
        PROVE  j = k
    <3>1. CASE j \in idx /\ k \in idx
      BY <3>1, <2>4, <2>5
    <3>2. CASE j \notin idx /\ k \notin idx
      BY <3>2, <2>1, <2>5, <1>9 DEF Fresh
    <3>3. CASE j \in idx /\ k \notin idx
      BY <3>3, <2>2, <2>3, <2>5, <1>8, <1>9
    <3>4. CASE j \notin idx /\ k \in idx
      BY <3>4, <2>2, <2>3, <2>5, <1>8, <1>9
    <3> QED
      BY <3>1, <3>2, <3>3, <3>4
  <2>6. ASSUME NEW j \in DOMAIN a.file.pool PROVE a.file.pool[j] \notin given
    <3>1. CASE j \in idx
      BY <3>1, <2>2, <1>8
    <3>2. CASE j \notin idx
      BY <3>2, <2>1, <1>9 DEF Fresh
    <3> QED
      BY <3>1, <3>2
  <2> QED
    BY <2>5, <2>6 DEF Fresh
<1>16. a.keys \subseteq KeysIn(a.file)
       /\ (~fUseCrypto => a.keys = KeysIn(a.file)) /\ (fUseCrypto <=> a.file.mkey # 0)
  BY <1>2, <1>3 DEF WalletIsRight
<1>17. WalletIsRight(a)
  BY <1>2, <1>4, <1>5, <1>6, <1>13, <1>14, <1>15, <1>16 DEF WalletIsRight
<1> QED
  BY <1>2, <1>3, <1>4, <1>17 DEF a

LEMMA AddToPoolIndices ==
  ASSUME NEW w, WalletIsRight(w), IndicesOf(w, crossed), NEW i \in Nat \ {0}, NEW n \in Nat
  PROVE  LET a == AddToPool(w, i, n) IN IndicesOf(a, Crossed(a))
<1> DEFINE a == AddToPool(w, i, n)
           idx == i .. i + n - 1
<1>1. /\ a.keys = w.keys \cup (w.made + 1 .. w.made + n)
      /\ a.pool = w.pool \cup idx /\ a.new = idx
      /\ a.file.pool = [j \in DOMAIN w.file.pool \cup idx |->
                          IF j \in idx THEN w.made + 1 + j - i ELSE w.file.pool[j]]
  <2>1. HasAdded(a, w, i, n)
    BY AddedFields DEF WalletIsRight
  <2> HIDE DEF a
  <2> QED
    BY <2>1 DEF HasAdded
<1> HIDE DEF a
<1>2. \A j \in idx : Readable(a, j)
  BY <1>1 DEF Readable, WalletIsRight
<1>3. ASSUME NEW j, Readable(w, j) PROVE Readable(a, j)
  <2>1. CASE j \in idx
    BY <1>2, <2>1
  <2>2. CASE j \notin idx
    BY <1>1, <1>3, <2>2 DEF Readable
  <2> QED
    BY <2>1, <2>2
<1>4. IndicesOf(a, Crossed(a))
  <2> SUFFICES ASSUME ~merged PROVE IndicesOf(a, Crossed(a))
    BY DEF IndicesOf
  <2>1. ASSUME NEW j \in a.pool \ Crossed(a) PROVE Readable(a, j)
    BY <1>1, <1>2, <1>3, <2>1 DEF IndicesOf, Crossed
  <2>2. ASSUME NEW r \in MinerThread, reserved[r].nIndex # -1, reserved[r].nIndex \notin Crossed(a)
        PROVE  reserved[r].nIndex \notin a.pool /\ Readable(a, reserved[r].nIndex)
    BY <1>1, <1>3, <2>2 DEF IndicesOf, Crossed
  <2> QED
    BY <2>1, <2>2 DEF IndicesOf
<1> QED
  BY <1>4 DEF a

\* A key that leaves the pool, with its record or without.
LEMMA KeepKeyRight ==
  ASSUME NEW w, WalletIsRight(w), NEW i \in w.pool, Readable(w, i)
  PROVE  LET a == KeepKey(w, i)
         IN  /\ WalletIsRight(a) /\ a.new = w.new /\ a.made = w.made /\ a.file.default = w.file.default
             /\ KeysIn(a.file) = KeysIn(w.file)
             /\ ~merged => Fresh(a.file.pool, given \cup {w.file.pool[i]})
             /\ \A c : IndicesOf(w, c) => IndicesOf(a, c)
<1> DEFINE a == KeepKey(w, i)
<1>1. /\ WalletShape(a)
      /\ a.keys = w.keys /\ a.made = w.made /\ a.pool = w.pool \ {i} /\ a.new = w.new
      /\ a.file.mkey = w.file.mkey /\ a.file.default = w.file.default
      /\ a.file.key = w.file.key /\ a.file.ckey = w.file.ckey
      /\ a.file.pool = [j \in DOMAIN w.file.pool \ {i} |-> w.file.pool[j]]
  BY KeptFields DEF WalletIsRight
<1> HIDE DEF a
<1>2. KeysIn(a.file) = KeysIn(w.file)
  BY <1>1 DEF KeysIn
<1>3. Bounded(a.pool) /\ Bounded(DOMAIN a.file.pool)
  BY <1>1, BoundedParts DEF WalletIsRight, FileIsWhole
<1>4. FileIsWhole(a.file, a.made)
  BY <1>1, <1>2, <1>3 DEF WalletIsRight, FileIsWhole, WalletShape
<1>5. ~merged => Fresh(a.file.pool, given \cup {w.file.pool[i]})
  BY <1>1 DEF Fresh, WalletIsRight, Readable
<1>6. ~merged => Fresh(a.file.pool, given)
  BY <1>5 DEF Fresh
<1>7. WalletIsRight(a)
  BY <1>1, <1>2, <1>3, <1>4, <1>6 DEF WalletIsRight, UnderOneKey
<1>8. \A j : j # i /\ Readable(w, j) => Readable(a, j)
  BY <1>1 DEF Readable
<1>9. ASSUME NEW c, IndicesOf(w, c) PROVE IndicesOf(a, c)
  BY <1>1, <1>8, <1>9 DEF IndicesOf
<1> QED
  BY <1>1, <1>2, <1>5, <1>7, <1>9 DEF a

LEMMA DroppedRight ==
  ASSUME NEW w, WalletIsRight(w), NEW i
  PROVE  LET a == [w EXCEPT !.pool = @ \ {i}]
         IN  /\ WalletIsRight(a) /\ a.new = w.new /\ a.made = w.made /\ a.file = w.file /\ a.keys = w.keys
             /\ a.pool = w.pool \ {i}
             /\ \A c : IndicesOf(w, c) => IndicesOf(a, c)
<1> DEFINE a == [w EXCEPT !.pool = @ \ {i}]
<1>1. /\ WalletShape(a)
      /\ a.keys = w.keys /\ a.made = w.made /\ a.pool = w.pool \ {i} /\ a.new = w.new /\ a.file = w.file
  BY DEF WalletIsRight, WalletShape
<1> HIDE DEF a
<1>2. Bounded(a.pool)
  BY <1>1, BoundedParts DEF WalletIsRight
<1>3. WalletIsRight(a)
  BY <1>1, <1>2 DEF WalletIsRight
<1>4. ASSUME NEW c, IndicesOf(w, c) PROVE IndicesOf(a, c)
  BY <1>1, <1>4 DEF IndicesOf, Readable
<1> QED
  BY <1>1, <1>3, <1>4 DEF a

-----------------------------------------------------------------------------
(***************************************************************************)
(* The steps of the key pool.                                              *)
(***************************************************************************)
InFile == process # "down" /\ encrypting # "rename"

LEMMA WalletOfNow ==
  ASSUME KeyPoolInv, InFile
  PROVE  /\ WalletIsRight(KeyWallet) /\ IndicesOf(KeyWallet, crossed)
         /\ KeyWallet.keys = keys /\ KeyWallet.pool = setKeyPool /\ KeyWallet.file = datFile
         /\ KeyWallet.made = made /\ KeyWallet.new = {}
<1>1. /\ KeyWallet.keys = keys /\ KeyWallet.pool = setKeyPool /\ KeyWallet.file = datFile
      /\ KeyWallet.made = made /\ KeyWallet.new = {}
      /\ DOMAIN KeyWallet = {"keys", "pool", "file", "made", "new"}
  BY DEF KeyWallet
<1>2. current = datFile
  BY DEF InFile, current
<1>3. WalletShape(KeyWallet)
  BY <1>1 DEF KeyPoolInv, FilesAreRight, FileIsWhole, WalletShape
<1>4. made \in Nat \ {0}
  BY KeyPoolAssumption DEF KeyPoolInv, KeyTypes, Key
<1>5. WalletIsRight(KeyWallet)
  BY <1>1, <1>2, <1>3, <1>4
     DEF KeyPoolInv, KeyTypes, FilesAreRight, MemoryFollows, PoolIsFresh, InFile, WalletIsRight
<1>6. IndicesOf(KeyWallet, crossed)
  BY <1>1, <1>2 DEF KeyPoolInv, IndicesAreRight, IndicesOf, HasRecord, Readable
<1> QED
  BY <1>1, <1>5, <1>6

LEMMA ToppedUp ==
  ASSUME KeyPoolInv, InFile, NEW i \in Nat \ {0}, NEW n \in Nat
  PROVE  LET w == AddToPool(KeyWallet, i, n)
         IN  /\ WalletIsRight(w) /\ IndicesOf(w, Crossed(w))
             /\ w.made = made + n /\ made <= w.made
             /\ KeysIn(datFile) \subseteq KeysIn(w.file) /\ w.file.default = datFile.default
<1> DEFINE w == AddToPool(KeyWallet, i, n)
<1>1. /\ WalletIsRight(KeyWallet) /\ IndicesOf(KeyWallet, crossed)
      /\ KeyWallet.made = made /\ KeyWallet.file = datFile
  BY WalletOfNow
<1>2. given \subseteq 1 .. KeyWallet.made /\ made \in Nat
  BY <1>1 DEF KeyPoolInv, KeyTypes, Key
<1>3. HasAdded(w, KeyWallet, i, n)
  BY <1>1, AddedFields DEF WalletIsRight
<1>4. IndicesOf(w, Crossed(w))
  BY <1>1, AddToPoolIndices
<1>5. WalletIsRight(w) /\ KeysIn(KeyWallet.file) \subseteq KeysIn(w.file)
  BY <1>1, <1>2, AddToPoolRight
<1> HIDE DEF w
<1>6. w.made = made + n /\ w.file.default = datFile.default
  BY <1>1, <1>3 DEF HasAdded
<1> QED
  BY <1>1, <1>2, <1>4, <1>5, <1>6 DEF w

LEMMA TopUpTypes ==
  ASSUME KeyPoolInv
  PROVE  NextIndex(KeyWallet) \in Nat \ {0} /\ Shortfall(KeyWallet) \in Nat
<1>1. Bounded(KeyWallet.pool)
  BY DEF KeyPoolInv, KeyTypes, KeyWallet
<1> QED
  BY <1>1, NextIndexType, ShortfallType

\* EncryptWallet is not under way, or it goes on to the rewrite.
SectionEnds == encrypting' = "no" \/ (encrypting' = "copy" /\ fUseCrypto)

\* What a section leaves behind is right, if the wallet it worked on is.
LEMMA BecomeRight ==
  ASSUME KeyPoolInv, InFile, NEW w, BecomeWallet(w), WalletIsRight(w),
         w.made <= MaxKey, made <= w.made,
         KeysIn(datFile) \subseteq KeysIn(w.file), w.file.default = datFile.default,
         UNCHANGED <<fUseCrypto, vchDefaultKey, copyFile, process, mined, merged, stops>>,
         vMasterKey' \in BOOLEAN, SectionEnds,
         reserved' \in [MinerThread -> Reserve], coinbase' = coinbase,
         given \subseteq given', given' \subseteq 1 .. w.made,
         given' \subseteq KeysIn(w.file) \cup KeysIn(copyFile),
         ~merged => Fresh(w.file.pool, given'),
         \A r \in MinerThread : reserved'[r].key \in KeysIn(w.file) \cup KeysIn(copyFile) \cup {NoKey}
  PROVE  /\ KeyTypes' /\ FilesAreRight' /\ MemoryFollows' /\ StagesAreRight'
         /\ KeysAreThere' /\ PoolIsFresh'
<1>1. keys' = w.keys /\ setKeyPool' = w.pool /\ datFile' = w.file /\ made' = w.made
  BY DEF BecomeWallet
<1>2. current' = w.file /\ current = datFile /\ process # "down" /\ encrypting' \in {"no", "copy"}
      /\ (encrypting' # "no" => fUseCrypto)
  BY <1>1 DEF current, InFile, SectionEnds
<1>3. made \in Nat /\ w.made \in Nat \ {0}
  BY DEF WalletIsRight, KeyPoolInv, KeyTypes, Key
<1>4. KeyTypes'
  <2>1. made' \in Key /\ keys' \subseteq 1 .. made' /\ given' \subseteq 1 .. made'
    BY <1>1, <1>3 DEF WalletIsRight, Key
  <2>2. Bounded(setKeyPool')
    BY <1>1 DEF WalletIsRight
  <2> QED
    BY <1>2, <2>1, <2>2 DEF KeyPoolInv, KeyTypes, Bounded
<1>5. FilesAreRight'
  <2>1. FileIsWhole(w.file, w.made)
    BY DEF WalletIsRight
  <2>2. FileIsWhole(copyFile, w.made)
    BY <1>3 DEF KeyPoolInv, FilesAreRight, FileIsWhole
  <2>3. FileIsWhole(datFile, made)' /\ FileIsWhole(copyFile, made)'
    BY <1>1, <2>1, <2>2 DEF FileIsWhole, FileShape, Bounded, KeysIn
  <2>4. w.file.default # NoKey /\ w.file.default \in given' \cap KeysIn(w.file)
    BY <1>2 DEF KeyPoolInv, FilesAreRight, DefaultIsGiven, MemoryFollows
  <2>5. DefaultIsGiven(datFile)'
    BY <1>1, <2>4 DEF DefaultIsGiven, KeysIn
  <2>6. DefaultIsGiven(copyFile)'
    BY DEF KeyPoolInv, FilesAreRight, DefaultIsGiven, KeysIn, NoFile
  <2>7. ~merged' => UnderOneKey(datFile)' /\ UnderOneKey(copyFile)'
    BY <1>1 DEF KeyPoolInv, FilesAreRight, WalletIsRight, UnderOneKey
  <2>8. copyFile' = NoFile' \/ copyFile'.mkey # 0
    BY DEF KeyPoolInv, FilesAreRight, NoFile
  <2> QED
    BY <2>3, <2>5, <2>6, <2>7, <2>8 DEF FilesAreRight
<1>6. MemoryFollows'
  <2>1. current'.default # NoKey /\ vchDefaultKey' \in given'
    BY <1>2 DEF KeyPoolInv, MemoryFollows
  <2>2. /\ fUseCrypto' <=> current'.mkey # 0
        /\ w.keys \subseteq KeysIn(w.file) /\ (~fUseCrypto' => w.keys = KeysIn(w.file))
    BY <1>2 DEF WalletIsRight
  <2>3. KeysIn(current)' = KeysIn(w.file)
    BY <1>2 DEF KeysIn
  <2> QED
    BY <1>1, <2>1, <2>2, <2>3 DEF MemoryFollows
<1>7. StagesAreRight'
  BY <1>2 DEF StagesAreRight
<1>8. KeysAreThere'
  <2>1. KeysIn(datFile)' = KeysIn(w.file) /\ KeysIn(copyFile)' = KeysIn(copyFile)
    BY <1>1 DEF KeysIn
  <2>2. given' \cup mined' \subseteq KeysIn(w.file) \cup KeysIn(copyFile)
    BY DEF KeyPoolInv, KeysAreThere
  <2>3. \A r \in MinerThread : coinbase'[r] \in KeysIn(w.file) \cup KeysIn(copyFile) \cup {NoKey}
    BY DEF KeyPoolInv, KeysAreThere
  <2> QED
    BY <2>1, <2>2, <2>3 DEF KeysAreThere
<1>9. PoolIsFresh'
  BY <1>2 DEF PoolIsFresh, Fresh
<1> QED
  BY <1>4, <1>5, <1>6, <1>7, <1>8, <1>9

LEMMA IndicesStay ==
  ASSUME KeyPoolInv, NEW w, BecomeWallet(w), IndicesOf(w, Crossed(w)), encrypting' # "rename",
         UNCHANGED <<reserved, merged>>
  PROVE  IndicesAreRight'
<1>1. keys' = w.keys /\ setKeyPool' = w.pool /\ crossed' = Crossed(w) /\ current' = w.file
  BY DEF BecomeWallet, Crossed, current
<1>2. \A i : Readable(w, i) => HasRecord(i)'
  BY <1>1 DEF Readable, HasRecord
<1>3. crossed \subseteq crossed'
  BY <1>1 DEF Crossed
<1> QED
  BY <1>1, <1>2, <1>3 DEF IndicesAreRight, IndicesOf, KeyPoolInv

LEMMA FreshNow ==
  ASSUME KeyPoolInv, NEW w, WalletIsRight(w), made <= w.made, KeysIn(datFile) \subseteq KeysIn(w.file)
  PROVE  /\ given \subseteq 1 .. w.made /\ given \subseteq KeysIn(w.file) \cup KeysIn(copyFile)
         /\ \A r \in MinerThread :
               {reserved[r].key, coinbase[r]} \subseteq KeysIn(w.file) \cup KeysIn(copyFile) \cup {NoKey}
<1>1. made \in Nat /\ w.made \in Nat /\ given \subseteq 1 .. made
  BY DEF WalletIsRight, KeyPoolInv, KeyTypes, Key
<1> QED
  BY <1>1 DEF KeyPoolInv, KeysAreThere

LEMMA TopUpKeyPoolKeeps == ASSUME KeyPoolInv, NEW n \in Nat, TopUpKeyPool(n) PROVE KeyPoolInv'
<1> DEFINE w == AddToPool(KeyWallet, NextIndex(KeyWallet), n)
<1>1. InFile /\ encrypting' = "no" /\ SectionEnds
  <2>1. LockIsFree /\ encrypting' = encrypting
    BY DEF TopUpKeyPool
  <2>2. encrypting' = "no"
    BY <2>1 DEF LockIsFree
  <2>3. SectionEnds
    BY <2>2 DEF SectionEnds
  <2>4. InFile
    BY <2>1 DEF LockIsFree, InFile
  <2> QED
    BY <2>1, <2>2, <2>3, <2>4
<1>2. /\ WalletIsRight(w) /\ IndicesOf(w, Crossed(w)) /\ w.made = made + n /\ made <= w.made
      /\ KeysIn(datFile) \subseteq KeysIn(w.file) /\ w.file.default = datFile.default
  BY <1>1, TopUpTypes, ToppedUp
<1>3. BecomeWallet(w)
  BY DEF TopUpKeyPool
<1> HIDE DEF w
<1>4. w.made <= MaxKey /\ vMasterKey' \in BOOLEAN
  BY <1>2 DEF TopUpKeyPool, KeyPoolInv, KeyTypes
<1>5. UNCHANGED <<fUseCrypto, vchDefaultKey, copyFile, process, reserved, coinbase, given, mined,
                  merged, stops>>
  BY DEF TopUpKeyPool
<1>6. reserved' \in [MinerThread -> Reserve]
  BY <1>5 DEF KeyPoolInv, KeyTypes
<1>7. ~merged => Fresh(w.file.pool, given')
  BY <1>2, <1>5 DEF WalletIsRight
<1>8. /\ KeyTypes' /\ FilesAreRight' /\ MemoryFollows' /\ StagesAreRight'
      /\ KeysAreThere' /\ PoolIsFresh'
  BY <1>1, <1>2, <1>3, <1>4, <1>5, <1>6, <1>7, FreshNow, BecomeRight
<1>9. IndicesAreRight'
  BY <1>1, <1>2, <1>3, <1>5, IndicesStay
<1> QED
  BY <1>8, <1>9 DEF KeyPoolInv

LEMMA OldestInPool ==
  ASSUME NEW w, WalletIsRight(w), OldestIndex(w) # -1
  PROVE  OldestIndex(w) \in w.pool
  BY MinOfBounded DEF WalletIsRight, OldestIndex

LEMMA TopUpIsRight ==
  ASSUME KeyPoolInv, LockIsFree
  PROVE  LET w == TopUp(KeyWallet)
         IN  /\ WalletIsRight(w) /\ IndicesOf(w, Crossed(w)) /\ made <= w.made
             /\ KeysIn(datFile) \subseteq KeysIn(w.file) /\ w.file.default = datFile.default
  BY TopUpTypes, ToppedUp DEF TopUp, LockIsFree, InFile, SectionEnds

LEMMA GiveKeyKeeps == ASSUME KeyPoolInv, GiveKey PROVE KeyPoolInv'
<1> DEFINE w == TopUp(KeyWallet)
           i == OldestIndex(w)
           k == KeepKey(w, i)
           out == w.file.pool[i]
<1>1. InFile /\ encrypting' = "no" /\ SectionEnds /\ LockIsFree
  <2>1. LockIsFree /\ encrypting' = encrypting
    BY DEF GiveKey, OnlyWallet
  <2>2. encrypting' = "no"
    BY <2>1 DEF LockIsFree
  <2>3. SectionEnds
    BY <2>2 DEF SectionEnds
  <2>4. InFile
    BY <2>1 DEF LockIsFree, InFile
  <2> QED
    BY <2>1, <2>2, <2>3, <2>4
<1>2. /\ WalletIsRight(w) /\ IndicesOf(w, Crossed(w)) /\ made <= w.made
      /\ KeysIn(datFile) \subseteq KeysIn(w.file) /\ w.file.default = datFile.default
  BY <1>1, TopUpIsRight
<1>3. i # -1 /\ Readable(w, i) /\ BecomeWallet(k) /\ w.made <= MaxKey /\ given' = given \cup {out}
  BY DEF GiveKey
<1>4. i \in w.pool
  BY <1>2, <1>3, OldestInPool
<1>5. UNCHANGED <<fUseCrypto, vMasterKey, vchDefaultKey, copyFile, process, reserved, coinbase, mined,
                  merged, stops>>
  BY DEF GiveKey, OnlyWallet
<1> HIDE DEF w, i
<1>6. /\ WalletIsRight(k) /\ k.new = w.new /\ k.made = w.made /\ k.file.default = w.file.default
      /\ KeysIn(k.file) = KeysIn(w.file)
      /\ ~merged => Fresh(k.file.pool, given \cup {out})
      /\ \A c : IndicesOf(w, c) => IndicesOf(k, c)
  BY <1>2, <1>3, <1>4, KeepKeyRight
<1> HIDE DEF k
<1>7. out \in w.keys /\ out \in 1 .. w.made /\ out \in KeysIn(w.file)
  BY <1>2, <1>3 DEF Readable, WalletIsRight
<1> HIDE DEF out
<1>8. IndicesOf(k, Crossed(k))
  <2>1. Crossed(k) = Crossed(w)
    BY <1>6 DEF Crossed
  <2> QED
    BY <1>2, <1>6, <2>1
<1>9. vMasterKey' \in BOOLEAN /\ reserved' \in [MinerThread -> Reserve]
  BY <1>5 DEF KeyPoolInv, KeyTypes
<1>10. /\ given \subseteq given' /\ given' \subseteq 1 .. k.made
       /\ given' \subseteq KeysIn(k.file) \cup KeysIn(copyFile)
       /\ \A r \in MinerThread : reserved'[r].key \in KeysIn(k.file) \cup KeysIn(copyFile) \cup {NoKey}
  BY <1>2, <1>3, <1>5, <1>6, <1>7, FreshNow
<1>11. /\ KeyTypes' /\ FilesAreRight' /\ MemoryFollows' /\ StagesAreRight'
       /\ KeysAreThere' /\ PoolIsFresh'
  BY <1>1, <1>2, <1>3, <1>5, <1>6, <1>9, <1>10, BecomeRight
<1>12. IndicesAreRight'
  BY <1>1, <1>3, <1>5, <1>8, IndicesStay
<1> QED
  BY <1>11, <1>12 DEF KeyPoolInv

LEMMA GetKeyFromPoolThrowsKeeps == ASSUME KeyPoolInv, GetKeyFromPoolThrows PROVE KeyPoolInv'
<1> DEFINE w == TopUp(KeyWallet)
           i == OldestIndex(w)
           k == [w EXCEPT !.pool = @ \ {i}]
<1>1. InFile /\ encrypting' = "no" /\ SectionEnds /\ LockIsFree
  <2>1. LockIsFree /\ encrypting' = encrypting
    BY DEF GetKeyFromPoolThrows, OnlyWallet
  <2>2. encrypting' = "no"
    BY <2>1 DEF LockIsFree
  <2>3. SectionEnds
    BY <2>2 DEF SectionEnds
  <2>4. InFile
    BY <2>1 DEF LockIsFree, InFile
  <2> QED
    BY <2>1, <2>2, <2>3, <2>4
<1>2. /\ WalletIsRight(w) /\ IndicesOf(w, Crossed(w)) /\ made <= w.made
      /\ KeysIn(datFile) \subseteq KeysIn(w.file) /\ w.file.default = datFile.default
  BY <1>1, TopUpIsRight
<1>3. BecomeWallet(k) /\ w.made <= MaxKey
  BY DEF GetKeyFromPoolThrows
<1>4. UNCHANGED <<fUseCrypto, vMasterKey, vchDefaultKey, copyFile, process, reserved, coinbase, given,
                  mined, merged, stops>>
  BY DEF GetKeyFromPoolThrows, OnlyWallet
<1> HIDE DEF w, i
<1>5. /\ WalletIsRight(k) /\ k.new = w.new /\ k.made = w.made /\ k.file = w.file
      /\ \A c : IndicesOf(w, c) => IndicesOf(k, c)
  BY <1>2, DroppedRight
<1> HIDE DEF k
<1>6. IndicesOf(k, Crossed(k))
  <2>1. Crossed(k) = Crossed(w)
    BY <1>5 DEF Crossed
  <2> QED
    BY <1>2, <1>5, <2>1
<1>7. vMasterKey' \in BOOLEAN /\ reserved' \in [MinerThread -> Reserve]
  BY <1>4 DEF KeyPoolInv, KeyTypes
<1>8. ~merged => Fresh(k.file.pool, given')
  BY <1>4, <1>5 DEF WalletIsRight
<1>9. /\ given' \subseteq 1 .. k.made
      /\ given' \subseteq KeysIn(k.file) \cup KeysIn(copyFile)
      /\ \A r \in MinerThread : reserved'[r].key \in KeysIn(k.file) \cup KeysIn(copyFile) \cup {NoKey}
  BY <1>2, <1>4, <1>5, FreshNow
<1>10. /\ KeyTypes' /\ FilesAreRight' /\ MemoryFollows' /\ StagesAreRight'
       /\ KeysAreThere' /\ PoolIsFresh'
  BY <1>1, <1>2, <1>3, <1>4, <1>5, <1>7, <1>8, <1>9, BecomeRight
<1>11. IndicesAreRight'
  BY <1>1, <1>3, <1>4, <1>6, IndicesStay
<1> QED
  BY <1>10, <1>11 DEF KeyPoolInv

LEMMA CreateNewBlockKeeps == ASSUME KeyPoolInv, NEW r \in MinerThread, CreateNewBlock(r) PROVE KeyPoolInv'
<1> DEFINE w == TopUp(KeyWallet)
           i == OldestIndex(w)
           k == [w EXCEPT !.pool = @ \ {i}]
           out == IF i = -1 THEN vchDefaultKey ELSE w.file.pool[i]
<1>1. InFile /\ encrypting' = "no" /\ SectionEnds /\ LockIsFree
  <2>1. LockIsFree /\ encrypting' = encrypting
    BY DEF CreateNewBlock
  <2>2. encrypting' = "no"
    BY <2>1 DEF LockIsFree
  <2>3. SectionEnds
    BY <2>2 DEF SectionEnds
  <2>4. InFile
    BY <2>1 DEF LockIsFree, InFile
  <2> QED
    BY <2>1, <2>2, <2>3, <2>4
<1>2. /\ WalletIsRight(w) /\ IndicesOf(w, Crossed(w)) /\ made <= w.made
      /\ KeysIn(datFile) \subseteq KeysIn(w.file) /\ w.file.default = datFile.default
  BY <1>1, TopUpIsRight
<1>3. /\ BecomeWallet(k) /\ w.made <= MaxKey /\ (i # -1 => Readable(w, i))
      /\ reserved' = [reserved EXCEPT ![r] = [nIndex |-> i, key |-> out]]
  BY DEF CreateNewBlock
<1>4. UNCHANGED <<fUseCrypto, vMasterKey, vchDefaultKey, copyFile, process, coinbase, given, mined,
                  merged, stops>>
  BY DEF CreateNewBlock
<1>5. i # -1 => i \in w.pool
  BY <1>2, OldestInPool
<1> HIDE DEF w, i
<1>6. /\ WalletIsRight(k) /\ k.new = w.new /\ k.made = w.made /\ k.file = w.file /\ k.keys = w.keys
      /\ k.pool = w.pool \ {i}
      /\ \A c : IndicesOf(w, c) => IndicesOf(k, c)
  BY <1>2, DroppedRight
<1> HIDE DEF k
<1>7. Crossed(k) = Crossed(w) /\ IndicesOf(k, Crossed(k))
  <2>1. Crossed(k) = Crossed(w)
    BY <1>6 DEF Crossed
  <2> QED
    BY <1>2, <1>6, <2>1
<1>8. /\ given \subseteq 1 .. k.made
      /\ given \subseteq KeysIn(k.file) \cup KeysIn(copyFile)
      /\ \A q \in MinerThread : reserved[q].key \in KeysIn(k.file) \cup KeysIn(copyFile) \cup {NoKey}
  BY <1>2, <1>6, FreshNow
<1>9. out \in 0 .. MaxKey /\ out \in KeysIn(k.file) \cup KeysIn(copyFile)
  <2>1. CASE i = -1
    <3>1. vchDefaultKey \in given
      BY <1>1 DEF KeyPoolInv, MemoryFollows, InFile
    <3> QED
      BY <2>1, <3>1, <1>8 DEF KeyPoolInv, KeyTypes
  <2>2. CASE i # -1
    <3>1. out \in w.keys /\ w.keys \subseteq 1 .. w.made /\ w.keys \subseteq KeysIn(w.file)
      BY <2>2, <1>2, <1>3 DEF Readable, WalletIsRight
    <3>2. w.made \in Nat /\ MaxKey \in Nat
      BY <1>2, KeyPoolAssumption DEF WalletIsRight
    <3> QED
      BY <3>1, <3>2, <1>3, <1>6
  <2> QED
    BY <2>1, <2>2
<1>10. i \in (Nat \ {0}) \cup {-1}
  BY <1>2, <1>5, BoundedParts DEF WalletIsRight
<1> HIDE DEF out
<1>11. reserved' \in [MinerThread -> Reserve]
  BY <1>3, <1>9, <1>10 DEF KeyPoolInv, KeyTypes, Reserve
<1>12. /\ reserved'[r].nIndex = i /\ reserved'[r].key = out
       /\ \A q \in MinerThread \ {r} : reserved'[q] = reserved[q]
  BY <1>3 DEF KeyPoolInv, KeyTypes
<1>13. \A q \in MinerThread : reserved'[q].key \in KeysIn(k.file) \cup KeysIn(copyFile) \cup {NoKey}
  BY <1>8, <1>9, <1>12
<1>14. ~merged => Fresh(k.file.pool, given')
  BY <1>4, <1>6 DEF WalletIsRight
<1>15. vMasterKey' \in BOOLEAN
  BY <1>4 DEF KeyPoolInv, KeyTypes
<1>16. /\ KeyTypes' /\ FilesAreRight' /\ MemoryFollows' /\ StagesAreRight'
       /\ KeysAreThere' /\ PoolIsFresh'
  BY <1>1, <1>2, <1>3, <1>4, <1>6, <1>8, <1>11, <1>13, <1>14, <1>15, BecomeRight
<1>17. IndicesAreRight'
  <2> DEFINE HasOne(j) == j \in DOMAIN current'.pool /\ current'.pool[j] \in keys'
  <2> SUFFICES ASSUME ~merged PROVE IndicesAreRight'
    BY <1>4 DEF IndicesAreRight
  <2>1. keys' = w.keys /\ setKeyPool' = w.pool \ {i} /\ crossed' = Crossed(w) /\ current' = w.file
    BY <1>1, <1>3, <1>6, <1>7 DEF BecomeWallet, Crossed, current
  <2>2. \A j : Readable(w, j) => HasOne(j)
    BY <2>1 DEF Readable
  <2> HIDE DEF HasOne
  <2>3. crossed \subseteq crossed'
        /\ (\A q \in MinerThread : reserved[q].nIndex \in w.new => reserved[q].nIndex \in crossed')
    BY <2>1 DEF Crossed
  <2>4. w.pool = setKeyPool \cup w.new
    <3>1. HasAdded(w, KeyWallet, NextIndex(KeyWallet), Shortfall(KeyWallet))
      BY WalletOfNow, AddedFields, <1>1 DEF w, TopUp, WalletIsRight
    <3> QED
      BY <3>1, <1>1, WalletOfNow DEF HasAdded
  <2>5. \A j \in setKeyPool' \ crossed' : HasOne(j)
    BY <1>2, <2>1, <2>2 DEF IndicesOf
  <2>6. ASSUME NEW q \in MinerThread \ {r}, reserved[q].nIndex # -1, reserved[q].nIndex \notin crossed'
        PROVE  /\ reserved[q].nIndex \notin w.pool /\ reserved[q].nIndex # i
               /\ HasOne(reserved[q].nIndex)
    <3>1. reserved[q].nIndex \notin w.pool /\ Readable(w, reserved[q].nIndex)
      BY <1>2, <2>1, <2>6 DEF IndicesOf
    <3> QED
      BY <1>5, <2>2, <2>6, <3>1
  <2>7. ASSUME i # -1, i \notin crossed', NEW q \in MinerThread \ {r} PROVE reserved[q].nIndex # i
    BY <1>5, <2>6, <2>7
  <2>8. ASSUME NEW q \in MinerThread \ {r}, reserved[q].nIndex # -1, reserved[q].nIndex \notin crossed',
               NEW p \in MinerThread \ {q}
        PROVE  reserved'[p].nIndex # reserved[q].nIndex
    BY <1>12, <2>3, <2>6, <2>8 DEF KeyPoolInv, IndicesAreRight
  <2>9. i # -1 => HasOne(i) /\ i \notin setKeyPool'
    BY <1>3, <2>1, <2>2
  <2>10. ASSUME NEW q \in MinerThread, reserved'[q].nIndex # -1, reserved'[q].nIndex \notin crossed'
         PROVE  /\ reserved'[q].nIndex \notin setKeyPool' /\ HasOne(reserved'[q].nIndex)
                /\ \A p \in MinerThread \ {q} : reserved'[p].nIndex # reserved'[q].nIndex
    <3>1. CASE q = r
      BY <3>1, <1>12, <2>7, <2>9, <2>10
    <3>2. CASE q # r
      BY <3>2, <1>12, <2>1, <2>6, <2>8, <2>10
    <3> QED
      BY <3>1, <3>2
  <2> QED
    BY <2>5, <2>10 DEF IndicesAreRight, HasRecord, HasOne
<1> QED
  BY <1>16, <1>17 DEF KeyPoolInv

LEMMA NewKeyPoolKeeps == ASSUME KeyPoolInv, NewKeyPool PROVE KeyPoolInv'
<1> DEFINE w == AddToPool(KeyWallet, 1, PoolSize)
<1>1. InFile /\ encrypting = "fill" /\ encrypting' = "copy" /\ SectionEnds
  BY DEF NewKeyPool, InFile, SectionEnds, KeyPoolInv, StagesAreRight
<1>2. /\ WalletIsRight(w) /\ IndicesOf(w, Crossed(w)) /\ w.made = made + PoolSize /\ made <= w.made
      /\ KeysIn(datFile) \subseteq KeysIn(w.file) /\ w.file.default = datFile.default
  BY <1>1, ToppedUp, KeyPoolAssumption
<1>3. BecomeWallet(w)
  BY DEF NewKeyPool
<1> HIDE DEF w
<1>4. w.made <= MaxKey /\ vMasterKey' \in BOOLEAN
  BY <1>1, <1>2 DEF NewKeyPool, KeyPoolInv, StagesAreRight
<1>5. UNCHANGED <<fUseCrypto, vchDefaultKey, copyFile, process, reserved, coinbase, given, mined,
                  merged, stops>>
  BY DEF NewKeyPool
<1>6. reserved' \in [MinerThread -> Reserve]
  BY <1>5 DEF KeyPoolInv, KeyTypes
<1>7. ~merged => Fresh(w.file.pool, given')
  BY <1>2, <1>5 DEF WalletIsRight
<1>8. /\ KeyTypes' /\ FilesAreRight' /\ MemoryFollows' /\ StagesAreRight'
      /\ KeysAreThere' /\ PoolIsFresh'
  BY <1>1, <1>2, <1>3, <1>4, <1>5, <1>6, <1>7, FreshNow, BecomeRight
<1>9. IndicesAreRight'
  BY <1>1, <1>2, <1>3, <1>5, IndicesStay
<1> QED
  BY <1>8, <1>9 DEF KeyPoolInv

\* Steps that move no key: the lock, the orderly end, the return of EncryptWallet.
LEMMA QuietKeeps ==
  ASSUME KeyPoolInv, vMasterKey' \in BOOLEAN,
         process' = process \/ (process = "up" /\ process' = "stopping"),
         encrypting' = encrypting \/ (encrypting = "done" /\ encrypting' = "no"),
         UNCHANGED <<keys, fUseCrypto, setKeyPool, vchDefaultKey, datFile, copyFile, reserved, coinbase,
                     given, mined, made, crossed, merged, stops>>
  PROVE  KeyPoolInv'
<1> USE DEF KeyPoolInv
<1>1. process' # "down" <=> process # "down"
  BY DEF KeyTypes
<1>2. encrypting' \in {encrypting, "no"} /\ (encrypting' # encrypting => encrypting = "done")
  OBVIOUS
<1>3. current' = current
  BY <1>2 DEF current
<1>4. KeyTypes'
  BY DEF KeyTypes, Bounded
<1>5. FilesAreRight'
  BY DEF FilesAreRight, FileIsWhole, FileShape, DefaultIsGiven, UnderOneKey, KeysIn, Bounded, NoFile
<1>6. MemoryFollows'
  BY <1>1, <1>3 DEF MemoryFollows, KeysIn
<1>7. StagesAreRight'
  BY <1>1, <1>2 DEF StagesAreRight, KeysIn, NoReserve, NoFile, SamePool
<1>8. KeysAreThere'
  BY DEF KeysAreThere, KeysIn
<1>9. PoolIsFresh'
  BY <1>3 DEF PoolIsFresh, Fresh
<1>10. IndicesAreRight'
  BY <1>3 DEF IndicesAreRight, HasRecord
<1> QED
  BY <1>4, <1>5, <1>6, <1>7, <1>8, <1>9, <1>10

LEMMA UseDefaultKeyKeeps == ASSUME KeyPoolInv, UseDefaultKey PROVE KeyPoolInv'
<1>1. vchDefaultKey \in given
  BY DEF UseDefaultKey, LockIsFree, KeyPoolInv, MemoryFollows
<1>2. UNCHANGED <<keys, fUseCrypto, vMasterKey, setKeyPool, vchDefaultKey, datFile, copyFile,
                  encrypting, process, reserved, coinbase, given, mined, made, crossed, merged, stops>>
  BY <1>1 DEF UseDefaultKey, OnlyWallet
<1>3. vMasterKey' \in BOOLEAN
  BY <1>2 DEF KeyPoolInv, KeyTypes
<1> QED
  BY <1>2, <1>3, QuietKeeps

LEMMA LockKeeps == ASSUME KeyPoolInv, Unlock \/ Lock PROVE KeyPoolInv'
  BY QuietKeeps DEF Unlock, Lock

LEMMA StopsAreQuiet == ASSUME KeyPoolInv, EncryptReturns \/ StartShutdown PROVE KeyPoolInv'
<1>1. vMasterKey' \in BOOLEAN
  BY DEF EncryptReturns, StartShutdown, KeyPoolInv, KeyTypes
<1> QED
  BY <1>1, QuietKeeps DEF EncryptReturns, StartShutdown

\* Steps that change only what the threads hold.
LEMMA FilesStay ==
  ASSUME KeyPoolInv, UNCHANGED <<keys, fUseCrypto, vchDefaultKey, datFile, copyFile, encrypting,
                                 process, given, made, merged>>
  PROVE  FilesAreRight' /\ MemoryFollows' /\ PoolIsFresh' /\ current' = current
         /\ UNCHANGED <<KeysIn(datFile), KeysIn(copyFile)>>
<1>1. current' = current
  BY DEF current
<1>2. FilesAreRight'
  BY DEF KeyPoolInv, FilesAreRight, FileIsWhole, FileShape, DefaultIsGiven, UnderOneKey, KeysIn,
         Bounded, NoFile
<1>3. MemoryFollows'
  BY <1>1 DEF KeyPoolInv, MemoryFollows, KeysIn
<1>4. PoolIsFresh'
  BY <1>1 DEF KeyPoolInv, PoolIsFresh, Fresh
<1> QED
  BY <1>1, <1>2, <1>3, <1>4 DEF KeysIn

LEMMA BlockIsReadyKeeps == ASSUME KeyPoolInv, NEW r \in MinerThread, BlockIsReady(r) PROVE KeyPoolInv'
<1> DEFINE i == reserved[r].nIndex
<1>1. reserved \in [MinerThread -> Reserve] /\ coinbase \in [MinerThread -> 0 .. MaxKey]
  BY DEF KeyPoolInv, KeyTypes
<1>2. UNCHANGED <<keys, fUseCrypto, vMasterKey, vchDefaultKey, datFile, copyFile, encrypting, process,
                  given, mined, made, crossed, merged, stops>> /\ process # "down" /\ encrypting = "no"
  BY DEF BlockIsReady, LockIsFree
<1>3. /\ reserved'[r] = NoReserve /\ coinbase'[r] = reserved[r].key
      /\ \A q \in MinerThread \ {r} : reserved'[q] = reserved[q] /\ coinbase'[q] = coinbase[q]
  BY <1>1 DEF BlockIsReady
<1>4. setKeyPool' = setKeyPool \/ (setKeyPool' = setKeyPool \cup {i} /\ i # -1)
  BY DEF BlockIsReady, Returned
<1>5. /\ FilesAreRight' /\ MemoryFollows' /\ PoolIsFresh' /\ current' = current
      /\ UNCHANGED <<KeysIn(datFile), KeysIn(copyFile)>>
  BY <1>2, FilesStay
<1>6. KeyTypes'
  <2>1. Bounded(setKeyPool')
    <3>1. CASE setKeyPool' = setKeyPool
      BY <3>1 DEF KeyPoolInv, KeyTypes
    <3>2. CASE setKeyPool' = setKeyPool \cup {i} /\ i # -1
      <4>1. i \in Nat \ {0}
        BY <3>2, <1>1 DEF Reserve
      <4>2. i .. i + 1 - 1 = {i}
        BY <4>1
      <4>3. Bounded(setKeyPool \cup i .. i + 1 - 1)
        BY <4>1, BoundedGrows DEF KeyPoolInv, KeyTypes
      <4> QED
        BY <3>2, <4>2, <4>3
    <3> QED
      BY <1>4, <3>1, <3>2
  <2>2. NoReserve \in Reserve
    BY KeyPoolAssumption DEF NoReserve, NoKey, Reserve
  <2>3. reserved' \in [MinerThread -> Reserve]
    BY <1>1, <2>2 DEF BlockIsReady
  <2>4. coinbase' \in [MinerThread -> 0 .. MaxKey]
    BY <1>1 DEF BlockIsReady, Reserve
  <2> QED
    BY <1>2, <2>1, <2>3, <2>4 DEF KeyPoolInv, KeyTypes, Bounded
<1>7. StagesAreRight'
  BY <1>2 DEF StagesAreRight
<1>8. KeysAreThere'
  <2>1. NoReserve.key = NoKey
    BY DEF NoReserve
  <2> QED
    BY <1>2, <1>3, <1>5, <2>1 DEF KeyPoolInv, KeysAreThere
<1>9. IndicesAreRight'
  <2> SUFFICES ASSUME ~merged PROVE IndicesAreRight'
    BY <1>2 DEF IndicesAreRight
  <2> DEFINE HasOne(j) == j \in DOMAIN current'.pool /\ current'.pool[j] \in keys'
  <2>1. \A j : HasRecord(j) => HasOne(j)
    BY <1>2, <1>5 DEF HasRecord
  <2> HIDE DEF HasOne
  <2>2. \A j \in setKeyPool' \ crossed' : HasOne(j)
    BY <1>2, <1>4, <2>1 DEF KeyPoolInv, IndicesAreRight
  <2>3. NoReserve.nIndex = -1
    BY DEF NoReserve
  <2>4. ASSUME NEW q \in MinerThread, reserved'[q].nIndex # -1, reserved'[q].nIndex \notin crossed'
        PROVE  /\ reserved'[q].nIndex \notin setKeyPool' /\ HasOne(reserved'[q].nIndex)
               /\ \A p \in MinerThread \ {q} : reserved'[p].nIndex # reserved'[q].nIndex
    <3>1. q # r /\ reserved'[q] = reserved[q]
      BY <1>3, <2>3, <2>4
    <3>2. /\ reserved[q].nIndex \notin setKeyPool /\ HasRecord(reserved[q].nIndex)
          /\ \A p \in MinerThread \ {q} : reserved[p].nIndex # reserved[q].nIndex
      BY <1>2, <2>4, <3>1 DEF KeyPoolInv, IndicesAreRight
    <3>3. i # reserved[q].nIndex
      BY <3>1, <3>2
    <3> QED
      BY <1>3, <1>4, <2>1, <2>3, <2>4, <3>1, <3>2, <3>3
  <2> QED
    BY <2>2, <2>4 DEF IndicesAreRight, HasRecord, HasOne
<1> QED
  BY <1>5, <1>6, <1>7, <1>8, <1>9 DEF KeyPoolInv

LEMMA CheckWorkKeeps == ASSUME KeyPoolInv, NEW r \in MinerThread, CheckWork(r) PROVE KeyPoolInv'
<1>1. UNCHANGED <<keys, fUseCrypto, vMasterKey, setKeyPool, vchDefaultKey, datFile, copyFile,
                  encrypting, process, reserved, given, made, crossed, merged, stops>> /\ process # "down" /\ encrypting = "no"
  BY DEF CheckWork, LockIsFree
<1>2. /\ FilesAreRight' /\ MemoryFollows' /\ PoolIsFresh' /\ current' = current
      /\ UNCHANGED <<KeysIn(datFile), KeysIn(copyFile)>>
  BY <1>1, FilesStay
<1>3. coinbase \in [MinerThread -> 0 .. MaxKey] /\ 0 \in 0 .. MaxKey
  BY KeyPoolAssumption DEF KeyPoolInv, KeyTypes
<1>4. coinbase' \in [MinerThread -> 0 .. MaxKey]
      /\ \A q \in MinerThread : coinbase'[q] \in {coinbase[q], NoKey}
  BY <1>3 DEF CheckWork, NoKey
<1>5. KeyTypes'
  BY <1>1, <1>4 DEF KeyPoolInv, KeyTypes, Bounded
<1>6. StagesAreRight'
  BY <1>1 DEF StagesAreRight
<1>7. KeysAreThere'
  BY <1>1, <1>2, <1>4 DEF CheckWork, KeyPoolInv, KeysAreThere
<1>8. IndicesAreRight'
  BY <1>1, <1>2 DEF KeyPoolInv, IndicesAreRight, HasRecord
<1> QED
  BY <1>2, <1>5, <1>6, <1>7, <1>8 DEF KeyPoolInv

-----------------------------------------------------------------------------
(***************************************************************************)
(* EncryptWallet and Rewrite.                                              *)
(***************************************************************************)
LEMMA EncryptedIsRight ==
  ASSUME KeyPoolInv, EncryptKeys
  PROVE  /\ FileShape(datFile') /\ datFile'.key = {} /\ DOMAIN datFile'.ckey = keys
         /\ datFile'.mkey = made
         /\ \A k \in keys : datFile'.ckey[k] = made
         /\ datFile'.pool = datFile.pool /\ datFile'.default = datFile.default
         /\ current = datFile /\ current' = datFile'
         /\ keys = KeysIn(datFile) /\ KeysIn(datFile)' = keys /\ keys # {} /\ made \in Nat \ {0}
         /\ made <= MaxKey
<1>1. FileShape(datFile)
  BY DEF KeyPoolInv, FilesAreRight, FileIsWhole
<1>2. /\ FileShape(datFile') /\ datFile'.key = {} /\ datFile'.ckey = [k \in keys |-> made]
      /\ datFile'.mkey = made
      /\ datFile'.pool = datFile.pool /\ datFile'.default = datFile.default
  BY <1>1 DEF EncryptKeys, Encrypted, FileShape
<1>3. current = datFile /\ current' = datFile' /\ process # "down" /\ ~fUseCrypto
  BY DEF EncryptKeys, LockIsFree, current
<1>4. keys = KeysIn(datFile) /\ datFile.default # NoKey
  BY <1>3 DEF KeyPoolInv, MemoryFollows
<1>5. keys # {}
  BY <1>4 DEF KeyPoolInv, FilesAreRight, DefaultIsGiven
<1>6. KeysIn(datFile)' = keys
  BY <1>2 DEF KeysIn
<1>7. made \in Nat \ {0} /\ made <= MaxKey
  BY KeyPoolAssumption DEF KeyPoolInv, KeyTypes, Key
<1> QED
  BY <1>2, <1>3, <1>4, <1>5, <1>6, <1>7

LEMMA EncryptKeysKeeps == ASSUME KeyPoolInv, EncryptKeys PROVE KeyPoolInv'
<1>1. /\ FileShape(datFile') /\ datFile'.key = {} /\ DOMAIN datFile'.ckey = keys /\ datFile'.mkey = made
      /\ \A k \in keys : datFile'.ckey[k] = made
      /\ datFile'.pool = datFile.pool /\ datFile'.default = datFile.default
      /\ current = datFile /\ current' = datFile'
      /\ keys = KeysIn(datFile) /\ KeysIn(datFile)' = keys /\ keys # {} /\ made \in Nat \ {0}
      /\ made <= MaxKey
  BY EncryptedIsRight
<1>2. UNCHANGED <<keys, setKeyPool, vchDefaultKey, copyFile, process, reserved, coinbase, given, mined,
                  made, crossed, merged, stops>>
      /\ fUseCrypto' = TRUE /\ vMasterKey' = TRUE /\ encrypting' = "erase" /\ made + PoolSize <= MaxKey
      /\ process = "up"
  BY DEF EncryptKeys
<1>3. KeyTypes'
  BY <1>2 DEF KeyPoolInv, KeyTypes, Bounded
<1>4. FilesAreRight'
  <2>1. FileIsWhole(datFile, made)'
    <3>1. KeysIn(datFile)' \subseteq 1 .. made'
      BY <1>1, <1>2 DEF KeyPoolInv, KeyTypes
    <3>2. Bounded(DOMAIN datFile.pool)'
          /\ \A i \in DOMAIN datFile'.pool : datFile'.pool[i] \in KeysIn(datFile)'
      BY <1>1 DEF KeyPoolInv, FilesAreRight, FileIsWhole, Bounded
    <3>3. datFile'.mkey \in 0 .. made' /\ datFile'.mkey # 0
      BY <1>1, <1>2
    <3> QED
      BY <1>1, <3>1, <3>2, <3>3 DEF FileIsWhole, FileShape
  <2>2. FileIsWhole(copyFile, made)'
    BY <1>2 DEF KeyPoolInv, FilesAreRight, FileIsWhole, FileShape, Bounded, KeysIn
  <2>3. DefaultIsGiven(datFile)'
    <3>1. datFile.default # NoKey /\ datFile.default \in given \cap KeysIn(datFile)
      BY <1>1, <1>2 DEF KeyPoolInv, MemoryFollows, FilesAreRight, DefaultIsGiven
    <3> QED
      BY <1>1, <1>2, <3>1 DEF DefaultIsGiven
  <2>4. DefaultIsGiven(copyFile)' /\ (copyFile' = NoFile' \/ copyFile'.mkey # 0)
    BY <1>2 DEF KeyPoolInv, FilesAreRight, DefaultIsGiven, KeysIn, NoFile
  <2>5. ~merged' => UnderOneKey(datFile)' /\ UnderOneKey(copyFile)'
    BY <1>1, <1>2 DEF KeyPoolInv, FilesAreRight, UnderOneKey
  <2> QED
    BY <2>1, <2>2, <2>3, <2>4, <2>5 DEF FilesAreRight
<1>5. MemoryFollows'
  <2>1. current'.default # NoKey /\ vchDefaultKey' \in given' /\ current'.mkey # 0
    BY <1>1, <1>2 DEF KeyPoolInv, MemoryFollows
  <2>2. KeysIn(current)' = keys
    BY <1>1 DEF KeysIn
  <2> QED
    BY <1>2, <2>1, <2>2 DEF MemoryFollows
<1>6. StagesAreRight'
  BY <1>2 DEF StagesAreRight
<1>7. KeysAreThere'
  <2>1. KeysIn(copyFile)' = KeysIn(copyFile) /\ KeysIn(datFile)' = KeysIn(datFile)
    BY <1>1, <1>2 DEF KeysIn
  <2> QED
    BY <1>2, <2>1 DEF KeyPoolInv, KeysAreThere
<1>8. PoolIsFresh'
  BY <1>1, <1>2 DEF KeyPoolInv, PoolIsFresh, Fresh
<1>9. IndicesAreRight'
  BY <1>1, <1>2 DEF KeyPoolInv, IndicesAreRight, HasRecord
<1> QED
  BY <1>3, <1>4, <1>5, <1>6, <1>7, <1>8, <1>9 DEF KeyPoolInv

LEMMA ErasePoolKeeps == ASSUME KeyPoolInv, ErasePool PROVE KeyPoolInv'
<1>1. FileShape(datFile) /\ current = datFile /\ current' = datFile'
  BY DEF KeyPoolInv, FilesAreRight, FileIsWhole, ErasePool, current
<1>2. UNCHANGED <<keys, fUseCrypto, vMasterKey, vchDefaultKey, copyFile, process, reserved, coinbase,
                  given, mined, made, crossed, merged, stops>>
      /\ setKeyPool' = {} /\ encrypting = "erase" /\ encrypting' = "fill" /\ process # "down"
  BY DEF ErasePool
<1>3. /\ FileShape(datFile') /\ datFile'.key = datFile.key /\ datFile'.ckey = datFile.ckey
      /\ datFile'.mkey = datFile.mkey /\ datFile'.default = datFile.default
      /\ datFile'.pool = [i \in DOMAIN datFile.pool \ setKeyPool |-> datFile.pool[i]]
  BY <1>1 DEF ErasePool, FileShape
<1>4. KeysIn(datFile)' = KeysIn(datFile) /\ KeysIn(copyFile)' = KeysIn(copyFile)
  BY <1>2, <1>3 DEF KeysIn
<1>5. KeyTypes'
  <2>1. Bounded({})
    BY 0 \in Nat DEF Bounded
  <2> QED
    BY <1>2, <2>1 DEF KeyPoolInv, KeyTypes, Bounded
<1>6. FilesAreRight'
  <2>1. FileIsWhole(datFile, made)'
    <3>1. Bounded(DOMAIN datFile'.pool)
      BY <1>3, BoundedParts DEF KeyPoolInv, FilesAreRight, FileIsWhole
    <3>2. \A i \in DOMAIN datFile'.pool : datFile'.pool[i] \in KeysIn(datFile)
      BY <1>3 DEF KeyPoolInv, FilesAreRight, FileIsWhole
    <3> QED
      BY <1>2, <1>3, <1>4, <3>1, <3>2 DEF KeyPoolInv, FilesAreRight, FileIsWhole, FileShape, Bounded
  <2>2. FileIsWhole(copyFile, made)'
    BY <1>2 DEF KeyPoolInv, FilesAreRight, FileIsWhole, FileShape, Bounded, KeysIn
  <2>3. DefaultIsGiven(datFile)'
    <3>1. datFile.default # NoKey /\ datFile.default \in given \cap KeysIn(datFile)
      BY <1>1, <1>2 DEF KeyPoolInv, MemoryFollows, FilesAreRight, DefaultIsGiven
    <3> QED
      BY <1>2, <1>3, <1>4, <3>1 DEF DefaultIsGiven
  <2>4. DefaultIsGiven(copyFile)' /\ (copyFile' = NoFile' \/ copyFile'.mkey # 0)
    BY <1>2 DEF KeyPoolInv, FilesAreRight, DefaultIsGiven, KeysIn, NoFile
  <2>5. ~merged' => UnderOneKey(datFile)' /\ UnderOneKey(copyFile)'
    BY <1>2, <1>3 DEF KeyPoolInv, FilesAreRight, UnderOneKey
  <2> QED
    BY <2>1, <2>2, <2>3, <2>4, <2>5 DEF FilesAreRight
<1>7. MemoryFollows'
  <2>1. KeysIn(current)' = KeysIn(current) /\ current'.default = current.default
        /\ current'.mkey = current.mkey
    BY <1>1, <1>3 DEF KeysIn
  <2> QED
    BY <1>2, <2>1 DEF KeyPoolInv, MemoryFollows
<1>8. StagesAreRight'
  <2>1. fUseCrypto /\ made + PoolSize <= MaxKey
    BY <1>2 DEF KeyPoolInv, StagesAreRight
  <2> QED
    BY <1>2, <2>1 DEF StagesAreRight
<1>9. KeysAreThere'
  BY <1>2, <1>4 DEF KeyPoolInv, KeysAreThere
<1>10. PoolIsFresh'
  BY <1>1, <1>2, <1>3 DEF KeyPoolInv, PoolIsFresh, Fresh
<1>11. IndicesAreRight'
  BY <1>1, <1>2, <1>3 DEF KeyPoolInv, IndicesAreRight, HasRecord
<1> QED
  BY <1>5, <1>6, <1>7, <1>8, <1>9, <1>10, <1>11 DEF KeyPoolInv
LEMMA BoundedUnion ==
  ASSUME NEW S, Bounded(S), NEW T, Bounded(T)
  PROVE  Bounded(S \cup T)
<1>1. PICK m \in Nat : S \subseteq 1 .. m
  BY DEF Bounded
<1>2. PICK n \in Nat : T \subseteq 1 .. n
  BY DEF Bounded
<1>3. S \cup T \subseteq 1 .. m + n
  BY <1>1, <1>2
<1> QED
  BY <1>3, m + n \in Nat DEF Bounded

\* Two encrypted files, or one and none, put together.
LEMMA CopyIsRight ==
  ASSUME KeyPoolInv, RewriteCopies
  PROVE  /\ FileIsWhole(copyFile', made) /\ KeysIn(copyFile)' = KeysIn(copyFile) \cup KeysIn(datFile)
         /\ copyFile'.mkey # 0 /\ copyFile'.default \in given \cap KeysIn(copyFile)'
         /\ copyFile'.default # NoKey
         /\ copyFile = NoFile =>
               /\ SamePool(copyFile', datFile)
               /\ UnderOneKey(datFile) => UnderOneKey(copyFile')
<1> DEFINE c == CopiedInto(copyFile, datFile)
<1>1. c = copyFile' /\ current = datFile /\ process # "down" /\ fUseCrypto
  BY DEF RewriteCopies, current, KeyPoolInv, StagesAreRight
<1>2. /\ FileShape(c) /\ c.key = copyFile.key \cup datFile.key
      /\ c.ckey = [k \in DOMAIN copyFile.ckey \cup DOMAIN datFile.ckey |->
                     IF k \in DOMAIN copyFile.ckey THEN copyFile.ckey[k] ELSE datFile.ckey[k]]
      /\ c.mkey = (IF copyFile.mkey # 0 THEN copyFile.mkey ELSE datFile.mkey)
      /\ c.pool = [i \in DOMAIN copyFile.pool \cup DOMAIN datFile.pool |->
                     IF i \in DOMAIN copyFile.pool THEN copyFile.pool[i] ELSE datFile.pool[i]]
      /\ c.default = (IF copyFile.default # NoKey THEN copyFile.default ELSE datFile.default)
  BY DEF CopiedInto, FileShape
<1> HIDE DEF c
<1>3. FileIsWhole(copyFile, made) /\ FileIsWhole(datFile, made)
  BY DEF KeyPoolInv, FilesAreRight
<1>4. datFile.mkey # 0 /\ datFile.default # NoKey /\ datFile.default \in given \cap KeysIn(datFile)
  BY <1>1 DEF KeyPoolInv, MemoryFollows, FilesAreRight, DefaultIsGiven
<1>5. KeysIn(c) = KeysIn(copyFile) \cup KeysIn(datFile)
  BY <1>2 DEF KeysIn
<1>6. c.mkey # 0 /\ c.mkey \in 0 .. made
  BY <1>2, <1>3, <1>4 DEF FileIsWhole
<1>7. c.key = {}
  <2>1. copyFile.key = {}
    BY <1>3 DEF KeyPoolInv, FilesAreRight, NoFile, FileIsWhole
  <2>2. datFile.key = {}
    BY <1>3, <1>4 DEF FileIsWhole
  <2> QED
    BY <1>2, <2>1, <2>2
<1>8. DOMAIN c.ckey # {}
  BY <1>2, <1>3, <1>4 DEF FileIsWhole
<1>9. Bounded(DOMAIN c.pool)
  BY <1>2, <1>3, BoundedUnion DEF FileIsWhole
<1>10. \A i \in DOMAIN c.pool : c.pool[i] \in KeysIn(c)
  BY <1>2, <1>3, <1>5 DEF FileIsWhole
<1>11. FileIsWhole(c, made)
  BY <1>2, <1>3, <1>5, <1>6, <1>7, <1>8, <1>9, <1>10 DEF FileIsWhole
<1>12. c.default # NoKey /\ c.default \in given \cap KeysIn(c)
  BY <1>2, <1>4, <1>5 DEF KeyPoolInv, FilesAreRight, DefaultIsGiven
<1>13. ASSUME copyFile = NoFile
       PROVE  SamePool(c, datFile) /\ (UnderOneKey(datFile) => UnderOneKey(c))
  <2>1. DOMAIN copyFile.pool = {} /\ DOMAIN copyFile.ckey = {} /\ copyFile.mkey = 0
    BY <1>13 DEF NoFile
  <2>2. SamePool(c, datFile)
    BY <1>2, <2>1 DEF SamePool
  <2>3. UnderOneKey(datFile) => UnderOneKey(c)
    BY <1>2, <2>1 DEF UnderOneKey
  <2> QED
    BY <2>2, <2>3
<1>14. KeysIn(copyFile)' = KeysIn(c)
  BY <1>1 DEF KeysIn
<1> QED
  BY <1>1, <1>5, <1>6, <1>11, <1>12, <1>13, <1>14

LEMMA RewriteCopiesKeeps == ASSUME KeyPoolInv, RewriteCopies PROVE KeyPoolInv'
<1>1. /\ FileIsWhole(copyFile', made) /\ KeysIn(copyFile)' = KeysIn(copyFile) \cup KeysIn(datFile)
      /\ copyFile'.mkey # 0 /\ copyFile'.default \in given \cap KeysIn(copyFile)'
      /\ copyFile'.default # NoKey
      /\ copyFile = NoFile =>
            /\ SamePool(copyFile', datFile)
            /\ UnderOneKey(datFile) => UnderOneKey(copyFile')
  BY CopyIsRight
<1>2. UNCHANGED <<keys, fUseCrypto, vMasterKey, setKeyPool, vchDefaultKey, datFile, process, reserved,
                  coinbase, given, mined, made, crossed, stops>>
      /\ process # "down" /\ encrypting = "copy" /\ encrypting' = "remove"
  BY DEF RewriteCopies
<1>3. merged' \in BOOLEAN /\ (~merged' <=> ~merged /\ copyFile = NoFile)
  BY DEF RewriteCopies, KeyPoolInv, KeyTypes
<1>4. current = datFile /\ current' = datFile
  BY <1>2 DEF current
<1>5. KeysIn(datFile)' = KeysIn(datFile)
  BY <1>2 DEF KeysIn
<1>6. KeyTypes'
  BY <1>2, <1>3 DEF KeyPoolInv, KeyTypes, Bounded
<1>7. FilesAreRight'
  <2>1. FileIsWhole(datFile, made)'
    BY <1>2 DEF KeyPoolInv, FilesAreRight, FileIsWhole, FileShape, Bounded, KeysIn
  <2>2. FileIsWhole(copyFile, made)'
    BY <1>1, <1>2 DEF FileIsWhole, FileShape, Bounded, KeysIn
  <2>3. DefaultIsGiven(datFile)'
    BY <1>2 DEF KeyPoolInv, FilesAreRight, DefaultIsGiven, KeysIn, NoFile
  <2>4. DefaultIsGiven(copyFile)'
    BY <1>1, <1>2 DEF DefaultIsGiven
  <2>5. ~merged' => UnderOneKey(datFile)'
    BY <1>2, <1>3 DEF KeyPoolInv, FilesAreRight, UnderOneKey
  <2>6. ~merged' => UnderOneKey(copyFile)'
    BY <1>1, <1>3 DEF KeyPoolInv, FilesAreRight, UnderOneKey
  <2> QED
    BY <1>1, <2>1, <2>2, <2>3, <2>4, <2>5, <2>6 DEF FilesAreRight
<1>8. MemoryFollows'
  BY <1>2, <1>4 DEF KeyPoolInv, MemoryFollows, KeysIn
<1>9. StagesAreRight'
  <2>1. fUseCrypto
    BY <1>2 DEF KeyPoolInv, StagesAreRight
  <2>2. ~merged' => SamePool(copyFile, datFile)'
    BY <1>1, <1>2, <1>3 DEF SamePool
  <2> QED
    BY <1>1, <1>2, <1>5, <2>1, <2>2 DEF StagesAreRight
<1>10. KeysAreThere'
  BY <1>1, <1>2, <1>5 DEF KeyPoolInv, KeysAreThere
<1>11. PoolIsFresh'
  BY <1>2, <1>3, <1>4 DEF KeyPoolInv, PoolIsFresh, Fresh
<1>12. IndicesAreRight'
  BY <1>2, <1>3, <1>4 DEF KeyPoolInv, IndicesAreRight, HasRecord
<1> QED
  BY <1>6, <1>7, <1>8, <1>9, <1>10, <1>11, <1>12 DEF KeyPoolInv

\* The file that is not there is right.
LEMMA NoFileIsRight ==
  /\ \A m \in Nat : FileIsWhole(NoFile, m)
  /\ DefaultIsGiven(NoFile) /\ UnderOneKey(NoFile) /\ KeysIn(NoFile) = {} /\ NoFile.default = NoKey
<1>1. /\ FileShape(NoFile) /\ NoFile.key = {} /\ NoFile.mkey = 0 /\ DOMAIN NoFile.ckey = {}
      /\ DOMAIN NoFile.pool = {} /\ NoFile.default = NoKey
  BY DEF NoFile, FileShape
<1>2. Bounded({})
  BY 0 \in Nat DEF Bounded
<1>3. KeysIn(NoFile) = {}
  BY <1>1 DEF KeysIn
<1>4. \A m \in Nat : FileIsWhole(NoFile, m)
  BY <1>1, <1>2, <1>3 DEF FileIsWhole
<1>5. DefaultIsGiven(NoFile) /\ UnderOneKey(NoFile)
  BY <1>1 DEF DefaultIsGiven, UnderOneKey
<1> QED
  BY <1>1, <1>3, <1>4, <1>5

LEMMA RewriteRemovesKeeps == ASSUME KeyPoolInv, RewriteRemoves PROVE KeyPoolInv'
<1>1. UNCHANGED <<keys, fUseCrypto, vMasterKey, setKeyPool, vchDefaultKey, copyFile, process, reserved,
                  coinbase, given, mined, made, crossed, merged, stops>>
      /\ process # "down" /\ encrypting = "remove" /\ encrypting' = "rename" /\ datFile' = NoFile
  BY DEF RewriteRemoves
<1>2. /\ KeysIn(datFile) \subseteq KeysIn(copyFile) /\ copyFile.default # NoKey /\ copyFile.mkey # 0
      /\ (~merged => SamePool(copyFile, datFile)) /\ fUseCrypto
  BY <1>1 DEF KeyPoolInv, StagesAreRight
<1>3. current = datFile /\ current' = copyFile
  BY <1>1 DEF current
<1>4. KeysIn(datFile)' = {} /\ KeysIn(copyFile)' = KeysIn(copyFile)
  BY <1>1, NoFileIsRight DEF KeysIn
<1>5. KeyTypes'
  BY <1>1 DEF KeyPoolInv, KeyTypes, Bounded
<1>6. made \in Nat
  BY KeyPoolAssumption DEF KeyPoolInv, KeyTypes, Key
<1>7. FilesAreRight'
  <2>1. FileIsWhole(datFile, made)'
    <3>1. FileIsWhole(datFile', made')
      BY <1>1, <1>6, NoFileIsRight
    <3> QED
      BY <3>1 DEF FileIsWhole, FileShape, Bounded, KeysIn
  <2>2. FileIsWhole(copyFile, made)'
    BY <1>1 DEF KeyPoolInv, FilesAreRight, FileIsWhole, FileShape, Bounded, KeysIn
  <2>3. DefaultIsGiven(datFile)'
    BY <1>1, NoFileIsRight DEF DefaultIsGiven, NoFile
  <2>4. DefaultIsGiven(copyFile)' /\ copyFile'.mkey # 0
    BY <1>1, <1>2 DEF KeyPoolInv, FilesAreRight, DefaultIsGiven, KeysIn, NoFile
  <2>5. UnderOneKey(datFile)'
    BY <1>1, NoFileIsRight DEF UnderOneKey
  <2>6. ~merged' => UnderOneKey(copyFile)'
    BY <1>1 DEF KeyPoolInv, FilesAreRight, UnderOneKey
  <2> QED
    BY <2>1, <2>2, <2>3, <2>4, <2>5, <2>6 DEF FilesAreRight
<1>8. MemoryFollows'
  <2>1. current'.default # NoKey /\ current'.mkey # 0 /\ KeysIn(current)' = KeysIn(copyFile)
    BY <1>2, <1>3 DEF KeysIn
  <2>2. vchDefaultKey \in given /\ keys \subseteq KeysIn(copyFile)
    BY <1>1, <1>2, <1>3 DEF KeyPoolInv, MemoryFollows
  <2> QED
    BY <1>1, <1>2, <2>1, <2>2 DEF MemoryFollows
<1>9. StagesAreRight'
  BY <1>1, <1>2 DEF StagesAreRight, NoFile
<1>10. KeysAreThere'
  BY <1>1, <1>2, <1>4 DEF KeyPoolInv, KeysAreThere
<1>11. PoolIsFresh'
  BY <1>1, <1>2, <1>3 DEF KeyPoolInv, PoolIsFresh, Fresh, SamePool
<1>12. IndicesAreRight'
  <2> SUFFICES ASSUME ~merged PROVE IndicesAreRight'
    BY <1>1 DEF IndicesAreRight
  <2> DEFINE HasOne(j) == j \in DOMAIN current'.pool /\ current'.pool[j] \in keys'
  <2>1. \A j : HasRecord(j) => HasOne(j)
    BY <1>1, <1>2, <1>3 DEF HasRecord, SamePool
  <2> HIDE DEF HasOne
  <2>2. \A j \in setKeyPool' \ crossed' : HasOne(j)
    BY <1>1, <2>1 DEF KeyPoolInv, IndicesAreRight
  <2>3. ASSUME NEW q \in MinerThread, reserved'[q].nIndex # -1, reserved'[q].nIndex \notin crossed'
        PROVE  /\ reserved'[q].nIndex \notin setKeyPool' /\ HasOne(reserved'[q].nIndex)
               /\ \A p \in MinerThread \ {q} : reserved'[p].nIndex # reserved'[q].nIndex
    BY <1>1, <2>1, <2>3 DEF KeyPoolInv, IndicesAreRight
  <2> QED
    BY <2>2, <2>3 DEF IndicesAreRight, HasRecord, HasOne
<1> QED
  BY <1>5, <1>7, <1>8, <1>9, <1>10, <1>11, <1>12 DEF KeyPoolInv

LEMMA RewriteRenamesKeeps == ASSUME KeyPoolInv, RewriteRenames PROVE KeyPoolInv'
<1>1. UNCHANGED <<keys, fUseCrypto, vMasterKey, setKeyPool, vchDefaultKey, process, reserved, coinbase,
                  given, mined, made, crossed, merged, stops>>
      /\ process # "down" /\ encrypting = "rename" /\ encrypting' = "done"
      /\ datFile' = copyFile /\ copyFile' = NoFile
  BY DEF RewriteRenames
<1>2. current = copyFile /\ current' = copyFile /\ datFile = NoFile /\ fUseCrypto
  BY <1>1 DEF current, KeyPoolInv, StagesAreRight
<1>3. KeysIn(datFile) = {} /\ KeysIn(datFile)' = KeysIn(copyFile) /\ KeysIn(copyFile)' = {}
  BY <1>1, <1>2, NoFileIsRight DEF KeysIn
<1>4. KeyTypes'
  BY <1>1 DEF KeyPoolInv, KeyTypes, Bounded
<1>5. made \in Nat
  BY KeyPoolAssumption DEF KeyPoolInv, KeyTypes, Key
<1>6. FilesAreRight'
  <2>1. FileIsWhole(copyFile, made)'
    <3>1. FileIsWhole(copyFile', made')
      BY <1>1, <1>5, NoFileIsRight
    <3> QED
      BY <3>1 DEF FileIsWhole, FileShape, Bounded, KeysIn
  <2>2. FileIsWhole(datFile, made)'
    BY <1>1 DEF KeyPoolInv, FilesAreRight, FileIsWhole, FileShape, Bounded, KeysIn
  <2>3. DefaultIsGiven(copyFile)' /\ copyFile' = NoFile'
    BY <1>1, NoFileIsRight DEF DefaultIsGiven, NoFile
  <2>4. DefaultIsGiven(datFile)'
    BY <1>1 DEF KeyPoolInv, FilesAreRight, DefaultIsGiven, KeysIn, NoFile
  <2>5. UnderOneKey(copyFile)'
    BY <1>1, NoFileIsRight DEF UnderOneKey
  <2>6. ~merged' => UnderOneKey(datFile)'
    BY <1>1 DEF KeyPoolInv, FilesAreRight, UnderOneKey
  <2> QED
    BY <2>1, <2>2, <2>3, <2>4, <2>5, <2>6 DEF FilesAreRight
<1>7. MemoryFollows'
  <2>1. KeysIn(current)' = KeysIn(current)
    BY <1>2 DEF KeysIn
  <2> QED
    BY <1>1, <1>2, <2>1 DEF KeyPoolInv, MemoryFollows
<1>8. StagesAreRight'
  BY <1>1, <1>2 DEF StagesAreRight
<1>9. KeysAreThere'
  BY <1>1, <1>3 DEF KeyPoolInv, KeysAreThere
<1>10. PoolIsFresh'
  BY <1>1, <1>2 DEF KeyPoolInv, PoolIsFresh, Fresh
<1>11. IndicesAreRight'
  BY <1>1, <1>2 DEF KeyPoolInv, IndicesAreRight, HasRecord
<1> QED
  BY <1>4, <1>6, <1>7, <1>8, <1>9, <1>10, <1>11 DEF KeyPoolInv
-----------------------------------------------------------------------------
(***************************************************************************)
(* The end of the process and the next start.                              *)
(***************************************************************************)
LEMMA StopKeeps == ASSUME KeyPoolInv, Stop PROVE KeyPoolInv'
<1>1. /\ process' = "down" /\ encrypting' = "no" /\ fUseCrypto' = FALSE /\ vMasterKey' = FALSE
      /\ keys' = {} /\ setKeyPool' = {} /\ vchDefaultKey' = NoKey
      /\ \A r \in MinerThread : reserved'[r] = NoReserve /\ coinbase'[r] = NoKey
      /\ UNCHANGED <<datFile, copyFile, given, mined, made, crossed, merged>>
  BY DEF Stop
<1>2. current' = datFile
  BY <1>1 DEF current
<1>3. NoReserve.nIndex = -1 /\ NoReserve.key = NoKey
  BY DEF NoReserve
<1>4. KeysIn(datFile)' = KeysIn(datFile) /\ KeysIn(copyFile)' = KeysIn(copyFile)
  BY <1>1 DEF KeysIn
<1>5. KeyTypes'
  <2>1. Bounded({})
    BY 0 \in Nat DEF Bounded
  <2>2. stops' \in 0 .. MaxStops
    BY KeyPoolAssumption DEF Stop, KeyPoolInv, KeyTypes
  <2>3. NoReserve \in Reserve /\ NoKey \in 0 .. MaxKey
    BY KeyPoolAssumption DEF NoReserve, NoKey, Reserve
  <2>4. reserved' \in [MinerThread -> Reserve] /\ coinbase' \in [MinerThread -> 0 .. MaxKey]
    BY <2>3 DEF Stop
  <2> QED
    BY <1>1, <2>1, <2>2, <2>3, <2>4 DEF KeyPoolInv, KeyTypes, Bounded
<1>6. FilesAreRight'
  BY <1>1
     DEF KeyPoolInv, FilesAreRight, FileIsWhole, FileShape, DefaultIsGiven, UnderOneKey, KeysIn,
         Bounded, NoFile
<1>7. MemoryFollows'
  BY <1>1 DEF MemoryFollows
<1>8. StagesAreRight'
  BY <1>1 DEF StagesAreRight, NoReserve
<1>9. KeysAreThere'
  BY <1>1, <1>3, <1>4 DEF KeyPoolInv, KeysAreThere
<1>10. PoolIsFresh'
  <2>1. CASE encrypting = "rename"
    <3>1. DOMAIN datFile.pool = {}
      BY <2>1 DEF KeyPoolInv, StagesAreRight, NoFile
    <3> QED
      BY <1>1, <1>2, <3>1 DEF PoolIsFresh, Fresh
  <2>2. CASE encrypting # "rename"
    BY <1>1, <1>2, <2>2 DEF KeyPoolInv, PoolIsFresh, Fresh, current
  <2> QED
    BY <2>1, <2>2
<1>11. IndicesAreRight'
  BY <1>1, <1>3 DEF IndicesAreRight
<1> QED
  BY <1>5, <1>6, <1>7, <1>8, <1>9, <1>10, <1>11 DEF KeyPoolInv

\* A wallet that is there is read as it is.
LEMMA LoadFoundKeeps == ASSUME KeyPoolInv, LoadWallet, datFile.default # NoKey PROVE KeyPoolInv'
<1>1. /\ process = "down" /\ process' = "up" /\ (fUseCrypto' <=> DOMAIN datFile.ckey # {})
      /\ vchDefaultKey' = datFile.default
      /\ keys' = KeysIn(datFile) /\ setKeyPool' = DOMAIN datFile.pool /\ datFile' = datFile
      /\ made' = made
      /\ crossed' = crossed
      /\ UNCHANGED <<vMasterKey, copyFile, encrypting, reserved, coinbase, mined, merged, stops, given>>
  BY DEF LoadWallet, BecomeWallet
<1>2. encrypting = "no" /\ \A r \in MinerThread : reserved[r] = NoReserve
  BY <1>1 DEF KeyPoolInv, StagesAreRight
<1>3. current = datFile /\ current' = datFile
  BY <1>1, <1>2 DEF current
<1>4. NoReserve.nIndex = -1
  BY DEF NoReserve
<1>5. KeysIn(datFile)' = KeysIn(datFile) /\ KeysIn(copyFile)' = KeysIn(copyFile)
      /\ KeysIn(current)' = KeysIn(datFile)
  BY <1>1, <1>3 DEF KeysIn
<1>6. FileIsWhole(datFile, made) /\ DefaultIsGiven(datFile)
  BY DEF KeyPoolInv, FilesAreRight
<1>7. datFile.default \in given /\ datFile.default \in 0 .. MaxKey
  <2>1. datFile.default \in given /\ given \subseteq 1 .. made /\ made \in 1 .. MaxKey
    BY <1>6 DEF DefaultIsGiven, KeyPoolInv, KeyTypes, Key
  <2>2. \A x \in 1 .. made : x \in 0 .. MaxKey
    BY <2>1, KeyPoolAssumption
  <2> QED
    BY <2>1, <2>2
<1>8. KeyTypes'
  <2>1. keys' \subseteq 1 .. made' /\ Bounded(setKeyPool)'
    BY <1>1, <1>6 DEF FileIsWhole, Bounded
  <2> QED
    BY <1>1, <1>7, <2>1 DEF KeyPoolInv, KeyTypes, Bounded
<1>9. FilesAreRight'
  BY <1>1
     DEF KeyPoolInv, FilesAreRight, FileIsWhole, FileShape, DefaultIsGiven, UnderOneKey, KeysIn,
         Bounded, NoFile
<1>10. MemoryFollows'
  <2>1. fUseCrypto' <=> current'.mkey # 0
    BY <1>1, <1>3, <1>6 DEF FileIsWhole
  <2> QED
    BY <1>1, <1>3, <1>5, <1>7, <2>1 DEF MemoryFollows
<1>11. StagesAreRight'
  BY <1>1, <1>2 DEF StagesAreRight
<1>12. KeysAreThere'
  BY <1>1, <1>5 DEF KeyPoolInv, KeysAreThere
<1>13. PoolIsFresh'
  BY <1>1, <1>3 DEF KeyPoolInv, PoolIsFresh, Fresh
<1>14. IndicesAreRight'
  <2>1. \A i \in setKeyPool' : HasRecord(i)'
    BY <1>1, <1>3, <1>6 DEF FileIsWhole, HasRecord
  <2> QED
    BY <1>1, <1>2, <1>4, <2>1 DEF IndicesAreRight
<1> QED
  BY <1>8, <1>9, <1>10, <1>11, <1>12, <1>13, <1>14 DEF KeyPoolInv

\* The wallet that LoadWallet works on.
FoundWallet ==
    [keys |-> KeysIn(datFile), pool |-> DOMAIN datFile.pool, file |-> datFile, made |-> made, new |-> {}]

\* A file that is missing is created with a pool, whose first key becomes the default.
LEMMA FirstWallet ==
  ASSUME KeyPoolInv, process = "down", datFile.default = NoKey
  PROVE  LET w == AddToPool(FoundWallet, 1, PoolSize + 1)
             i == OldestIndex(w)
         IN  /\ WalletIsRight(w) /\ IndicesOf(w, Crossed(w)) /\ made <= w.made /\ i \in w.pool
             /\ Readable(w, i)
             /\ w.file.pool[i] # NoKey /\ w.file.mkey = 0 /\ w.made \in Nat \ {0} /\ datFile = NoFile
<1> DEFINE w == AddToPool(FoundWallet, 1, PoolSize + 1)
           i == OldestIndex(w)
           f == FoundWallet
<1>1. datFile = NoFile
  BY DEF KeyPoolInv, FilesAreRight, DefaultIsGiven
<1>2. /\ f.keys = {} /\ f.pool = {} /\ f.file = datFile /\ f.made = made /\ f.new = {}
      /\ DOMAIN f = {"keys", "pool", "file", "made", "new"}
  <2>1. KeysIn(datFile) = {}
    BY <1>1, NoFileIsRight
  <2>2. DOMAIN datFile.pool = {}
    BY <1>1 DEF NoFile
  <2> QED
    BY <2>1, <2>2 DEF FoundWallet
<1>3. made \in Nat \ {0} /\ given \subseteq 1 .. made
  BY KeyPoolAssumption DEF KeyPoolInv, KeyTypes, Key
<1>4. FileIsWhole(datFile, made) /\ UnderOneKey(datFile) /\ KeysIn(datFile) = {}
  BY <1>1, <1>3, NoFileIsRight
<1>5. datFile.mkey = 0 /\ DOMAIN datFile.pool = {}
  BY <1>1 DEF NoFile
<1>6. fUseCrypto = FALSE /\ \A r \in MinerThread : reserved[r] = NoReserve
  BY DEF KeyPoolInv, StagesAreRight
<1>7. NoReserve.nIndex = -1
  BY DEF NoReserve
<1>8. Bounded({})
  BY 0 \in Nat DEF Bounded
<1> HIDE DEF f
<1>9. WalletIsRight(f)
  <2>1. WalletShape(f)
    BY <1>2, <1>4 DEF WalletShape, FileIsWhole
  <2>2. Fresh(f.file.pool, given)
    BY <1>2, <1>5 DEF Fresh
  <2> QED
    BY <1>2, <1>3, <1>4, <1>5, <1>6, <1>8, <2>1, <2>2 DEF WalletIsRight
<1>10. IndicesOf(f, crossed)
  BY <1>2, <1>6, <1>7 DEF IndicesOf
<1>11. PoolSize + 1 \in Nat /\ PoolSize + 1 > 0
  BY KeyPoolAssumption
<1>12. WalletIsRight(w) /\ IndicesOf(w, Crossed(w)) /\ made <= w.made
  BY <1>2, <1>3, <1>9, <1>10, <1>11, AddToPoolRight, AddToPoolIndices DEF f
<1>13. HasAdded(w, f, 1, PoolSize + 1)
  BY <1>9, AddedFields DEF f, WalletIsRight
<1> HIDE DEF w
<1> DEFINE idx == 1 .. 1 + (PoolSize + 1) - 1
<1>14. /\ w.pool = idx /\ w.file.mkey = 0
       /\ w.keys = made + 1 .. made + (PoolSize + 1)
       /\ DOMAIN w.file.pool = idx /\ \A j \in idx : w.file.pool[j] = made + 1 + j - 1
  <2>1. w.pool = idx
    BY <1>2, <1>13 DEF HasAdded
  <2>2. w.file.mkey = 0
    BY <1>2, <1>5, <1>13 DEF HasAdded
  <2>3. w.keys = made + 1 .. made + (PoolSize + 1)
    BY <1>2, <1>13 DEF HasAdded
  <2>4. w.file.pool = [j \in DOMAIN datFile.pool \cup idx |->
                         IF j \in idx THEN made + 1 + j - 1 ELSE datFile.pool[j]]
    BY <1>2, <1>13 DEF HasAdded
  <2>5. DOMAIN w.file.pool = idx /\ \A j \in idx : w.file.pool[j] = made + 1 + j - 1
    BY <1>5, <2>4
  <2> QED
    BY <2>1, <2>2, <2>3, <2>5
<1>15. w.pool # {}
  BY <1>11, <1>14
<1>16. i \in w.pool
  BY <1>12, <1>15, MinOfBounded DEF WalletIsRight, OldestIndex
<1> HIDE DEF i
<1>17. w.file.pool[i] = made + 1 + i - 1 /\ i \in DOMAIN w.file.pool /\ i \in 1 .. PoolSize + 1
  BY <1>11, <1>14, <1>16
<1>18. w.file.pool[i] \in w.keys /\ w.file.pool[i] # NoKey
  BY <1>3, <1>11, <1>14, <1>17 DEF NoKey
<1>19. w.made \in Nat \ {0}
  BY <1>12 DEF WalletIsRight
<1> QED
  BY <1>1, <1>12, <1>14, <1>16, <1>17, <1>18, <1>19 DEF Readable, w, i, f

LEMMA DefaultFields ==
  ASSUME NEW k, WalletShape(k), NEW out
  PROVE  LET e == [k EXCEPT !.file.default = out]
         IN  /\ FileShape(e.file) /\ e.keys = k.keys /\ e.pool = k.pool /\ e.made = k.made
             /\ e.new = k.new
             /\ e.file.key = k.file.key /\ e.file.ckey = k.file.ckey /\ e.file.mkey = k.file.mkey
             /\ e.file.pool = k.file.pool /\ e.file.default = out
  BY DEF WalletShape, FileShape

LEMMA LoadFirstKeeps == ASSUME KeyPoolInv, LoadWallet, datFile.default = NoKey PROVE KeyPoolInv'
<1> DEFINE w == AddToPool(FoundWallet, 1, PoolSize + 1)
           i == OldestIndex(w)
           k == KeepKey(w, i)
           out == w.file.pool[i]
           e == [k EXCEPT !.file.default = out]
<1>1. /\ process = "down" /\ process' = "up" /\ (fUseCrypto' <=> DOMAIN datFile.ckey # {})
      /\ vchDefaultKey' = out /\ w.made <= MaxKey /\ given' = given \cup {out} /\ BecomeWallet(e)
      /\ UNCHANGED <<vMasterKey, copyFile, encrypting, reserved, coinbase, mined, merged, stops>>
  BY DEF LoadWallet, FoundWallet
<1>2. /\ WalletIsRight(w) /\ IndicesOf(w, Crossed(w)) /\ made <= w.made /\ i \in w.pool /\ Readable(w, i)
      /\ out # NoKey /\ w.file.mkey = 0 /\ w.made \in Nat \ {0} /\ datFile = NoFile
  BY <1>1, FirstWallet
<1> HIDE DEF w, i
<1>3. /\ WalletIsRight(k) /\ k.new = w.new /\ k.made = w.made /\ KeysIn(k.file) = KeysIn(w.file)
      /\ (~merged => Fresh(k.file.pool, given \cup {out}))
      /\ \A c : IndicesOf(w, c) => IndicesOf(k, c)
  BY <1>2, KeepKeyRight
<1> HIDE DEF k
<1>4. out \in w.keys /\ out \in 1 .. w.made /\ out \in KeysIn(k.file)
  BY <1>2, <1>3 DEF Readable, WalletIsRight
<1> HIDE DEF out
<1>5. /\ FileShape(e.file) /\ e.keys = k.keys /\ e.pool = k.pool /\ e.made = k.made /\ e.new = k.new
      /\ e.file.key = k.file.key /\ e.file.ckey = k.file.ckey /\ e.file.mkey = k.file.mkey
      /\ e.file.pool = k.file.pool /\ e.file.default = out
  BY <1>3, DefaultFields DEF WalletIsRight
<1> HIDE DEF e
<1>6. /\ keys' = k.keys /\ setKeyPool' = k.pool /\ datFile' = e.file /\ made' = w.made
      /\ crossed' = crossed \cup ({reserved[r].nIndex : r \in MinerThread} \cap k.new)
  BY <1>1, <1>3, <1>5 DEF BecomeWallet
<1>7. encrypting = "no" /\ fUseCrypto = FALSE /\ \A r \in MinerThread : reserved[r] = NoReserve
  BY <1>1 DEF KeyPoolInv, StagesAreRight
<1>8. fUseCrypto' = FALSE /\ k.file.mkey = 0
  <2>1. ~fUseCrypto'
    BY <1>1, <1>2 DEF NoFile
  <2>2. fUseCrypto' \in BOOLEAN
    BY DEF LoadWallet
  <2>3. k.file.mkey = 0
    BY <1>3, <1>7 DEF WalletIsRight
  <2> QED
    BY <2>1, <2>2, <2>3
<1>9. current' = e.file /\ KeysIn(current)' = KeysIn(k.file) /\ KeysIn(datFile)' = KeysIn(k.file)
      /\ KeysIn(copyFile)' = KeysIn(copyFile) /\ KeysIn(datFile) = {}
  <2>1. KeysIn(e.file) = KeysIn(k.file)
    BY <1>5 DEF KeysIn
  <2>2. current' = e.file
    BY <1>1, <1>6, <1>7 DEF current
  <2>3. KeysIn(current') = KeysIn(k.file) /\ KeysIn(datFile') = KeysIn(k.file)
    BY <1>6, <2>1, <2>2
  <2> QED
    BY <1>1, <1>2, <2>2, <2>3, NoFileIsRight DEF KeysIn
<1>10. made \in Nat /\ given \subseteq 1 .. made /\ MaxKey \in Nat
  BY KeyPoolAssumption DEF KeyPoolInv, KeyTypes, Key
<1>11. KeyTypes'
  <2>1. made' \in Key /\ given' \subseteq 1 .. made' /\ vchDefaultKey' \in 0 .. MaxKey
    <3>1. w.made \in 1 .. MaxKey /\ 1 .. made \subseteq 1 .. w.made
      BY <1>1, <1>2, <1>10
    <3>2. out \in 0 .. MaxKey
      BY <1>4, <1>10, <3>1
    <3> QED
      BY <1>1, <1>4, <1>6, <1>10, <3>1, <3>2 DEF Key
  <2>2. keys' \subseteq 1 .. made' /\ Bounded(setKeyPool')
    BY <1>3, <1>6 DEF WalletIsRight
  <2> QED
    BY <1>1, <1>8, <2>1, <2>2 DEF KeyPoolInv, KeyTypes, Bounded
<1>12. FilesAreRight'
  <2>1. FileIsWhole(datFile, made)'
    <3>1. FileIsWhole(k.file, w.made)
      BY <1>3 DEF WalletIsRight
    <3>2. \A j \in DOMAIN datFile'.pool : datFile'.pool[j] \in KeysIn(datFile)'
      BY <1>5, <1>6, <1>9, <3>1 DEF FileIsWhole
    <3> QED
      BY <1>5, <1>6, <1>9, <3>1, <3>2 DEF FileIsWhole, FileShape, Bounded
  <2>2. FileIsWhole(copyFile, made)'
    <3>1. FileIsWhole(copyFile, w.made)
      BY <1>2, <1>10 DEF KeyPoolInv, FilesAreRight, FileIsWhole
    <3> QED
      BY <1>1, <1>6, <3>1 DEF FileIsWhole, FileShape, Bounded, KeysIn
  <2>3. DefaultIsGiven(datFile)'
    BY <1>1, <1>2, <1>4, <1>5, <1>6, <1>9 DEF DefaultIsGiven
  <2>4. DefaultIsGiven(copyFile)' /\ (copyFile' = NoFile' \/ copyFile'.mkey # 0)
    BY <1>1 DEF KeyPoolInv, FilesAreRight, DefaultIsGiven, KeysIn, NoFile
  <2>5. ~merged' => UnderOneKey(datFile)' /\ UnderOneKey(copyFile)'
    BY <1>1, <1>3, <1>5, <1>6 DEF KeyPoolInv, FilesAreRight, UnderOneKey, WalletIsRight
  <2> QED
    BY <2>1, <2>2, <2>3, <2>4, <2>5 DEF FilesAreRight
<1>13. MemoryFollows'
  <2>1. current'.default # NoKey /\ vchDefaultKey' \in given' /\ current'.mkey = 0
    BY <1>1, <1>2, <1>5, <1>8, <1>9
  <2>2. keys' = KeysIn(k.file)
    BY <1>3, <1>6, <1>7 DEF WalletIsRight
  <2> QED
    BY <1>8, <1>9, <2>1, <2>2 DEF MemoryFollows
<1>14. StagesAreRight'
  BY <1>1, <1>7 DEF StagesAreRight
<1>15. KeysAreThere'
  BY <1>1, <1>4, <1>9 DEF KeyPoolInv, KeysAreThere
<1>16. PoolIsFresh'
  BY <1>1, <1>3, <1>5, <1>9 DEF PoolIsFresh, Fresh
<1>17. IndicesAreRight'
  <2>1. IndicesOf(k, crossed')
    <3>1. crossed' = Crossed(w)
      BY <1>3, <1>6 DEF Crossed
    <3> QED
      BY <1>2, <1>3, <3>1
  <2>2. \A j : Readable(k, j) => HasRecord(j)'
    BY <1>5, <1>6, <1>9 DEF Readable, HasRecord
  <2>3. NoReserve.nIndex = -1
    BY DEF NoReserve
  <2> QED
    BY <1>1, <1>6, <1>7, <2>1, <2>2, <2>3 DEF IndicesAreRight, IndicesOf
<1> QED
  BY <1>11, <1>12, <1>13, <1>14, <1>15, <1>16, <1>17 DEF KeyPoolInv
LEMMA LoadWalletKeeps == ASSUME KeyPoolInv, LoadWallet PROVE KeyPoolInv'
  BY LoadFoundKeeps, LoadFirstKeeps

LEMMA KeyPoolInvInit == KeyPoolInit => KeyPoolInv
<1> SUFFICES ASSUME KeyPoolInit PROVE KeyPoolInv
  OBVIOUS
<1>1. /\ made = PoolSize + 1 /\ keys = 1 .. made /\ fUseCrypto = FALSE /\ vMasterKey = FALSE
      /\ setKeyPool = 2 .. made /\ vchDefaultKey = 1
      /\ FileShape(datFile) /\ datFile.key = keys /\ DOMAIN datFile.ckey = {} /\ datFile.mkey = 0
      /\ datFile.default = 1
      /\ copyFile = NoFile /\ encrypting = "no" /\ process = "up"
      /\ given = {1} /\ mined = {} /\ crossed = {} /\ merged = FALSE /\ stops = 0
  BY DEF KeyPoolInit, FileShape
<1>2. DOMAIN datFile.pool = setKeyPool /\ \A i \in setKeyPool : datFile.pool[i] = i
  BY DEF KeyPoolInit
<1>3. \A r \in MinerThread : reserved[r] = NoReserve /\ coinbase[r] = NoKey
  BY DEF KeyPoolInit
<1>4. made \in Nat \ {0} /\ made \in Key /\ 1 \in 1 .. made /\ 1 \in 0 .. MaxKey
      /\ 2 .. made \subseteq 1 .. made
  BY <1>1, KeyPoolAssumption DEF Key
<1>5. KeysIn(datFile) = 1 .. made /\ current = datFile /\ Bounded(setKeyPool)
  <2>1. Bounded(setKeyPool)
    BY <1>1, <1>4 DEF Bounded
  <2> QED
    BY <1>1, <2>1 DEF KeysIn, current
<1>6. NoReserve.nIndex = -1 /\ NoReserve.key = NoKey /\ NoReserve \in Reserve /\ NoKey \in 0 .. MaxKey
  BY KeyPoolAssumption DEF NoReserve, NoKey, Reserve
<1>7. KeyTypes
  <2>1. reserved \in [MinerThread -> Reserve] /\ coinbase \in [MinerThread -> 0 .. MaxKey]
    BY <1>6 DEF KeyPoolInit
  <2>2. 0 \in 0 .. MaxStops
    BY KeyPoolAssumption
  <2> QED
    BY <1>1, <1>4, <1>5, <2>1, <2>2 DEF KeyTypes
<1>8. FilesAreRight
  <2>1. FileIsWhole(datFile, made)
    <3>1. \A i \in DOMAIN datFile.pool : datFile.pool[i] \in KeysIn(datFile)
      BY <1>1, <1>2, <1>4, <1>5
    <3>2. datFile.mkey \in 0 .. made
      BY <1>1, <1>4
    <3> QED
      BY <1>1, <1>2, <1>5, <3>1, <3>2 DEF FileIsWhole
  <2>2. DefaultIsGiven(datFile)
    BY <1>1, <1>4, <1>5 DEF DefaultIsGiven, NoKey
  <2>3. UnderOneKey(datFile)
    BY <1>1 DEF UnderOneKey
  <2> QED
    BY <1>1, <1>4, <2>1, <2>2, <2>3, NoFileIsRight DEF FilesAreRight
<1>9. MemoryFollows
  BY <1>1, <1>5 DEF MemoryFollows, NoKey
<1>10. StagesAreRight
  BY <1>1 DEF StagesAreRight
<1>11. KeysAreThere
  BY <1>1, <1>3, <1>4, <1>5, <1>6 DEF KeysAreThere
<1>12. PoolIsFresh
  BY <1>1, <1>2, <1>4, <1>5 DEF PoolIsFresh, Fresh
<1>13. IndicesAreRight
  BY <1>1, <1>2, <1>3, <1>4, <1>5, <1>6 DEF IndicesAreRight, HasRecord
<1> QED
  BY <1>7, <1>8, <1>9, <1>10, <1>11, <1>12, <1>13 DEF KeyPoolInv

LEMMA KeyPoolInvStep == KeyPoolInv /\ [KeyPoolNext]_keyVars => KeyPoolInv'
<1> SUFFICES ASSUME KeyPoolInv, [KeyPoolNext]_keyVars PROVE KeyPoolInv'
  OBVIOUS
<1>1. ASSUME NEW n \in 0 .. PoolSize + 1, TopUpKeyPool(n) PROVE KeyPoolInv'
  BY <1>1, TopUpKeyPoolKeeps, KeyPoolAssumption
<1>2. CASE GiveKey
  BY <1>2, GiveKeyKeeps
<1>3. CASE GetKeyFromPoolThrows
  BY <1>3, GetKeyFromPoolThrowsKeeps
<1>4. CASE UseDefaultKey
  BY <1>4, UseDefaultKeyKeeps
<1>5. CASE Unlock \/ Lock
  BY <1>5, LockKeeps
<1>6. ASSUME NEW r \in MinerThread, CreateNewBlock(r) PROVE KeyPoolInv'
  BY <1>6, CreateNewBlockKeeps
<1>7. ASSUME NEW r \in MinerThread, BlockIsReady(r) PROVE KeyPoolInv'
  BY <1>7, BlockIsReadyKeeps
<1>8. ASSUME NEW r \in MinerThread, CheckWork(r) PROVE KeyPoolInv'
  BY <1>8, CheckWorkKeeps
<1>9. CASE EncryptKeys
  BY <1>9, EncryptKeysKeeps
<1>10. CASE ErasePool
  BY <1>10, ErasePoolKeeps
<1>11. CASE NewKeyPool
  BY <1>11, NewKeyPoolKeeps
<1>12. CASE RewriteCopies
  BY <1>12, RewriteCopiesKeeps
<1>13. CASE RewriteRemoves
  BY <1>13, RewriteRemovesKeeps
<1>14. CASE RewriteRenames
  BY <1>14, RewriteRenamesKeeps
<1>15. CASE EncryptReturns \/ StartShutdown
  BY <1>15, StopsAreQuiet
<1>16. CASE Stop
  BY <1>16, StopKeeps
<1>17. CASE LoadWallet
  BY <1>17, LoadWalletKeeps
<1>18. CASE UNCHANGED keyVars
  <2>1. UNCHANGED <<keys, fUseCrypto, vMasterKey, setKeyPool, vchDefaultKey, datFile, copyFile,
                    encrypting, process, reserved, coinbase, given, mined, made, crossed, merged,
                    stops>>
    BY <1>18 DEF keyVars
  <2>2. vMasterKey' \in BOOLEAN
    BY <2>1 DEF KeyPoolInv, KeyTypes
  <2> QED
    BY <2>1, <2>2, QuietKeeps
<1> QED
  BY <1>1, <1>2, <1>3, <1>4, <1>5, <1>6, <1>7, <1>8, <1>9, <1>10, <1>11, <1>12, <1>13, <1>14, <1>15,
     <1>16,
     <1>17, <1>18 DEF KeyPoolNext

LEMMA KeyPoolInvIsSound == KeyPoolInv => KeyPoolIsSound
<1> SUFFICES ASSUME KeyPoolInv PROVE KeyPoolIsSound
  OBVIOUS
<1>1. made \in Key /\ made \in Nat /\ 1 .. made \subseteq Key /\ 0 .. made \subseteq 0 .. MaxKey
      /\ NoKey \in 0 .. MaxKey
  BY KeyPoolAssumption DEF KeyPoolInv, KeyTypes, Key, NoKey
<1>2. ASSUME NEW f, FileIsWhole(f, made), DefaultIsGiven(f) PROVE IsWalletFile(f)
  <2>1. f.key \subseteq Key /\ DOMAIN f.ckey \subseteq Key /\ f.mkey \in 0 .. MaxKey
    BY <1>1, <1>2 DEF FileIsWhole, KeysIn
  <2>2. f.default \in 0 .. MaxKey
    <3>1. f.default = NoKey \/ f.default \in 1 .. made
      BY <1>2 DEF DefaultIsGiven, KeyPoolInv, KeyTypes
    <3>2. 1 .. made \subseteq 0 .. MaxKey
      BY <1>1
    <3> QED
      BY <1>1, <3>1, <3>2
  <2>3. \A i \in DOMAIN f.pool : i > 0 /\ f.pool[i] \in KeysIn(f)
    BY <1>2 DEF FileIsWhole, Bounded
  <2> QED
    BY <2>1, <2>2, <2>3 DEF IsWalletFile
<1>3. KeyPoolTypeOK
  <2>1. IsWalletFile(datFile) /\ IsWalletFile(copyFile)
    BY <1>2 DEF KeyPoolInv, FilesAreRight
  <2>2. \A r \in MinerThread : reserved[r].key \in 0 .. MaxKey /\ coinbase[r] \in 0 .. MaxKey
    BY DEF KeyPoolInv, KeyTypes, Reserve
  <2> QED
    BY <1>1, <2>1, <2>2 DEF KeyPoolInv, KeyTypes, KeyPoolTypeOK
<1>4. LockIsFree => current = datFile
  BY DEF LockIsFree, current
<1>5. PoolIsReadable
  BY <1>4 DEF PoolIsReadable, KeyPoolInv, IndicesAreRight, HasRecord, Readable, KeyWallet
<1>6. GivenKeysStayOut
  BY <1>4 DEF GivenKeysStayOut, KeyPoolInv, PoolIsFresh, Fresh
<1>7. KeysSurvive
  BY DEF KeysSurvive, KeyPoolInv, KeysAreThere
<1>8. EncryptionIsWhole
  BY DEF EncryptionIsWhole, KeyPoolInv, FilesAreRight, FileIsWhole, UnderOneKey
<1> QED
  BY <1>3, <1>5, <1>6, <1>7, <1>8 DEF KeyPoolIsSound

\* Whatever a crash between two writes of EncryptWallet and Rewrite, a relocked wallet
\* or a reserved key of CreateNewBlock comes between: no key that was given out or
\* mined to is lost or handed out again, the pool can be read, and a wallet with a
\* master key has no key in plain text.
THEOREM KeyPoolStaysSound == KeyPoolSpec => []KeyPoolIsSound
<1>1. KeyPoolInit => KeyPoolInv
  BY KeyPoolInvInit
<1>2. KeyPoolInv /\ [KeyPoolNext]_keyVars => KeyPoolInv'
  BY KeyPoolInvStep
<1>3. KeyPoolInv => KeyPoolIsSound
  BY KeyPoolInvIsSound
<1> QED
  BY <1>1, <1>2, <1>3, PTL DEF KeyPoolSpec

-----------------------------------------------------------------------------
(***************************************************************************)
(* Alerts.  A node that has an alert in effect, or one that cancels it,    *)
(* will not lose that knowledge before the alert expires (Covers), because *)
(* an alert cancels only older ones, which expire earlier.  What one node  *)
(* believes of another one is therefore lasting: what it holds as known    *)
(* there is covered there, or is on the way behind a version message, or   *)
(* was pushed too early (PairRight).                                       *)
(***************************************************************************)
AlertIds == 1 .. Len(issued)

AlertTypes ==
    /\ issued \in Seq([cancel : Nat, expires : Nat]) /\ Len(issued) <= MaxAlerts
    /\ mapAlerts \in [Host -> SUBSET AlertIds]
    /\ wire \in [Pair -> Seq({Version} \cup AlertIds)]
    /\ setKnown \in [Pair -> SUBSET AlertIds]
    /\ links \subseteq Pair
    /\ alertTime \in Nat

IssuedRight ==
    \A a \in AlertIds :
        /\ issued[a].cancel < a /\ issued[a].expires <= alertTime + Lifetime
        /\ \A b \in 1 .. a : issued[b].expires <= issued[a].expires

\* Node n has a, or one that has cancelled it.
Covers(n, a) == \E b \in mapAlerts[n] : b = a \/ Cancels(b, a)

\* The version message of m has come to n or will.
VersionComes(m, n) ==
    <<n, m>> \in nVersion \/ \E j \in 1 .. Len(wire[<<m, n>>]) : wire[<<m, n>>][j] = Version

\* a is on the way from m to n, behind the version message if that has not come.
OnTheWay(m, n, a) ==
    \E i \in 1 .. Len(wire[<<m, n>>]) :
        /\ wire[<<m, n>>][i] = a
        /\ <<n, m>> \in nVersion \/ \E j \in 1 .. i - 1 : wire[<<m, n>>][j] = Version

NoLinkNoState(m, n) ==
    /\ ~Linked(m, n) => /\ wire[<<m, n>>] = <<>> /\ setKnown[<<m, n>>] = {}
                        /\ <<m, n>> \notin nVersion
    /\ ~(<<m, n>> \in links /\ <<n, m>> \in links)

VersionRight(m, n) == <<m, n>> \in links \/ <<m, n>> \in nVersion => VersionComes(m, n)

KnownRight(m, n) == \A a \in setKnown[<<m, n>>] : IsInEffect(a) => Covers(m, a)

WireRight(m, n) ==
    \A i \in 1 .. Len(wire[<<m, n>>]) : LET a == wire[<<m, n>>][i] IN
        a # Version /\ IsInEffect(a) => Covers(m, a)

HandedOn(m, n) ==
    \A a \in setKnown[<<m, n>>] :
        IsInEffect(a) /\ <<m, n, a>> \notin early => Covers(n, a) \/ OnTheWay(m, n, a)

AllIsKnown(m, n) ==
    <<m, n>> \in nVersion => \A a \in mapAlerts[m] : IsInEffect(a) => a \in setKnown[<<m, n>>]

PairRight(m, n) ==
    /\ NoLinkNoState(m, n) /\ VersionRight(m, n) /\ KnownRight(m, n) /\ WireRight(m, n)
    /\ HandedOn(m, n) /\ AllIsKnown(m, n)

AlertsInv ==
    /\ AlertTypes /\ IssuedRight /\ AlertsAreCurrent
    /\ \A p \in Pair : PairRight(p[1], p[2])

LEMMA PairIs ==
  /\ \A p \in Pair : p = <<p[1], p[2]>> /\ p[1] \in Host /\ p[2] \in Host /\ p[1] # p[2]
  /\ \A m, n \in Host : m # n => <<m, n>> \in Pair /\ <<n, m>> \in Pair
BY DEF Pair

LEMMA AlertsInvInit == AlertsInit => AlertsInv
<1> SUFFICES ASSUME AlertsInit PROVE AlertsInv
  OBVIOUS
<1>1. AlertIds = {} /\ issued = <<>> /\ Len(issued) = 0
  BY DEF AlertsInit, AlertIds
<1>2. AlertTypes
  <2>1. <<>> \in Seq([cancel : Nat, expires : Nat]) /\ <<>> \in Seq({Version} \cup AlertIds)
    OBVIOUS
  <2> QED
    BY <1>1, <2>1, AlertAssumption DEF AlertsInit, AlertTypes
<1>3. ASSUME NEW p \in Pair PROVE PairRight(p[1], p[2])
  <2> DEFINE m == p[1]
             n == p[2]
  <2>1. /\ wire[<<m, n>>] = <<>> /\ setKnown[<<m, n>>] = {} /\ 1 .. Len(<<>>) = {}
        /\ links = {} /\ nVersion = {}
    BY PairIs DEF AlertsInit
  <2> HIDE DEF m, n
  <2>2. NoLinkNoState(m, n) /\ VersionRight(m, n) /\ KnownRight(m, n)
    BY <2>1 DEF NoLinkNoState, VersionRight, KnownRight
  <2>3. WireRight(m, n) /\ HandedOn(m, n) /\ AllIsKnown(m, n)
    BY <2>1 DEF WireRight, HandedOn, AllIsKnown
  <2> QED
    BY <2>2, <2>3 DEF PairRight, m, n
<1> QED
  BY <1>1, <1>2, <1>3 DEF AlertsInv, IssuedRight, AlertsAreCurrent, AlertsInit

-----------------------------------------------------------------------------
LEMMA IssuedIs ==
  ASSUME AlertTypes, NEW a \in AlertIds
  PROVE  issued[a].cancel \in Nat /\ issued[a].expires \in Nat
<1> DEFINE R == [cancel : Nat, expires : Nat]
<1>1. issued \in Seq(R) /\ a \in 1 .. Len(issued)
  BY DEF AlertTypes, AlertIds
<1> HIDE DEF R
<1>2. issued[a] \in R
  BY <1>1
<1> QED
  BY <1>2 DEF R

\* One that cancels an alert in effect is in effect as well: it was issued later.
LEMMA CancellerIsNewer ==
  ASSUME AlertTypes, IssuedRight, NEW a \in AlertIds, NEW b \in AlertIds, a <= issued[b].cancel
  PROVE  a < b /\ (IsInEffect(a) => IsInEffect(b))
<1>1. issued[b].cancel \in Nat /\ issued[a].expires \in Nat /\ issued[b].expires \in Nat
  BY IssuedIs
<1>2. a < b /\ a \in 1 .. b
  BY <1>1 DEF IssuedRight, AlertIds
<1>3. issued[a].expires <= issued[b].expires
  BY <1>2 DEF IssuedRight
<1> QED
  BY <1>1, <1>2, <1>3 DEF IsInEffect, AlertTypes

\* To cancel is transitive.
LEMMA CancelsOn ==
  ASSUME AlertTypes, IssuedRight, NEW a \in AlertIds, NEW b \in AlertIds, NEW c \in AlertIds,
         a = b \/ Cancels(b, a), Cancels(c, b)
  PROVE  Cancels(c, a)
<1>1. issued[b].cancel \in Nat /\ issued[c].cancel \in Nat
  BY IssuedIs
<1>2. issued[b].cancel < b
  BY DEF IssuedRight
<1> QED
  BY <1>1, <1>2 DEF Cancels, AlertIds

\* ProcessAlert loses no knowledge of what is in effect, and gains that of the alert.
LEMMA ProcessCovers ==
  ASSUME AlertTypes, IssuedRight, NEW n \in Host, NEW a \in AlertIds
  PROVE  /\ AfterProcess(n, a) \subseteq AlertIds
         /\ IsInEffect(a) => \E b \in AfterProcess(n, a) : b = a \/ Cancels(b, a)
         /\ \A x \in AlertIds : IsInEffect(x) /\ Covers(n, x)
                => \E b \in AfterProcess(n, a) : b = x \/ Cancels(b, x)
         /\ ~IsInEffect(a) \/ Cancelled(n, a) => AfterProcess(n, a) \subseteq mapAlerts[n]
         /\ AfterProcess(n, a) \subseteq mapAlerts[n] \cup {a}
<1>1. mapAlerts[n] \subseteq AlertIds /\ Left(n, a) \subseteq mapAlerts[n]
  BY DEF AlertTypes, Left
<1>2. CASE ~IsInEffect(a)
  BY <1>1, <1>2 DEF AfterProcess, Covers
<1>3. CASE IsInEffect(a)
  <2>1. AfterProcess(n, a) = Left(n, a) \cup (IF Cancelled(n, a) THEN {} ELSE {a})
    BY <1>3 DEF AfterProcess
  <2>2. \E b \in AfterProcess(n, a) : b = a \/ Cancels(b, a)
    BY <2>1 DEF Cancelled
  <2>3. ASSUME NEW x \in AlertIds, IsInEffect(x), Covers(n, x)
        PROVE  \E b \in AfterProcess(n, a) : b = x \/ Cancels(b, x)
    <3>1. PICK b \in mapAlerts[n] : b = x \/ Cancels(b, x)
      BY <2>3 DEF Covers
    <3>2. IsInEffect(b) /\ b \in AlertIds
      BY <1>1, <2>3, <3>1 DEF Cancels
    <3>3. CASE b \in Left(n, a)
      BY <2>1, <3>1, <3>3
    <3>4. CASE b \notin Left(n, a)
      <4>1. Cancels(a, b)
        BY <3>2, <3>4 DEF Left
      <4>2. Cancels(a, x)
        BY <3>1, <3>2, <4>1, CancelsOn
      <4>3. CASE ~Cancelled(n, a)
        BY <2>1, <4>2, <4>3
      <4>4. CASE Cancelled(n, a)
        <5>1. PICK c \in Left(n, a) : Cancels(c, a)
          BY <4>4 DEF Cancelled
        <5>2. Cancels(c, x)
          BY <1>1, <4>2, <5>1, CancelsOn
        <5> QED
          BY <2>1, <5>1, <5>2
      <4> QED
        BY <4>3, <4>4
    <3> QED
      BY <3>3, <3>4
  <2> QED
    BY <1>1, <1>3, <2>1, <2>2, <2>3
<1> QED
  BY <1>2, <1>3

\* What a step does to all pairs: knowledge lasts, nothing comes into effect again.
Lasting ==
    /\ \A a \in AlertIds : IsInEffect(a)' => IsInEffect(a)
    /\ \A n \in Host, a \in AlertIds : IsInEffect(a)' /\ Covers(n, a) => Covers(n, a)'

\* m believes that n knows the alerts of X too, and puts suffix on the wire, among them X.
LEMMA PairGrows ==
  ASSUME AlertTypes, Lasting, NEW m \in Host, NEW n \in Host, m # n, PairRight(m, n),
         NEW X, NEW suffix \in Seq({Version} \cup Nat),
         Linked(m, n) \/ (X = {} /\ suffix = <<>>),
         wire'[<<m, n>>] = wire[<<m, n>>] \o suffix,
         setKnown'[<<m, n>>] = setKnown[<<m, n>>] \cup X,
         <<m, n>> \in links' <=> <<m, n>> \in links, <<n, m>> \in links' <=> <<n, m>> \in links,
         <<n, m>> \in nVersion' <=> <<n, m>> \in nVersion,
         <<m, n>> \in nVersion => <<m, n>> \in nVersion',
         \A a \in AlertIds : <<m, n, a>> \in early => <<m, n, a>> \in early',
         <<m, n>> \in nVersion' =>
            /\ <<m, n>> \in nVersion \/ (Linked(m, n) /\ (VersionComes(m, n) \/ \E j \in 1 .. Len(suffix) : suffix[j] = Version))
            /\ \A a \in mapAlerts'[m] : IsInEffect(a)' => a \in setKnown'[<<m, n>>],
         \A i \in 1 .. Len(suffix) : suffix[i] # Version /\ IsInEffect(suffix[i])' => Covers(m, suffix[i])',
         \A a \in X : IsInEffect(a)' =>
            /\ Covers(m, a)'
            /\ \/ <<m, n, a>> \in early'
               \/ Covers(n, a)'
               \/ \E i \in 1 .. Len(suffix) :
                    /\ suffix[i] = a
                    /\ VersionComes(m, n) \/ \E j \in 1 .. i - 1 : suffix[j] = Version
  PROVE  PairRight(m, n)'
<1> DEFINE w == wire[<<m, n>>]
<1>0. <<m, n>> \in Pair
  BY PairIs
<1>1. w \in Seq({Version} \cup AlertIds) /\ setKnown[<<m, n>>] \subseteq AlertIds
  BY <1>0 DEF AlertTypes
<1>2. /\ Len(w \o suffix) = Len(w) + Len(suffix) /\ Len(w) \in Nat /\ Len(suffix) \in Nat
      /\ \A i \in 1 .. Len(w) : (w \o suffix)[i] = w[i]
      /\ \A i \in 1 .. Len(suffix) : (w \o suffix)[Len(w) + i] = suffix[i]
  BY <1>1
<1>3. \A i \in 1 .. Len(w \o suffix) : i \in 1 .. Len(w) \/ \E k \in 1 .. Len(suffix) : i = Len(w) + k
  <2> TAKE i \in 1 .. Len(w \o suffix)
  <2>0. i \in 1 .. (Len(w) + Len(suffix))
    BY <1>2
  <2> HIDE DEF w
  <2>1. i > Len(w) => i - Len(w) \in 1 .. Len(suffix) /\ i = Len(w) + (i - Len(w))
    BY <1>2
  <2>2. i <= Len(w) => i \in 1 .. Len(w)
    BY <1>2, <2>0
  <2>3. i \in Nat
    BY <2>0
  <2>4. CASE i <= Len(w)
    BY <2>2, <2>4
  <2>5. CASE i > Len(w)
    <3> DEFINE k == i - Len(w)
    <3>1. k \in 1 .. Len(suffix) /\ i = Len(w) + k
      BY <2>1, <2>5
    <3> HIDE DEF k
    <3> QED
      BY <3>1
  <2> QED
    BY <1>2, <2>3, <2>4, <2>5
<1>4. wire'[<<m, n>>] = w \o suffix
  OBVIOUS
<1> HIDE DEF w
<1>5. NoLinkNoState(m, n)'
  <2>1. ~Linked(m, n) => X = {} /\ suffix = <<>> /\ wire'[<<m, n>>] = w
    BY <1>1, <1>4
  <2>2. <<m, n>> \in nVersion' => <<m, n>> \in nVersion \/ Linked(m, n)
    OBVIOUS
  <2> QED
    BY <2>1, <2>2 DEF PairRight, NoLinkNoState, Linked, w
<1>6. VersionComes(m, n) => VersionComes(m, n)'
  <2>1. ASSUME NEW j \in 1 .. Len(w), w[j] = Version PROVE VersionComes(m, n)'
    <3>1. (w \o suffix)[j] = Version /\ j \in 1 .. Len(w \o suffix)
      BY <1>2, <2>1
    <3> QED
      BY <1>4, <3>1 DEF VersionComes
  <2> QED
    BY <2>1 DEF VersionComes, w
<1>7. (\E j \in 1 .. Len(suffix) : suffix[j] = Version) => VersionComes(m, n)'
  <2> SUFFICES ASSUME NEW j \in 1 .. Len(suffix), suffix[j] = Version PROVE VersionComes(m, n)'
    OBVIOUS
  <2>1. (w \o suffix)[Len(w) + j] = Version /\ Len(w) + j \in 1 .. Len(w \o suffix)
    BY <1>2
  <2> QED
    BY <1>4, <2>1 DEF VersionComes
<1>8. VersionRight(m, n)'
  <2>1. <<m, n>> \in links \/ <<m, n>> \in nVersion => VersionComes(m, n)'
    BY <1>6 DEF PairRight, VersionRight
  <2>2. <<m, n>> \in nVersion' => VersionComes(m, n)'
    BY <1>6, <1>7, <2>1
  <2> QED
    BY <2>1, <2>2 DEF VersionRight
<1>9. KnownRight(m, n)'
  <2>1. ASSUME NEW a \in setKnown'[<<m, n>>], IsInEffect(a)' PROVE Covers(m, a)'
    <3>1. CASE a \in X
      BY <2>1, <3>1
    <3>2. CASE a \notin X
      <4>1. a \in setKnown[<<m, n>>] /\ a \in AlertIds /\ IsInEffect(a)
        BY <1>1, <2>1, <3>2 DEF Lasting
      <4> QED
        BY <2>1, <4>1 DEF PairRight, KnownRight, Lasting
    <3> QED
      BY <3>1, <3>2
  <2> QED
    BY <2>1 DEF KnownRight
<1>10. WireRight(m, n)'
  <2>1. ASSUME NEW i \in 1 .. Len(w \o suffix), NEW a, a = (w \o suffix)[i], a # Version, IsInEffect(a)'
        PROVE  Covers(m, a)'
    <3>1. CASE i \in 1 .. Len(w)
      <4>1. a = w[i] /\ a \in AlertIds
        BY <1>1, <1>2, <2>1, <3>1
      <4>2. IsInEffect(a)
        BY <2>1, <4>1 DEF Lasting
      <4>3. Covers(m, a)
        BY <2>1, <3>1, <4>1, <4>2 DEF PairRight, WireRight, w
      <4> QED
        BY <2>1, <4>1, <4>3 DEF Lasting
    <3>2. ASSUME NEW k \in 1 .. Len(suffix), i = Len(w) + k PROVE Covers(m, a)'
      <4>1. a = suffix[k]
        BY <1>2, <2>1, <3>2
      <4> QED
        BY <2>1, <4>1
    <3> QED
      BY <1>3, <3>1, <3>2
  <2> QED
    BY <1>4, <2>1 DEF WireRight
<1>11. \A a : OnTheWay(m, n, a) => OnTheWay(m, n, a)'
  <2> SUFFICES ASSUME NEW a, OnTheWay(m, n, a) PROVE OnTheWay(m, n, a)'
    OBVIOUS
  <2>1. PICK i \in 1 .. Len(w) : w[i] = a /\ (<<n, m>> \in nVersion \/ \E j \in 1 .. i - 1 : w[j] = Version)
    BY DEF OnTheWay, w
  <2>2. i \in 1 .. Len(w \o suffix) /\ (w \o suffix)[i] = a /\ \A j \in 1 .. i - 1 : (w \o suffix)[j] = w[j]
    BY <1>2, <2>1
  <2> QED
    BY <1>4, <2>1, <2>2 DEF OnTheWay
<1>12. ASSUME NEW a, NEW i \in 1 .. Len(suffix), suffix[i] = a,
              VersionComes(m, n) \/ \E j \in 1 .. i - 1 : suffix[j] = Version
       PROVE  OnTheWay(m, n, a)'
  <2> DEFINE k == Len(w) + i
  <2>1. k \in 1 .. Len(w \o suffix) /\ (w \o suffix)[k] = a
    BY <1>2, <1>12
  <2>2. CASE <<n, m>> \in nVersion
    BY <1>4, <2>1, <2>2 DEF OnTheWay
  <2>3. ASSUME NEW j \in 1 .. Len(w), w[j] = Version PROVE OnTheWay(m, n, a)'
    <3>1. j \in 1 .. k - 1 /\ (w \o suffix)[j] = Version
      BY <1>2, <2>3
    <3> QED
      BY <1>4, <2>1, <3>1 DEF OnTheWay
  <2>4. ASSUME NEW j \in 1 .. i - 1, suffix[j] = Version PROVE OnTheWay(m, n, a)'
    <3>1. Len(w) + j \in 1 .. k - 1 /\ (w \o suffix)[Len(w) + j] = Version
      BY <1>2, <2>4
    <3> QED
      BY <1>4, <2>1, <3>1 DEF OnTheWay
  <2> QED
    BY <1>12, <2>2, <2>3, <2>4 DEF VersionComes, w
<1>13. HandedOn(m, n)'
  <2>1. ASSUME NEW a \in setKnown'[<<m, n>>], IsInEffect(a)', <<m, n, a>> \notin early'
        PROVE  Covers(n, a)' \/ OnTheWay(m, n, a)'
    <3>1. CASE a \in X
      BY <1>12, <2>1, <3>1
    <3>2. CASE a \notin X
      <4>1. a \in setKnown[<<m, n>>] /\ a \in AlertIds /\ IsInEffect(a) /\ <<m, n, a>> \notin early
        BY <1>1, <2>1, <3>2 DEF Lasting
      <4>2. Covers(n, a) \/ OnTheWay(m, n, a)
        BY <4>1 DEF PairRight, HandedOn
      <4> QED
        BY <1>11, <2>1, <4>1, <4>2 DEF Lasting
    <3> QED
      BY <3>1, <3>2
  <2> QED
    BY <2>1 DEF HandedOn
<1>14. AllIsKnown(m, n)'
  BY DEF AllIsKnown
<1> QED
  BY <1>5, <1>8, <1>9, <1>10, <1>13, <1>14 DEF PairRight

\* The first message from m to n is taken: the version message, or an alert that n refuses as
\* one it knows or covers then.
LEMMA PairPopped ==
  ASSUME AlertTypes, Lasting, NEW m \in Host, NEW n \in Host, m # n, PairRight(m, n), wire[<<m, n>>] # <<>>,
         NEW h, h = Head(wire[<<m, n>>]),
         wire'[<<m, n>>] = Tail(wire[<<m, n>>]),
         UNCHANGED links, setKnown'[<<m, n>>] = setKnown[<<m, n>>],
         <<m, n>> \in nVersion' <=> <<m, n>> \in nVersion,
         <<n, m>> \in nVersion => <<n, m>> \in nVersion',
         \A a \in AlertIds : <<m, n, a>> \in early => <<m, n, a>> \in early',
         mapAlerts'[m] = mapAlerts[m],
         h = Version => <<n, m>> \in nVersion',
         h # Version /\ <<n, m>> \in nVersion /\ IsInEffect(h)' => Covers(n, h)'
  PROVE  PairRight(m, n)'
<1> DEFINE w == wire[<<m, n>>]
           t == Tail(w)
<1>0. <<m, n>> \in Pair
  BY PairIs
<1>1. /\ w \in Seq({Version} \cup AlertIds) /\ w # <<>> /\ setKnown[<<m, n>>] \subseteq AlertIds
      /\ mapAlerts[m] \subseteq AlertIds
  BY <1>0 DEF AlertTypes
<1>2. /\ Len(t) = Len(w) - 1 /\ Len(w) \in Nat \ {0} /\ h = w[1]
      /\ \A i \in 1 .. Len(t) : t[i] = w[i + 1] /\ i + 1 \in 1 .. Len(w)
  BY <1>1
<1>3. wire'[<<m, n>>] = t
  OBVIOUS
<1>6. ASSUME NEW i \in 1 .. Len(w), i # 1 PROVE i - 1 \in 1 .. Len(t) /\ t[i - 1] = w[i]
  <2>1. i - 1 \in 1 .. Len(t)
    BY <1>2, <1>6
  <2>2. t[i - 1] = w[(i - 1) + 1]
    BY <1>2, <2>1
  <2> QED
    BY <2>1, <2>2
<1> HIDE DEF w, t
<1>7. NoLinkNoState(m, n)'
  BY <1>1 DEF PairRight, NoLinkNoState, Linked, w
<1>8. VersionRight(m, n)'
  <2>1. SUFFICES ASSUME VersionComes(m, n) PROVE VersionComes(m, n)'
    BY DEF PairRight, VersionRight
  <2>2. CASE <<n, m>> \in nVersion
    BY <2>2 DEF VersionComes
  <2>3. ASSUME NEW j \in 1 .. Len(w), w[j] = Version PROVE VersionComes(m, n)'
    <3>1. CASE j = 1
      BY <1>2, <2>3, <3>1 DEF VersionComes
    <3>2. CASE j # 1
      BY <1>3, <1>6, <2>3, <3>2 DEF VersionComes
    <3> QED
      BY <3>1, <3>2
  <2> QED
    BY <2>1, <2>2, <2>3 DEF VersionComes, w
<1>9. KnownRight(m, n)'
  BY <1>1 DEF PairRight, KnownRight, Lasting
<1>10. WireRight(m, n)'
  <2>1. ASSUME NEW i \in 1 .. Len(t), NEW a, a = t[i], a # Version, IsInEffect(a)' PROVE Covers(m, a)'
    <3>1. a = w[i + 1] /\ i + 1 \in 1 .. Len(w)
      BY <1>2, <2>1
    <3>2. a \in AlertIds
      BY <1>1, <2>1, <3>1
    <3>3. IsInEffect(a)
      BY <2>1, <3>2 DEF Lasting
    <3>4. Covers(m, a)
      BY <2>1, <3>1, <3>3 DEF PairRight, WireRight, w
    <3> QED
      BY <2>1, <3>2, <3>4 DEF Lasting
  <2> QED
    BY <1>3, <2>1 DEF WireRight
<1>11. HandedOn(m, n)'
  <2>1. ASSUME NEW a \in setKnown[<<m, n>>], IsInEffect(a)', <<m, n, a>> \notin early'
        PROVE  Covers(n, a)' \/ OnTheWay(m, n, a)'
    <3>1. a \in AlertIds /\ IsInEffect(a) /\ <<m, n, a>> \notin early
      BY <1>1, <2>1 DEF Lasting
    <3>2. CASE Covers(n, a)
      BY <2>1, <3>1, <3>2 DEF Lasting
    <3>3. CASE OnTheWay(m, n, a)
      <4>1. PICK i \in 1 .. Len(w) : w[i] = a /\ (<<n, m>> \in nVersion \/ \E j \in 1 .. i - 1 : w[j] = Version)
        BY <3>3 DEF OnTheWay, w
      <4>2. a # Version
        BY <3>1 DEF AlertIds, Version
      <4>3. CASE i = 1
        <5>1. a = h /\ <<n, m>> \in nVersion
          BY <1>2, <4>1, <4>3
        <5> QED
          BY <2>1, <4>2, <5>1
      <4>4. CASE i # 1
        <5>1. i - 1 \in 1 .. Len(t) /\ t[i - 1] = a
          BY <1>6, <4>1, <4>4
        <5>2. CASE <<n, m>> \in nVersion'
          BY <1>3, <5>1, <5>2 DEF OnTheWay
        <5>3. CASE <<n, m>> \notin nVersion'
          <6>1. PICK j \in 1 .. i - 1 : w[j] = Version
            BY <4>1, <5>3
          <6>2. j # 1
            BY <1>2, <5>3, <6>1
          <6>3. j \in 1 .. Len(w)
            BY <1>2, <6>1
          <6>4. j - 1 \in 1 .. (i - 1) - 1 /\ t[j - 1] = Version
            BY <1>2, <1>6, <6>1, <6>2, <6>3
          <6> QED
            BY <1>3, <5>1, <6>4 DEF OnTheWay
        <5> QED
          BY <5>2, <5>3
      <4> QED
        BY <4>3, <4>4
    <3> QED
      BY <3>1, <3>2, <3>3 DEF PairRight, HandedOn
  <2> QED
    BY <2>1 DEF HandedOn
<1>12. AllIsKnown(m, n)'
  BY <1>1 DEF PairRight, AllIsKnown, Lasting
<1> QED
  BY <1>7, <1>8, <1>9, <1>10, <1>11, <1>12 DEF PairRight

\* A pair nothing happens to.
LEMMA PairStays ==
  ASSUME AlertTypes, Lasting, NEW m \in Host, NEW n \in Host, m # n, PairRight(m, n),
         wire'[<<m, n>>] = wire[<<m, n>>], setKnown'[<<m, n>>] = setKnown[<<m, n>>],
         <<m, n>> \in links' <=> <<m, n>> \in links, <<n, m>> \in links' <=> <<n, m>> \in links,
         <<n, m>> \in nVersion' <=> <<n, m>> \in nVersion,
         <<m, n>> \in nVersion' <=> <<m, n>> \in nVersion,
         \A a \in AlertIds : <<m, n, a>> \in early => <<m, n, a>> \in early',
         \A a \in mapAlerts'[m] : IsInEffect(a)' /\ <<m, n>> \in nVersion =>
            (a \in mapAlerts[m] /\ a \in AlertIds) \/ a \in setKnown[<<m, n>>]
  PROVE  PairRight(m, n)'
<1>1. wire[<<m, n>>] \in Seq({Version} \cup AlertIds)
  BY PairIs DEF AlertTypes
<1>2. wire[<<m, n>>] \o <<>> = wire[<<m, n>>] /\ <<>> \in Seq({Version} \cup Nat)
  BY <1>1
<1>3. setKnown[<<m, n>>] \cup {} = setKnown[<<m, n>>] /\ Len(<<>>) = 0
  OBVIOUS
<1>4. \A a \in mapAlerts'[m] : IsInEffect(a)' /\ <<m, n>> \in nVersion => a \in setKnown[<<m, n>>]
  BY DEF PairRight, AllIsKnown, Lasting
<1> DEFINE X == {}
           s == <<>>
<1>5. /\ wire'[<<m, n>>] = wire[<<m, n>>] \o s /\ setKnown'[<<m, n>>] = setKnown[<<m, n>>] \cup X
      /\ s \in Seq({Version} \cup Nat) /\ 1 .. Len(s) = {} /\ X = {} /\ s = <<>>
  BY <1>2, <1>3
<1> HIDE DEF X, s
<1> QED
  BY <1>4, <1>5, PairGrows

-----------------------------------------------------------------------------
\* Where no alert is issued or processed and no time passes.
LEMMA SameKnowledge ==
  ASSUME AlertTypes, IssuedRight, AlertsAreCurrent, UNCHANGED <<issued, mapAlerts, alertTime>>
  PROVE  Lasting /\ IssuedRight' /\ AlertsAreCurrent' /\ AlertIds' = AlertIds
<1>1. AlertIds' = AlertIds
  BY DEF AlertIds
<1>2. \A a, b : (IsInEffect(a)' <=> IsInEffect(a)) /\ (Cancels(a, b)' <=> Cancels(a, b))
  BY DEF IsInEffect, Cancels
<1>3. \A n, a : Covers(n, a)' <=> Covers(n, a)
  BY <1>2 DEF Covers
<1>4. IssuedRight'
  BY <1>1 DEF IssuedRight
<1>5. AlertsAreCurrent'
  BY <1>2 DEF AlertsAreCurrent
<1> QED
  BY <1>1, <1>2, <1>3, <1>4, <1>5 DEF Lasting

LEMMA AlertTickKeeps == AlertsInv /\ AlertTick => AlertsInv'
<1> SUFFICES ASSUME AlertsInv, AlertTick PROVE AlertsInv'
  OBVIOUS
<1> USE DEF AlertsInv
<1>1. AlertIds' = AlertIds /\ alertTime \in Nat /\ alertTime' = alertTime + 1 /\ issued' = issued
  BY DEF AlertTick, AlertTypes, AlertIds
<1>2. AlertTypes'
  BY <1>1 DEF AlertTick, AlertTypes
<1>3. IssuedRight'
  <2>1. ASSUME NEW a \in AlertIds PROVE issued[a].expires <= alertTime' + Lifetime
    BY <1>1, <2>1, IssuedIs, AlertAssumption DEF IssuedRight
  <2> QED
    BY <1>1, <2>1 DEF IssuedRight
<1>4. \A a \in AlertIds : IsInEffect(a)' => IsInEffect(a)
  BY <1>1, IssuedIs DEF IsInEffect
<1>5. ASSUME NEW a \in AlertIds, NEW b \in AlertIds, IsInEffect(a)', Cancels(b, a)
      PROVE  Cancels(b, a)'
  <2>1. issued[b].cancel \in Nat /\ issued[a].expires \in Nat /\ issued[b].expires \in Nat
    BY IssuedIs
  <2>2. a <= issued[b].cancel
    BY <1>5 DEF Cancels
  <2>3. a \in 1 .. b
    BY <2>1, <2>2 DEF IssuedRight, AlertIds
  <2>4. issued[a].expires <= issued[b].expires
    BY <2>3 DEF IssuedRight
  <2>5. IsInEffect(b)'
    BY <1>1, <1>5, <2>1, <2>4 DEF IsInEffect
  <2> QED
    BY <1>1, <2>2, <2>5 DEF Cancels
<1>6. \A n \in Host : mapAlerts'[n] = mapAlerts[n] /\ mapAlerts[n] \subseteq AlertIds
  BY DEF AlertTick, AlertTypes
<1>7. Lasting
  <2>1. ASSUME NEW n \in Host, NEW a \in AlertIds, IsInEffect(a)', Covers(n, a) PROVE Covers(n, a)'
    BY <1>5, <1>6, <2>1 DEF Covers
  <2> QED
    BY <1>4, <2>1 DEF Lasting
<1>8. AlertsAreCurrent'
  <2>1. ASSUME NEW a \in AlertIds, NEW b, Cancels(a, b)' PROVE Cancels(a, b)
    BY <1>1, <1>4, <2>1 DEF Cancels
  <2> QED
    BY <1>4, <1>6, <2>1 DEF AlertsAreCurrent
<1>9. ASSUME NEW p \in Pair PROVE PairRight(p[1], p[2])'
  <2>1. p[1] \in Host /\ p[2] \in Host /\ p[1] # p[2]
    BY PairIs
  <2> QED
    BY <1>6, <1>7, <2>1, PairStays DEF AlertTick
<1> QED
  BY <1>2, <1>3, <1>8, <1>9

-----------------------------------------------------------------------------
LEMMA LinkKeeps ==
  ASSUME AlertsInv, NEW m \in Host, NEW n \in Host, m # n, Connect(m, n)
  PROVE  AlertsInv'
<1> USE DEF AlertsInv
<1>1. Lasting /\ IssuedRight' /\ AlertsAreCurrent' /\ AlertIds' = AlertIds
  BY SameKnowledge DEF Connect
<1>2. /\ <<m, n>> \in Pair /\ <<n, m>> \in Pair /\ <<m, n>> # <<n, m>>
      /\ PairRight(m, n) /\ PairRight(n, m)
  BY PairIs
<1>3. /\ wire'[<<m, n>>] = <<Version>> /\ \A p \in Pair : p # <<m, n>> => wire'[p] = wire[p]
      /\ wire' \in [Pair -> Seq({Version} \cup AlertIds)]
  <2>1. <<Version>> \in Seq({Version} \cup AlertIds)
    OBVIOUS
  <2> QED
    BY <1>2, <2>1 DEF Connect, AlertTypes
<1>4. AlertTypes'
  BY <1>1, <1>2, <1>3 DEF Connect, AlertTypes
<1>5. /\ wire[<<n, m>>] = <<>> /\ setKnown[<<m, n>>] = {} /\ setKnown[<<n, m>>] = {}
      /\ <<m, n>> \notin nVersion /\ <<n, m>> \notin nVersion
      /\ <<m, n>> \notin links /\ <<n, m>> \notin links
      /\ links' = links \cup {<<m, n>>} /\ setKnown' = setKnown /\ nVersion' = nVersion
  BY <1>2 DEF Connect, PairRight, NoLinkNoState, Linked
<1>6. PairRight(m, n)'
  <2>1. Len(<<Version>>) = 1 /\ <<Version>>[1] = Version /\ 1 \in 1 .. 1
    OBVIOUS
  <2>2. VersionComes(m, n)'
    BY <1>3, <2>1 DEF VersionComes
  <2>3. NoLinkNoState(m, n)' /\ VersionRight(m, n)'
    BY <1>2, <1>5, <2>2 DEF NoLinkNoState, VersionRight, Linked
  <2>4. WireRight(m, n)'
    BY <1>3, <2>1 DEF WireRight
  <2>5. KnownRight(m, n)' /\ HandedOn(m, n)' /\ AllIsKnown(m, n)'
    BY <1>5 DEF KnownRight, HandedOn, AllIsKnown
  <2> QED
    BY <2>3, <2>4, <2>5 DEF PairRight
<1>7. PairRight(n, m)'
  <2>1. Len(<<>>) = 0 /\ wire'[<<n, m>>] = <<>>
    BY <1>2, <1>3, <1>5
  <2>2. NoLinkNoState(n, m)' /\ VersionRight(n, m)'
    BY <1>2, <1>5, <2>1 DEF NoLinkNoState, VersionRight, Linked
  <2>3. WireRight(n, m)'
    BY <2>1 DEF WireRight
  <2>4. KnownRight(n, m)' /\ HandedOn(n, m)' /\ AllIsKnown(n, m)'
    BY <1>5 DEF KnownRight, HandedOn, AllIsKnown
  <2> QED
    BY <2>2, <2>3, <2>4 DEF PairRight
<1>8. ASSUME NEW p \in Pair PROVE PairRight(p[1], p[2])'
  <2>1. /\ p = <<p[1], p[2]>> /\ p[1] \in Host /\ p[2] \in Host /\ p[1] # p[2]
        /\ <<p[2], p[1]>> \in Pair
    BY PairIs
  <2>2. CASE p = <<m, n>> \/ p = <<n, m>>
    BY <1>6, <1>7, <2>2
  <2>3. CASE p # <<m, n>> /\ p # <<n, m>>
    <3>1. <<p[2], p[1]>> # <<m, n>>
      BY <2>1, <2>3
    <3>2. mapAlerts[p[1]] \subseteq AlertIds /\ mapAlerts' = mapAlerts /\ early' = early
      BY <2>1 DEF AlertTypes, Connect
    <3>3. /\ wire'[<<p[1], p[2]>>] = wire[<<p[1], p[2]>>]
          /\ <<p[1], p[2]>> \in links' <=> <<p[1], p[2]>> \in links
          /\ <<p[2], p[1]>> \in links' <=> <<p[2], p[1]>> \in links
      BY <1>3, <1>5, <2>1, <2>3, <3>1
    <3> QED
      BY <1>1, <1>5, <2>1, <3>2, <3>3, PairStays
  <2> QED
    BY <2>2, <2>3
<1> QED
  BY <1>1, <1>4, <1>8

LEMMA UnlinkKeeps ==
  ASSUME AlertsInv, NEW m \in Host, NEW n \in Host, m # n, Disconnect(m, n)
  PROVE  AlertsInv'
<1> USE DEF AlertsInv
<1>1. Lasting /\ IssuedRight' /\ AlertsAreCurrent' /\ AlertIds' = AlertIds
  BY SameKnowledge DEF Disconnect
<1>2. /\ <<m, n>> \in Pair /\ <<n, m>> \in Pair /\ <<m, n>> # <<n, m>>
      /\ PairRight(m, n) /\ PairRight(n, m)
  BY PairIs
<1>3. /\ wire'[<<m, n>>] = <<>> /\ wire'[<<n, m>>] = <<>>
      /\ setKnown'[<<m, n>>] = {} /\ setKnown'[<<n, m>>] = {}
      /\ \A p \in Pair \ {<<m, n>>, <<n, m>>} : wire'[p] = wire[p] /\ setKnown'[p] = setKnown[p]
      /\ wire' \in [Pair -> Seq({Version} \cup AlertIds)] /\ setKnown' \in [Pair -> SUBSET AlertIds]
  <2>1. <<>> \in Seq({Version} \cup AlertIds)
    OBVIOUS
  <2> QED
    BY <1>2, <2>1 DEF Disconnect, AlertTypes
<1>4. AlertTypes'
  BY <1>1, <1>3 DEF Disconnect, AlertTypes
<1>5. /\ links' = links \ {<<m, n>>} /\ nVersion' = nVersion \ {<<m, n>>, <<n, m>>}
      /\ <<n, m>> \notin links
  BY <1>2 DEF Disconnect, PairRight, NoLinkNoState
<1>6. ASSUME NEW x, NEW y, <<x, y>> \in {<<m, n>>, <<n, m>>} PROVE PairRight(x, y)'
  <2>1. /\ Len(<<>>) = 0 /\ wire'[<<x, y>>] = <<>> /\ setKnown'[<<x, y>>] = {}
        /\ <<x, y>> \notin links' /\ <<x, y>> \notin nVersion'
    BY <1>3, <1>5, <1>6
  <2>2. NoLinkNoState(x, y)' /\ VersionRight(x, y)'
    BY <2>1 DEF NoLinkNoState, VersionRight
  <2>3. WireRight(x, y)'
    BY <2>1 DEF WireRight
  <2>4. KnownRight(x, y)' /\ HandedOn(x, y)' /\ AllIsKnown(x, y)'
    BY <2>1 DEF KnownRight, HandedOn, AllIsKnown
  <2> QED
    BY <2>2, <2>3, <2>4 DEF PairRight
<1>7. ASSUME NEW p \in Pair PROVE PairRight(p[1], p[2])'
  <2>1. p = <<p[1], p[2]>> /\ p[1] \in Host /\ p[2] \in Host /\ p[1] # p[2]
    BY PairIs
  <2>2. CASE p \in {<<m, n>>, <<n, m>>}
    BY <1>6, <2>1, <2>2
  <2>3. CASE p \notin {<<m, n>>, <<n, m>>}
    <3>1. <<p[2], p[1]>> \notin {<<m, n>>, <<n, m>>} /\ {p[1], p[2]} # {m, n}
      BY <2>1, <2>3
    <3>2. mapAlerts[p[1]] \subseteq AlertIds /\ mapAlerts' = mapAlerts
      BY <2>1 DEF AlertTypes, Disconnect
    <3>3. \A a \in AlertIds : <<p[1], p[2], a>> \in early => <<p[1], p[2], a>> \in early'
      BY <3>1 DEF Disconnect
    <3>4. wire'[<<p[1], p[2]>>] = wire[<<p[1], p[2]>>] /\ setKnown'[<<p[1], p[2]>>] = setKnown[<<p[1], p[2]>>]
      BY <1>3, <2>1, <2>3
    <3>5. /\ <<p[1], p[2]>> \in links' <=> <<p[1], p[2]>> \in links
          /\ <<p[2], p[1]>> \in links' <=> <<p[2], p[1]>> \in links
          /\ <<p[1], p[2]>> \in nVersion' <=> <<p[1], p[2]>> \in nVersion
          /\ <<p[2], p[1]>> \in nVersion' <=> <<p[2], p[1]>> \in nVersion
      BY <1>5, <2>1, <2>3, <3>1
    <3> QED
      BY <1>1, <2>1, <3>2, <3>3, <3>4, <3>5, PairStays
  <2> QED
    BY <2>2, <2>3
<1> QED
  BY <1>1, <1>4, <1>7

-----------------------------------------------------------------------------
\* RelayTo sends a, which n covers now, to one peer and marks it known there.
LEMMA RelayPair ==
  ASSUME AlertTypes, Lasting, NEW n \in Host, NEW m \in Host, n # m, PairRight(n, m),
         NEW a \in Nat, a # Version, UNCHANGED <<links, nVersion>>,
         IsInEffect(a)' => Covers(n, a)',
         mapAlerts'[n] \subseteq AlertIds \cup {a},
         \A x \in mapAlerts'[n] : x = a \/ x \in mapAlerts[n],
         NEW known, NEW w, known[<<n, m>>] = setKnown[<<n, m>>], w[<<n, m>>] = wire[<<n, m>>],
         Relay(n, a, known, w)
  PROVE  PairRight(n, m)'
<1>1. <<n, m>> \in Pair
  BY PairIs
<1>2. wire[<<n, m>>] \in Seq({Version} \cup AlertIds)
  BY <1>1 DEF AlertTypes
<1> DEFINE to == {h \in Peers(n) : a \notin known[<<n, h>>]}
           tooEarly == <<m, n>> \in links /\ <<n, m>> \notin nVersion
<1>3. /\ setKnown'[<<n, m>>] = IF m \in to THEN setKnown[<<n, m>>] \cup {a} ELSE setKnown[<<n, m>>]
      /\ wire'[<<n, m>>] = IF m \in to THEN Append(wire[<<n, m>>], a) ELSE wire[<<n, m>>]
  BY <1>1 DEF Relay
<1>4. early \subseteq early' /\ (m \in to /\ tooEarly => <<n, m, a>> \in early')
  BY DEF Relay
<1>5. m \in to => Linked(n, m)
  BY DEF Peers, Linked
<1>6. m \notin to => ~Linked(n, m) \/ a \in setKnown[<<n, m>>]
  BY DEF Peers, Linked
<1> HIDE DEF to
<1>7. CASE m \in to
  <2> DEFINE X == {a}
             s == <<a>>
  <2>1. s \in Seq({Version} \cup Nat) /\ Len(s) = 1 /\ s[1] = a /\ 1 .. Len(s) = {1}
    OBVIOUS
  <2>2. wire'[<<n, m>>] = wire[<<n, m>>] \o s
    <3> DEFINE S == {Version} \cup AlertIds \cup {a}
    <3>1. Seq({Version} \cup AlertIds) \subseteq Seq(S)
      OBVIOUS
    <3>2. wire[<<n, m>>] \in Seq(S) /\ a \in S
      BY <1>2, <3>1
    <3> HIDE DEF S
    <3>3. Append(wire[<<n, m>>], a) = wire[<<n, m>>] \o <<a>>
      BY <3>2, AppendIsConcat
    <3> QED
      BY <1>3, <1>7, <3>3
  <2>3. setKnown'[<<n, m>>] = setKnown[<<n, m>>] \cup X
    BY <1>3, <1>7
  <2>5. \A i \in 1 .. Len(s) : s[i] # Version /\ IsInEffect(s[i])' => Covers(n, s[i])'
    BY <2>1
  <2>4. tooEarly \/ VersionComes(n, m)
    BY <1>5, <1>7 DEF PairRight, VersionRight, Linked
  <2>6. ASSUME NEW x \in X, IsInEffect(x)'
        PROVE  /\ Covers(n, x)'
               /\ \/ <<n, m, x>> \in early'
                  \/ Covers(m, x)'
                  \/ \E i \in 1 .. Len(s) :
                       /\ s[i] = x
                       /\ VersionComes(n, m) \/ \E j \in 1 .. i - 1 : s[j] = Version
    <3>1. x = a
      OBVIOUS
    <3> HIDE DEF s, tooEarly
    <3> QED
      BY <1>4, <1>7, <2>1, <2>4, <2>6, <3>1
  <2>7. <<n, m>> \in nVersion' =>
            /\ <<n, m>> \in nVersion \/ (Linked(n, m) /\ (VersionComes(n, m) \/ \E j \in 1 .. Len(s) : s[j] = Version))
            /\ \A x \in mapAlerts'[n] : IsInEffect(x)' => x \in setKnown'[<<n, m>>]
    <3>1. ASSUME <<n, m>> \in nVersion, NEW x \in mapAlerts'[n], IsInEffect(x)', x # a
          PROVE  x \in setKnown[<<n, m>>]
      <4>1. x \in AlertIds /\ x \in mapAlerts[n]
        BY <3>1
      <4> QED
        BY <3>1, <4>1 DEF Lasting, PairRight, AllIsKnown
    <3> QED
      BY <2>3, <3>1
  <2>8. /\ Linked(n, m) \/ (X = {} /\ s = <<>>)
        /\ \A x \in AlertIds : <<n, m, x>> \in early => <<n, m, x>> \in early'
        /\ <<n, m>> \in nVersion => <<n, m>> \in nVersion'
    BY <1>4, <1>5, <1>7
  <2> HIDE DEF s, X
  <2> QED
    BY <2>1, <2>2, <2>3, <2>5, <2>6, <2>7, <2>8, PairGrows
<1>8. CASE m \notin to
  <2>1. wire'[<<n, m>>] = wire[<<n, m>>] /\ setKnown'[<<n, m>>] = setKnown[<<n, m>>]
    BY <1>3, <1>8
  <2>2. <<n, m>> \in nVersion => Linked(n, m)
    BY DEF PairRight, NoLinkNoState
  <2>3. \A x \in mapAlerts'[n] : IsInEffect(x)' /\ <<n, m>> \in nVersion =>
            (x \in mapAlerts[n] /\ x \in AlertIds) \/ x \in setKnown[<<n, m>>]
    BY <1>6, <1>8, <2>2
  <2> QED
    BY <1>4, <2>1, <2>3, PairStays
<1> QED
  BY <1>7, <1>8

\* What RelayTo of n leaves alone, and the types of what it does not.
LEMMA RelayIs ==
  ASSUME NEW n \in Host, NEW a, NEW A, a \in A, NEW known \in [Pair -> SUBSET A],
         NEW w \in [Pair -> Seq({Version} \cup A)], Relay(n, a, known, w)
  PROVE  /\ setKnown' \in [Pair -> SUBSET A] /\ wire' \in [Pair -> Seq({Version} \cup A)]
         /\ \A p \in Pair : p[1] # n \/ a \in known[p] => setKnown'[p] = known[p] /\ wire'[p] = w[p]
         /\ early \subseteq early'
<1>1. \A p \in Pair : Append(w[p], a) \in Seq({Version} \cup A)
  OBVIOUS
<1>2. \A p \in Pair : known[p] \cup {a} \in SUBSET A
  OBVIOUS
<1>3. setKnown' \in [Pair -> SUBSET A] /\ wire' \in [Pair -> Seq({Version} \cup A)]
  BY <1>1, <1>2 DEF Relay
<1>4. ASSUME NEW p \in Pair, p[1] # n \/ a \in known[p] PROVE setKnown'[p] = known[p] /\ wire'[p] = w[p]
  <2>1. ~(p[1] = n /\ a \notin known[<<n, p[2]>>])
    BY <1>4, PairIs
  <2> QED
    BY <2>1 DEF Relay
<1> QED
  BY <1>3, <1>4 DEF Relay

LEMMA SendKeeps ==
  ASSUME AlertsInv, NEW n \in Host, SendAlert(n)
  PROVE  AlertsInv'
<1> USE DEF AlertsInv
<1>0. PICK a : a = Len(issued) + 1
  OBVIOUS
<1>1. PICK cancel \in 0 .. Len(issued) :
        issued' = Append(issued, [cancel |-> cancel, expires |-> alertTime + Lifetime])
  BY DEF SendAlert
<1>2. /\ Len(issued) \in Nat /\ Len(issued') = a /\ a <= MaxAlerts
      /\ issued \in Seq([cancel : Nat, expires : Nat]) /\ alertTime \in Nat /\ Lifetime \in Nat
      /\ alertTime' = alertTime
  BY <1>0, <1>1, AlertAssumption DEF AlertTypes, SendAlert
<1>3. /\ AlertIds' = AlertIds \cup {a} /\ a \in Nat \ {0} /\ a \notin AlertIds
      /\ \A x \in AlertIds : x < a /\ x \in Nat
  BY <1>0, <1>2 DEF AlertIds
<1>4. /\ \A x \in AlertIds : issued'[x] = issued[x]
      /\ issued'[a] = [cancel |-> cancel, expires |-> alertTime + Lifetime]
  BY <1>0, <1>1, <1>2 DEF AlertIds
<1>5. /\ mapAlerts' = [mapAlerts EXCEPT ![n] = {b \in @ : b > cancel /\ IsInEffect(b)} \cup {a}]
      /\ Relay(n, a, setKnown, wire)
      /\ links' = links /\ nVersion' = nVersion
  <2>1. Len(issued') = a /\ issued'[a].cancel = cancel
    BY <1>2, <1>4
  <2>2. /\ mapAlerts' = [mapAlerts EXCEPT ![n] =
             {b \in @ : b > issued'[a].cancel /\ IsInEffect(b)} \cup {a}]
        /\ Relay(n, a, setKnown, wire)
        /\ links' = links /\ nVersion' = nVersion
    BY <2>1 DEF SendAlert
  <2> QED
    BY <2>1, <2>2
<1>6. /\ mapAlerts'[n] = {b \in mapAlerts[n] : b > cancel /\ IsInEffect(b)} \cup {a}
      /\ \A h \in Host : h # n => mapAlerts'[h] = mapAlerts[h]
      /\ \A h \in Host : mapAlerts[h] \subseteq AlertIds
      /\ mapAlerts' \in [Host -> SUBSET AlertIds']
  <2>1. mapAlerts \in [Host -> SUBSET AlertIds]
    BY DEF AlertTypes
  <2>2. {b \in mapAlerts[n] : b > cancel /\ IsInEffect(b)} \cup {a} \subseteq AlertIds'
    BY <1>3, <2>1
  <2>3. SUBSET AlertIds \subseteq SUBSET AlertIds'
    BY <1>3
  <2>4. mapAlerts'[n] = {b \in mapAlerts[n] : b > cancel /\ IsInEffect(b)} \cup {a}
    BY <1>5, <2>1
  <2>5. \A h \in Host : h # n => mapAlerts'[h] = mapAlerts[h]
    BY <1>5, <2>1
  <2>6. DOMAIN mapAlerts' = Host /\ mapAlerts' = [h \in Host |-> mapAlerts'[h]]
    BY <1>5, <2>1
  <2>7. \A h \in Host : mapAlerts[h] \subseteq AlertIds /\ mapAlerts'[h] \in SUBSET AlertIds'
    BY <2>1, <2>2, <2>3, <2>4, <2>5
  <2>8. mapAlerts' \in [Host -> SUBSET AlertIds']
    BY <2>6, <2>7
  <2>9. \A h \in Host : mapAlerts[h] \subseteq AlertIds
    BY <2>7
  <2> QED
    BY <2>4, <2>5, <2>8, <2>9, Zenon
<1>7. /\ setKnown' \in [Pair -> SUBSET AlertIds'] /\ wire' \in [Pair -> Seq({Version} \cup AlertIds')]
      /\ \A p \in Pair : p[1] # n => setKnown'[p] = setKnown[p] /\ wire'[p] = wire[p]
      /\ early \subseteq early'
  <2> DEFINE A == AlertIds \cup {a}
  <2>1. setKnown \in [Pair -> SUBSET A] /\ a \in A
    BY DEF AlertTypes
  <2>2. wire \in [Pair -> Seq({Version} \cup A)]
    <3>1. {Version} \cup AlertIds \subseteq {Version} \cup A
      OBVIOUS
    <3>2. Seq({Version} \cup AlertIds) \subseteq Seq({Version} \cup A)
      BY <3>1
    <3> QED
      BY <3>2 DEF AlertTypes
  <2>3. A = AlertIds'
    BY <1>3
  <2> HIDE DEF A
  <2>4. /\ setKnown' \in [Pair -> SUBSET A] /\ wire' \in [Pair -> Seq({Version} \cup A)]
        /\ \A p \in Pair : p[1] # n \/ a \in setKnown[p] => setKnown'[p] = setKnown[p] /\ wire'[p] = wire[p]
        /\ early \subseteq early'
    BY <1>5, <2>1, <2>2, RelayIs
  <2> QED
    BY <2>3, <2>4
<1>8. AlertTypes'
  <2>1. [cancel |-> cancel, expires |-> alertTime + Lifetime] \in [cancel : Nat, expires : Nat]
    BY <1>2
  <2>2. issued' \in Seq([cancel : Nat, expires : Nat])
    BY <1>1, <1>2, <2>1
  <2> QED
    BY <1>2, <1>5, <1>6, <1>7, <2>2 DEF AlertTypes
<1>9. IssuedRight'
  <2>1. ASSUME NEW x \in AlertIds' PROVE issued'[x].cancel < x /\ issued'[x].expires <= alertTime + Lifetime
    BY <1>0, <1>2, <1>3, <1>4, <2>1 DEF IssuedRight
  <2>2. ASSUME NEW x \in AlertIds', NEW y \in 1 .. x PROVE issued'[y].expires <= issued'[x].expires
    <3>1. y \in AlertIds' /\ (x \in AlertIds => y \in AlertIds)
      BY <1>2, <1>3 DEF AlertIds
    <3>2. CASE x \in AlertIds
      BY <1>4, <3>1, <3>2 DEF IssuedRight
    <3>3. CASE x = a
      <4>1. issued'[x].expires = alertTime + Lifetime
        BY <1>4, <3>3
      <4> QED
        BY <2>1, <3>1, <4>1
    <3> QED
      BY <1>3, <3>2, <3>3
  <2> QED
    BY <1>2, <2>1, <2>2 DEF IssuedRight
<1>10. \A x \in AlertIds : IsInEffect(x)' <=> IsInEffect(x)
  BY <1>2, <1>4 DEF IsInEffect
<1>11. \A x \in AlertIds : \A y : Cancels(x, y)' <=> Cancels(x, y)
  BY <1>4, <1>10 DEF Cancels
<1>12. Lasting
  <2>1. ASSUME NEW h \in Host, NEW x \in AlertIds, IsInEffect(x)', Covers(h, x) PROVE Covers(h, x)'
    <3>1. PICK b \in mapAlerts[h] : b = x \/ Cancels(b, x)
      BY <2>1 DEF Covers
    <3>2. b \in AlertIds /\ IsInEffect(b)
      BY <1>6, <1>10, <2>1, <3>1 DEF Cancels
    <3>3. CASE b \in mapAlerts'[h]
      BY <1>11, <3>1, <3>2, <3>3 DEF Covers
    <3>4. CASE b \notin mapAlerts'[h]
      <4>1. h = n /\ b <= cancel
        BY <1>2, <1>3, <1>6, <3>2, <3>4
      <4>2. issued[b].expires \in Nat /\ issued[b].cancel \in Nat /\ issued[b].cancel < b
            /\ issued[b].expires <= alertTime + Lifetime
        BY <3>2, IssuedIs DEF IssuedRight
      <4>6. issued'[a].expires = alertTime + Lifetime /\ issued'[a].cancel = cancel
        BY <1>4
      <4>3. IsInEffect(a)'
        BY <1>2, <3>2, <4>2, <4>6 DEF IsInEffect
      <4>4. x <= cancel
        BY <1>2, <1>3, <3>1, <3>2, <4>1, <4>2 DEF Cancels
      <4>5. Cancels(a, x)' /\ a \in mapAlerts'[h]
        BY <1>6, <4>1, <4>3, <4>4, <4>6 DEF Cancels
      <4> QED
        BY <4>5 DEF Covers
    <3> QED
      BY <3>3, <3>4
  <2> QED
    BY <1>10, <2>1 DEF Lasting
<1>13. AlertsAreCurrent'
  <2>1. ASSUME NEW h \in Host, NEW x \in mapAlerts'[h], NEW y \in mapAlerts'[h], x # y, IsInEffect(y)'
        PROVE  ~Cancels(x, y)'
    <3>1. CASE x \in mapAlerts[h] /\ y \in mapAlerts[h]
      <4>1. x \in AlertIds /\ y \in AlertIds
        BY <1>6, <3>1
      <4> QED
        BY <1>10, <1>11, <2>1, <3>1, <4>1 DEF AlertsAreCurrent
    <3>2. CASE ~(x \in mapAlerts[h] /\ y \in mapAlerts[h])
      <4>1. h = n /\ (x = a \/ y = a)
        BY <1>6, <2>1, <3>2
      <4>2. CASE x = a
        <5>1. y \in AlertIds /\ y > cancel
          BY <1>6, <2>1, <4>1, <4>2
        <5> QED
          BY <1>2, <1>3, <1>4, <4>2, <5>1 DEF Cancels
      <4>3. CASE y = a
        <5>1. x \in AlertIds
          BY <1>6, <2>1, <4>1, <4>3
        <5>2. issued[x].cancel \in Nat /\ issued[x].cancel < x /\ x < a
          BY <1>3, <5>1, IssuedIs DEF IssuedRight
        <5>3. ~(a <= issued'[x].cancel)
          BY <1>3, <1>4, <5>1, <5>2
        <5> QED
          BY <4>3, <5>3 DEF Cancels
      <4> QED
        BY <4>1, <4>2, <4>3
    <3> QED
      BY <3>1, <3>2
  <2> QED
    BY <2>1 DEF AlertsAreCurrent
<1>14. ASSUME NEW p \in Pair PROVE PairRight(p[1], p[2])'
  <2>1. p = <<p[1], p[2]>> /\ p[1] \in Host /\ p[2] \in Host /\ p[1] # p[2]
    BY PairIs
  <2>2. CASE p[1] = n
    <3>1. a # Version /\ a \in Nat
      BY <1>3 DEF Version
    <3>5. Covers(n, a)'
      BY <1>6 DEF Covers
    <3>2. mapAlerts'[n] \subseteq AlertIds \cup {a} /\ \A x \in mapAlerts'[n] : x = a \/ x \in mapAlerts[n]
      BY <1>6
    <3>3. PairRight(n, p[2])
      BY <2>1, <2>2
    <3>4. PairRight(n, p[2])'
      BY <1>5, <1>12, <2>1, <2>2, <3>1, <3>2, <3>3, <3>5, RelayPair
    <3> QED
      BY <2>2, <3>4
  <2>3. CASE p[1] # n
    <3>1. wire'[<<p[1], p[2]>>] = wire[<<p[1], p[2]>>] /\ setKnown'[<<p[1], p[2]>>] = setKnown[<<p[1], p[2]>>]
      BY <1>7, <2>1, <2>3
    <3>2. mapAlerts'[p[1]] = mapAlerts[p[1]] /\ mapAlerts[p[1]] \subseteq AlertIds
      BY <1>6, <2>1, <2>3
    <3> QED
      BY <1>5, <1>7, <1>12, <2>1, <3>1, <3>2, PairStays
  <2> QED
    BY <2>2, <2>3
<1> QED
  BY <1>8, <1>9, <1>13, <1>14

-----------------------------------------------------------------------------
\* A loop over a finite set of alerts meets each of them.
LEMMA OrdersAre ==
  ASSUME AlertTypes, NEW S, S \subseteq AlertIds, NEW order \in Orders(S)
  PROVE  /\ order \in Seq(S)
         /\ \A i \in 1 .. Len(order) : order[i] \in S
         /\ \A a \in S : \E i \in 1 .. Len(order) : order[i] = a
<1>1. AlertIds = 1 .. Len(issued) /\ Len(issued) \in Nat
  BY DEF AlertTypes, AlertIds
<1>2. IsFiniteSet(1 .. Len(issued))
  BY <1>1, FS_Interval
<1>3. IsFiniteSet(S)
  BY <1>1, <1>2, FS_Subset
<1>4. Cardinality(S) \in Nat
  BY <1>3, FS_CardinalityType
<1>5. order \in [1 .. Cardinality(S) -> S] /\ {order[i] : i \in DOMAIN order} = S
  BY DEF Orders
<1>6. order \in Seq(S) /\ Len(order) = Cardinality(S) /\ DOMAIN order = 1 .. Len(order)
  BY <1>4, <1>5
<1> QED
  BY <1>5, <1>6

LEMMA VersionKeeps ==
  ASSUME AlertsInv, NEW m \in Host, NEW n \in Host, m # n, wire[<<m, n>>] # <<>>,
         Head(wire[<<m, n>>]) = Version, OnVersion(m, n)
  PROVE  AlertsInv'
<1> USE DEF AlertsInv
<1>1. Lasting /\ IssuedRight' /\ AlertsAreCurrent' /\ AlertIds' = AlertIds
  BY SameKnowledge DEF OnVersion
<1>2. /\ <<m, n>> \in Pair /\ <<n, m>> \in Pair /\ <<m, n>> # <<n, m>>
      /\ PairRight(m, n) /\ PairRight(n, m)
  BY PairIs
<1> DEFINE W == {Version} \cup AlertIds
<1>0. PICK S : S = IF <<m, n>> \in links THEN <<Version>> ELSE <<>>
  OBVIOUS
<1>3. PICK todo \in Orders(Pushed(n, m)) :
        wire' = [wire EXCEPT ![<<m, n>>] = Tail(@), ![<<n, m>>] = @ \o S \o todo]
  BY <1>0 DEF OnVersion
<1>4. Pushed(n, m) \subseteq AlertIds /\ Pushed(n, m) \subseteq mapAlerts[n]
  BY DEF Pushed, AlertTypes
<1>5. /\ todo \in Seq(W)
      /\ \A i \in 1 .. Len(todo) : todo[i] \in Pushed(n, m)
      /\ \A a \in Pushed(n, m) : \E i \in 1 .. Len(todo) : todo[i] = a
  <2>1. Seq(Pushed(n, m)) \subseteq Seq(W)
    BY <1>4
  <2> QED
    BY <1>4, <2>1, OrdersAre
<1>6. S \in Seq(W) /\ Len(S) \in Nat /\ \A i \in 1 .. Len(S) : S[i] = Version
  BY <1>0
<1>7. <<m, n>> \in links => Len(S) = 1 /\ S[1] = Version
  BY <1>0
<1>8. wire \in [Pair -> Seq(W)]
  BY DEF AlertTypes
<1> HIDE DEF W
<1>16. PICK s : s = S \o todo
  OBVIOUS
<1>9. /\ wire[<<n, m>>] \o S \o todo = wire[<<n, m>>] \o s
      /\ s \in Seq(W) /\ Len(s) = Len(S) + Len(todo) /\ Len(todo) \in Nat
      /\ \A i \in 1 .. Len(S) : s[i] = S[i]
      /\ \A i \in 1 .. Len(todo) : s[Len(S) + i] = todo[i]
      /\ \A i \in 1 .. Len(s) : i > Len(S) => i - Len(S) \in 1 .. Len(todo) /\ s[i] = todo[i - Len(S)]
  <2>1. wire[<<n, m>>] \in Seq(W)
    BY <1>2, <1>8
  <2>3. S \in Seq(W) /\ todo \in Seq(W)
    BY <1>5, <1>6
  <2>4. (wire[<<n, m>>] \o S) \o todo = wire[<<n, m>>] \o (S \o todo)
    <3>1. ASSUME NEW a \in Seq(W), NEW b \in Seq(W), NEW c \in Seq(W) PROVE (a \o b) \o c = a \o (b \o c)
      OBVIOUS
    <3> QED
      BY <2>1, <2>3, <3>1, Zenon
  <2>2. wire[<<n, m>>] \o S \o todo = wire[<<n, m>>] \o s
    BY <1>16, <2>4
  <2> QED
    BY <1>5, <1>6, <1>16, <2>2
<1>10. /\ wire'[<<m, n>>] = Tail(wire[<<m, n>>]) /\ wire'[<<n, m>>] = wire[<<n, m>>] \o s
       /\ \A p \in Pair \ {<<m, n>>, <<n, m>>} : wire'[p] = wire[p]
       /\ wire' \in [Pair -> Seq(W)]
  <2>1. Tail(wire[<<m, n>>]) \in Seq(W)
    BY <1>2, <1>8
  <2>2. wire[<<n, m>>] \o s \in Seq(W)
    BY <1>2, <1>8, <1>9
  <2> QED
    BY <1>2, <1>3, <1>8, <1>9, <2>1, <2>2
<1>11. /\ setKnown'[<<n, m>>] = setKnown[<<n, m>>] \cup Pushed(n, m)
       /\ \A p \in Pair : p # <<n, m>> => setKnown'[p] = setKnown[p]
       /\ setKnown' \in [Pair -> SUBSET AlertIds]
       /\ nVersion' = nVersion \cup {<<n, m>>}
       /\ links' = links /\ early' = early /\ mapAlerts' = mapAlerts
  BY <1>2, <1>4 DEF OnVersion, AlertTypes
<1>12. AlertTypes'
  BY <1>1, <1>10, <1>11 DEF OnVersion, AlertTypes, W
<1>13. PairRight(m, n)'
  BY <1>1, <1>2, <1>10, <1>11, PairPopped
<1>14. PairRight(n, m)'
  <2>1. Linked(n, m) /\ Linked(m, n)
    BY <1>2 DEF PairRight, NoLinkNoState, Linked
  <2>2. VersionComes(n, m) \/ (Len(S) = 1 /\ S[1] = Version)
    BY <1>2, <1>7, <2>1 DEF PairRight, VersionRight, Linked
  <2>3. VersionComes(n, m) \/ \E j \in 1 .. Len(s) : s[j] = Version
    <3>1. Len(S) = 1 /\ S[1] = Version => 1 \in 1 .. Len(s) /\ s[1] = Version
      BY <1>9
    <3> QED
      BY <2>2, <3>1
  <2>4. ASSUME NEW a \in mapAlerts'[n], IsInEffect(a)' PROVE a \in setKnown'[<<n, m>>]
    <3>1. IsInEffect(a)
      BY <1>11, <2>4 DEF Lasting, AlertTypes, OnVersion, IsInEffect
    <3> QED
      BY <1>11, <2>4, <3>1 DEF Pushed
  <2>5. \A a \in Pushed(n, m) : Covers(n, a)'
    BY <1>4, <1>11 DEF Covers
  <2>6. ASSUME NEW i \in 1 .. Len(s), s[i] # Version, IsInEffect(s[i])' PROVE Covers(n, s[i])'
    <3>1. i > Len(S)
      <4>1. SUFFICES ASSUME i <= Len(S) PROVE FALSE
        BY <1>6
      <4>2. i \in 1 .. Len(S)
        BY <1>6, <4>1
      <4>3. s[i] = S[i] /\ S[i] = Version
        BY <1>6, <1>9, <4>2
      <4> QED
        BY <2>6, <4>3
    <3> QED
      BY <1>5, <1>9, <2>5, <3>1
  <2>7. ASSUME NEW a \in Pushed(n, m)
        PROVE  \E i \in 1 .. Len(s) :
                    /\ s[i] = a
                    /\ VersionComes(n, m) \/ \E j \in 1 .. i - 1 : s[j] = Version
    <3>1. PICK k \in 1 .. Len(todo) : todo[k] = a
      BY <1>5, <2>7
    <3>2. PICK i : i = Len(S) + k
      OBVIOUS
    <3>3. i \in 1 .. Len(s) /\ s[i] = a
      BY <1>6, <1>9, <3>1, <3>2
    <3>4. Len(S) = 1 /\ S[1] = Version => 1 \in 1 .. i - 1 /\ s[1] = Version
      BY <1>9, <3>2
    <3> QED
      BY <2>2, <3>3, <3>4
  <2>8. s \in Seq({Version} \cup Nat)
    <3>1. W \subseteq {Version} \cup Nat
      BY DEF W, AlertIds, AlertTypes
    <3>2. Seq(W) \subseteq Seq({Version} \cup Nat)
      BY <3>1
    <3> QED
      BY <1>9, <3>2
  <2>10. PICK X : X = Pushed(n, m)
    OBVIOUS
  <2>11. /\ wire'[<<n, m>>] = wire[<<n, m>>] \o s
         /\ setKnown'[<<n, m>>] = setKnown[<<n, m>>] \cup X
         /\ <<n, m>> \in links' <=> <<n, m>> \in links
         /\ <<m, n>> \in links' <=> <<m, n>> \in links
         /\ <<m, n>> \in nVersion' <=> <<m, n>> \in nVersion
         /\ <<n, m>> \in nVersion => <<n, m>> \in nVersion'
         /\ \A a \in AlertIds : <<n, m, a>> \in early => <<n, m, a>> \in early'
    BY <1>2, <1>10, <1>11, <2>10
  <2>12. \A a \in X : IsInEffect(a)' =>
            /\ Covers(n, a)'
            /\ \/ <<n, m, a>> \in early'
               \/ Covers(m, a)'
               \/ \E i \in 1 .. Len(s) :
                    /\ s[i] = a
                    /\ VersionComes(n, m) \/ \E j \in 1 .. i - 1 : s[j] = Version
    BY <2>5, <2>7, <2>10
  <2>17. <<n, m>> \in nVersion \/ (Linked(n, m) /\ (VersionComes(n, m) \/ \E j \in 1 .. Len(s) : s[j] = Version))
    BY <2>1, <2>3
  <2>13. \A a \in mapAlerts'[n] : IsInEffect(a)' => a \in setKnown'[<<n, m>>]
    BY <2>4
  <2>14. Linked(n, m) \/ (X = {} /\ s = <<>>)
    BY <2>1
  <2>15. \A i \in 1 .. Len(s) : s[i] # Version /\ IsInEffect(s[i])' => Covers(n, s[i])'
    BY <2>6
  <2>16. AlertTypes /\ Lasting /\ PairRight(n, m)
    BY <1>1, <1>2
  <2> HIDE DEF AlertsInv
  <2> QED
    BY <2>8, <2>11, <2>12, <2>13, <2>14, <2>15, <2>16, <2>17, PairGrows
<1>15. ASSUME NEW p \in Pair PROVE PairRight(p[1], p[2])'
  <2>1. p = <<p[1], p[2]>> /\ p[1] \in Host /\ p[2] \in Host /\ p[1] # p[2]
    BY PairIs
  <2>2. CASE p = <<m, n>> \/ p = <<n, m>>
    BY <1>13, <1>14, <2>2
  <2>3. CASE p # <<m, n>> /\ p # <<n, m>>
    <3>1. <<p[2], p[1]>> # <<n, m>>
      BY <2>1, <2>3
    <3>2. mapAlerts[p[1]] \subseteq AlertIds
      BY <2>1 DEF AlertTypes
    <3>3. wire'[<<p[1], p[2]>>] = wire[<<p[1], p[2]>>] /\ setKnown'[<<p[1], p[2]>>] = setKnown[<<p[1], p[2]>>]
      BY <1>10, <1>11, <2>1, <2>3
    <3>4. /\ <<p[1], p[2]>> \in nVersion' <=> <<p[1], p[2]>> \in nVersion
          /\ <<p[2], p[1]>> \in nVersion' <=> <<p[2], p[1]>> \in nVersion
      BY <1>11, <2>1, <2>3, <3>1
    <3> QED
      BY <1>1, <1>11, <2>1, <3>2, <3>3, <3>4, PairStays
  <2> QED
    BY <2>2, <2>3
<1> QED
  BY <1>1, <1>12, <1>15

-----------------------------------------------------------------------------
\* The alert at the head of the wire from m to n.
AlertComes(m, n, a) == wire[<<m, n>>] # <<>> /\ a = Head(wire[<<m, n>>]) /\ a # Version

LEMMA AlertOnWire ==
  ASSUME AlertsInv, NEW m \in Host, NEW n \in Host, m # n, NEW a, AlertComes(m, n, a)
  PROVE  /\ a \in AlertIds /\ a \in Nat /\ Linked(m, n) /\ Linked(n, m)
         /\ IsInEffect(a) => Covers(m, a)
         /\ a \in setKnown[<<n, m>>] => (IsInEffect(a) => Covers(n, a))
<1>1. <<m, n>> \in Pair /\ PairRight(m, n) /\ PairRight(n, m)
  BY PairIs DEF AlertsInv
<1>2. wire[<<m, n>>] \in Seq({Version} \cup AlertIds) /\ wire[<<m, n>>] # <<>>
  BY <1>1 DEF AlertsInv, AlertTypes, AlertComes
<1>3. 1 \in 1 .. Len(wire[<<m, n>>]) /\ a = wire[<<m, n>>][1]
  BY <1>2 DEF AlertComes
<1>4. a \in AlertIds /\ a \in Nat
  BY <1>2, <1>3 DEF AlertComes, AlertIds
<1>5. Linked(m, n) /\ Linked(n, m)
  BY <1>1, <1>2 DEF PairRight, NoLinkNoState, Linked
<1>6. IsInEffect(a) => Covers(m, a)
  BY <1>1, <1>3 DEF PairRight, WireRight, AlertComes
<1>7. a \in setKnown[<<n, m>>] => (IsInEffect(a) => Covers(n, a))
  BY <1>1 DEF PairRight, KnownRight
<1> QED
  BY <1>4, <1>5, <1>6, <1>7

\* A message taken from a wire leaves the others.
Popped(m, n) == [wire EXCEPT ![<<m, n>>] = Tail(@)]

LEMMA PoppedIs ==
  ASSUME AlertTypes, NEW m \in Host, NEW n \in Host, m # n, wire[<<m, n>>] # <<>>
  PROVE  /\ Popped(m, n) \in [Pair -> Seq({Version} \cup AlertIds)]
         /\ Popped(m, n)[<<m, n>>] = Tail(wire[<<m, n>>])
         /\ \A p \in Pair : p # <<m, n>> => Popped(m, n)[p] = wire[p]
<1>1. <<m, n>> \in Pair /\ wire \in [Pair -> Seq({Version} \cup AlertIds)]
  BY PairIs DEF AlertTypes
<1>2. Tail(wire[<<m, n>>]) \in Seq({Version} \cup AlertIds)
  BY <1>1
<1> QED
  BY <1>1, <1>2 DEF Popped

LEMMA RefusedKeeps ==
  ASSUME AlertsInv, NEW m \in Host, NEW n \in Host, m # n, NEW a, AlertComes(m, n, a),
         <<n, m>> \notin nVersion \/ a \in setKnown[<<n, m>>], OnAlert(m, n, a)
  PROVE  AlertsInv'
<1> USE DEF AlertsInv
<1>0. PICK popped : popped = Popped(m, n)
  OBVIOUS
<1>1. /\ wire' = popped
      /\ UNCHANGED <<issued, mapAlerts, links, nVersion, setKnown, alertTime, early>>
  BY <1>0 DEF OnAlert, Popped
<1>2. Lasting /\ IssuedRight' /\ AlertsAreCurrent' /\ AlertIds' = AlertIds
  BY <1>1, SameKnowledge
<1>3. /\ popped \in [Pair -> Seq({Version} \cup AlertIds)] /\ popped[<<m, n>>] = Tail(wire[<<m, n>>])
      /\ \A p \in Pair : p # <<m, n>> => popped[p] = wire[p]
  BY <1>0, PoppedIs DEF AlertComes
<1>4. AlertTypes'
  BY <1>1, <1>2, <1>3 DEF AlertTypes
<1>5. a \in AlertIds /\ (IsInEffect(a) => Covers(m, a))
      /\ (a \in setKnown[<<n, m>>] => (IsInEffect(a) => Covers(n, a)))
  BY AlertOnWire
<1>6. PairRight(m, n)'
  <2>1. <<n, m>> \in nVersion /\ IsInEffect(a)' => Covers(n, a)'
    BY <1>2, <1>5 DEF Lasting
  <2>2. PairRight(m, n)
    BY PairIs
  <2> QED
    BY <1>1, <1>2, <1>3, <2>1, <2>2, PairPopped DEF AlertComes
<1>7. ASSUME NEW p \in Pair PROVE PairRight(p[1], p[2])'
  <2>1. p = <<p[1], p[2]>> /\ p[1] \in Host /\ p[2] \in Host /\ p[1] # p[2]
    BY PairIs
  <2>2. CASE p = <<m, n>>
    BY <1>6, <2>2
  <2>3. CASE p # <<m, n>>
    <3>1. mapAlerts[p[1]] \subseteq AlertIds
      BY <2>1 DEF AlertTypes
    <3>2. wire'[<<p[1], p[2]>>] = wire[<<p[1], p[2]>>]
      BY <1>1, <1>3, <2>1, <2>3
    <3> QED
      BY <1>1, <1>2, <2>1, <3>1, <3>2, PairStays
  <2> QED
    BY <2>2, <2>3
<1> QED
  BY <1>2, <1>4, <1>7

LEMMA ProcessedKeeps ==
  ASSUME AlertsInv, NEW m \in Host, NEW n \in Host, m # n, NEW a, AlertComes(m, n, a),
         <<n, m>> \in nVersion, a \notin setKnown[<<n, m>>], OnAlert(m, n, a)
  PROVE  AlertsInv'
<1> USE DEF AlertsInv
<1>0. PICK popped : popped = Popped(m, n)
  OBVIOUS
<1>1. PICK known : known = [setKnown EXCEPT ![<<n, m>>] = @ \cup {a}]
  OBVIOUS
<1>2. /\ UNCHANGED <<issued, links, nVersion, alertTime>>
      /\ mapAlerts' = [mapAlerts EXCEPT ![n] = AfterProcess(n, a)]
  BY DEF OnAlert
<1>3. IF IsInEffect(a) /\ ~Cancelled(n, a)
      THEN Relay(n, a, known, popped) ELSE wire' = popped /\ UNCHANGED <<setKnown, early>>
  BY <1>0, <1>1 DEF OnAlert, Popped
<1>4. /\ popped \in [Pair -> Seq({Version} \cup AlertIds)] /\ popped[<<m, n>>] = Tail(wire[<<m, n>>])
      /\ \A p \in Pair : p # <<m, n>> => popped[p] = wire[p]
  BY <1>0, PoppedIs DEF AlertComes
<1>5. /\ a \in AlertIds /\ a \in Nat /\ Linked(m, n) /\ Linked(n, m)
      /\ IsInEffect(a) => Covers(m, a)
  BY AlertOnWire
<1>6. /\ <<m, n>> \in Pair /\ <<n, m>> \in Pair /\ <<m, n>> # <<n, m>>
      /\ PairRight(m, n) /\ PairRight(n, m)
  BY PairIs
<1>7. /\ known \in [Pair -> SUBSET AlertIds] /\ known[<<n, m>>] = setKnown[<<n, m>>] \cup {a}
      /\ \A p \in Pair : p # <<n, m>> => known[p] = setKnown[p]
  BY <1>1, <1>5, <1>6 DEF AlertTypes
<1>8. /\ AfterProcess(n, a) \subseteq AlertIds
      /\ IsInEffect(a) => \E b \in AfterProcess(n, a) : b = a \/ Cancels(b, a)
      /\ \A x \in AlertIds : IsInEffect(x) /\ Covers(n, x)
             => \E b \in AfterProcess(n, a) : b = x \/ Cancels(b, x)
      /\ ~IsInEffect(a) \/ Cancelled(n, a) => AfterProcess(n, a) \subseteq mapAlerts[n]
      /\ AfterProcess(n, a) \subseteq mapAlerts[n] \cup {a}
  BY <1>5, ProcessCovers
<1>9. PICK shown : shown = AfterProcess(n, a)
  OBVIOUS
<1>10. /\ mapAlerts'[n] = shown /\ mapAlerts' \in [Host -> SUBSET AlertIds]
       /\ \A h \in Host : h # n => mapAlerts'[h] = mapAlerts[h]
       /\ \A h \in Host : mapAlerts[h] \subseteq AlertIds
  BY <1>2, <1>8, <1>9 DEF AlertTypes
<1>11. AlertIds' = AlertIds /\ IssuedRight'
  BY <1>2 DEF AlertIds, IssuedRight
<1>12. \A x, y : (IsInEffect(x)' <=> IsInEffect(x)) /\ (Cancels(x, y)' <=> Cancels(x, y))
  BY <1>2 DEF IsInEffect, Cancels
<1>13. Lasting
  <2>1. ASSUME NEW h \in Host, NEW x \in AlertIds, IsInEffect(x)', Covers(h, x) PROVE Covers(h, x)'
    <3>1. CASE h = n
      BY <1>8, <1>9, <1>10, <1>12, <2>1, <3>1 DEF Covers
    <3>2. CASE h # n
      BY <1>10, <1>12, <2>1, <3>2 DEF Covers
    <3> QED
      BY <3>1, <3>2
  <2> QED
    BY <1>12, <2>1 DEF Lasting
<1>14. IsInEffect(a)' => Covers(n, a)' /\ Covers(m, a)'
  <2>1. IsInEffect(a) => Covers(n, a)'
    BY <1>8, <1>9, <1>10, <1>12 DEF Covers
  <2> QED
    BY <1>5, <1>12, <1>13, <2>1 DEF Lasting
<1>15. AlertsAreCurrent'
  <2>1. ASSUME NEW x \in shown, NEW y \in shown, x # y, IsInEffect(y), Cancels(x, y) PROVE FALSE
    <3>1. CASE x \in mapAlerts[n] /\ y \in mapAlerts[n]
      BY <2>1, <3>1 DEF AlertsAreCurrent
    <3>2. CASE ~(x \in mapAlerts[n] /\ y \in mapAlerts[n])
      <4>1. IsInEffect(a) /\ ~Cancelled(n, a) /\ (x = a \/ y = a)
        BY <1>8, <1>9, <2>1, <3>2
      <4>2. shown = Left(n, a) \cup {a}
        BY <1>9, <4>1 DEF AfterProcess
      <4>3. x = a => y \in Left(n, a)
        BY <2>1, <4>2
      <4>4. y = a => x \in Left(n, a)
        BY <2>1, <4>2
      <4> QED
        BY <2>1, <4>1, <4>3, <4>4 DEF Left, Cancelled
    <3> QED
      BY <3>1, <3>2
  <2>2. ASSUME NEW h \in Host, NEW x \in mapAlerts'[h], NEW y \in mapAlerts'[h], x # y, IsInEffect(y)'
        PROVE  ~Cancels(x, y)'
    <3>1. CASE h = n
      BY <1>10, <1>12, <2>1, <2>2, <3>1
    <3>2. CASE h # n
      BY <1>10, <1>12, <2>2, <3>2 DEF AlertsAreCurrent
    <3> QED
      BY <3>1, <3>2
  <2> QED
    BY <2>2 DEF AlertsAreCurrent
<1>16. CASE IsInEffect(a) /\ ~Cancelled(n, a)
  <2>1. Relay(n, a, known, popped)
    BY <1>3, <1>16
  <2>2. /\ setKnown' \in [Pair -> SUBSET AlertIds] /\ wire' \in [Pair -> Seq({Version} \cup AlertIds)]
        /\ \A p \in Pair : p[1] # n \/ a \in known[p] => setKnown'[p] = known[p] /\ wire'[p] = popped[p]
        /\ early \subseteq early'
    BY <1>4, <1>5, <1>7, <2>1, RelayIs
  <2>3. AlertTypes'
    BY <1>2, <1>10, <1>11, <2>2 DEF AlertTypes
  <2>4. PairRight(m, n)'
    <3>1. wire'[<<m, n>>] = Tail(wire[<<m, n>>]) /\ setKnown'[<<m, n>>] = setKnown[<<m, n>>]
      BY <1>4, <1>6, <1>7, <2>2
    <3>2. mapAlerts'[m] = mapAlerts[m]
      BY <1>10
    <3> QED
      BY <1>2, <1>6, <1>13, <1>14, <2>2, <3>1, <3>2, PairPopped DEF AlertComes
  <2>5. PairRight(n, m)'
    <3>1. PICK X, s : X = {a} /\ s = <<>>
      OBVIOUS
    <3>2. wire'[<<n, m>>] = wire[<<n, m>>] /\ setKnown'[<<n, m>>] = setKnown[<<n, m>>] \cup X
      BY <1>4, <1>6, <1>7, <2>2, <3>1
    <3>3. wire[<<n, m>>] \in Seq({Version} \cup AlertIds)
      BY <1>6 DEF AlertTypes
    <3>4. wire'[<<n, m>>] = wire[<<n, m>>] \o s /\ s \in Seq({Version} \cup Nat) /\ 1 .. Len(s) = {}
      BY <3>1, <3>2, <3>3
    <3>5. \A x \in X : IsInEffect(x)' => Covers(n, x)' /\ Covers(m, x)'
      BY <1>14, <3>1
    <3>6. \A x \in mapAlerts'[n] : IsInEffect(x)' => x \in setKnown'[<<n, m>>]
      <4>1. ASSUME NEW x \in mapAlerts'[n], IsInEffect(x)', x # a PROVE x \in setKnown[<<n, m>>]
        BY <1>6, <1>8, <1>9, <1>10, <1>12, <4>1 DEF PairRight, AllIsKnown
      <4> QED
        BY <3>1, <3>2, <4>1
    <3> QED
      BY <1>2, <1>5, <1>6, <1>13, <2>2, <3>2, <3>4, <3>5, <3>6, PairGrows
  <2>6. ASSUME NEW p \in Pair PROVE PairRight(p[1], p[2])'
    <3>1. p = <<p[1], p[2]>> /\ p[1] \in Host /\ p[2] \in Host /\ p[1] # p[2]
      BY PairIs
    <3>2. CASE p = <<m, n>> \/ p = <<n, m>>
      BY <2>4, <2>5, <3>2
    <3>3. CASE p # <<m, n>> /\ p # <<n, m>>
      <4>1. popped[<<p[1], p[2]>>] = wire[<<p[1], p[2]>>] /\ known[<<p[1], p[2]>>] = setKnown[<<p[1], p[2]>>]
        BY <1>4, <1>7, <3>1, <3>3
      <4>2. CASE p[1] = n
        <5>1. mapAlerts'[n] \subseteq AlertIds \cup {a} /\ \A x \in mapAlerts'[n] : x = a \/ x \in mapAlerts[n]
          BY <1>8, <1>9, <1>10
        <5>2. PairRight(n, p[2])
          BY <3>1, <4>2
        <5>3. a # Version
          BY DEF AlertComes
        <5>4. PairRight(n, p[2])'
          BY <1>2, <1>5, <1>13, <1>14, <2>1, <3>1, <4>1, <4>2, <5>1, <5>2, <5>3, RelayPair
        <5> QED
          BY <4>2, <5>4
      <4>3. CASE p[1] # n
        <5>1. /\ wire'[<<p[1], p[2]>>] = wire[<<p[1], p[2]>>]
              /\ setKnown'[<<p[1], p[2]>>] = setKnown[<<p[1], p[2]>>]
          BY <2>2, <3>1, <4>1, <4>3
        <5>2. mapAlerts'[p[1]] = mapAlerts[p[1]] /\ mapAlerts[p[1]] \subseteq AlertIds
          BY <1>10, <3>1, <4>3
        <5> QED
          BY <1>2, <1>13, <2>2, <3>1, <5>1, <5>2, PairStays
      <4> QED
        BY <4>2, <4>3
    <3> QED
      BY <3>2, <3>3
  <2> QED
    BY <1>11, <1>15, <2>3, <2>6
<1>17. CASE ~(IsInEffect(a) /\ ~Cancelled(n, a))
  <2>1. wire' = popped /\ setKnown' = setKnown /\ early' = early
    BY <1>3, <1>17
  <2>2. AlertTypes'
    BY <1>2, <1>4, <1>10, <1>11, <2>1 DEF AlertTypes
  <2>3. PairRight(m, n)'
    <3>1. mapAlerts'[m] = mapAlerts[m]
      BY <1>10
    <3> QED
      BY <1>2, <1>4, <1>6, <1>13, <1>14, <2>1, <3>1, PairPopped DEF AlertComes
  <2>4. ASSUME NEW p \in Pair PROVE PairRight(p[1], p[2])'
    <3>1. p = <<p[1], p[2]>> /\ p[1] \in Host /\ p[2] \in Host /\ p[1] # p[2]
      BY PairIs
    <3>2. CASE p = <<m, n>>
      BY <2>3, <3>2
    <3>3. CASE p # <<m, n>>
      <4>1. wire'[<<p[1], p[2]>>] = wire[<<p[1], p[2]>>]
        BY <1>4, <2>1, <3>1, <3>3
      <4>2. mapAlerts'[p[1]] \subseteq mapAlerts[p[1]] /\ mapAlerts[p[1]] \subseteq AlertIds
        BY <1>8, <1>9, <1>10, <1>17, <3>1
      <4> QED
        BY <1>2, <1>13, <2>1, <3>1, <4>1, <4>2, PairStays
    <3> QED
      BY <3>2, <3>3
  <2> QED
    BY <1>11, <1>15, <2>2, <2>4
<1> QED
  BY <1>16, <1>17

LEMMA AlertsInvNext == AlertsInv /\ [AlertsNext]_alertVars => AlertsInv'
<1> SUFFICES ASSUME AlertsInv, [AlertsNext]_alertVars PROVE AlertsInv'
  OBVIOUS
<1>1. CASE UNCHANGED alertVars
  <2> USE DEF AlertsInv
  <2>1. Lasting /\ IssuedRight' /\ AlertsAreCurrent' /\ AlertIds' = AlertIds
    BY <1>1, SameKnowledge DEF alertVars
  <2>2. AlertTypes'
    BY <1>1, <2>1 DEF alertVars, AlertTypes
  <2>3. ASSUME NEW p \in Pair PROVE PairRight(p[1], p[2])'
    <3>1. p[1] \in Host /\ p[2] \in Host /\ p[1] # p[2] /\ mapAlerts[p[1]] \subseteq AlertIds
      BY PairIs DEF AlertTypes
    <3> QED
      BY <1>1, <2>1, <3>1, PairStays DEF alertVars
  <2> QED
    BY <2>1, <2>2, <2>3
<1>2. CASE \E n \in Host : SendAlert(n)
  BY <1>2, SendKeeps
<1>3. CASE AlertTick
  BY <1>3, AlertTickKeeps
<1>4. ASSUME NEW p \in Pair, Connect(p[1], p[2]) PROVE AlertsInv'
  BY <1>4, PairIs, LinkKeeps
<1>5. ASSUME NEW p \in Pair, Disconnect(p[1], p[2]) PROVE AlertsInv'
  BY <1>5, PairIs, UnlinkKeeps
<1>6. ASSUME NEW p \in Pair, ReceiveFrom(p[1], p[2]) PROVE AlertsInv'
  <2>1. PICK m, n : m = p[1] /\ n = p[2]
    OBVIOUS
  <2>2. m \in Host /\ n \in Host /\ m # n /\ ReceiveFrom(m, n) /\ wire[<<m, n>>] # <<>>
    BY <1>6, <2>1, PairIs DEF ReceiveFrom
  <2>3. CASE Head(wire[<<m, n>>]) = Version /\ OnVersion(m, n)
    BY <2>2, <2>3, VersionKeeps
  <2>4. CASE Head(wire[<<m, n>>]) # Version /\ OnAlert(m, n, Head(wire[<<m, n>>]))
    <3>1. PICK a : a = Head(wire[<<m, n>>])
      OBVIOUS
    <3>2. AlertComes(m, n, a) /\ OnAlert(m, n, a)
      BY <2>2, <2>4, <3>1 DEF AlertComes
    <3>3. CASE <<n, m>> \notin nVersion \/ a \in setKnown[<<n, m>>]
      BY <2>2, <3>2, <3>3, RefusedKeeps
    <3>4. CASE ~(<<n, m>> \notin nVersion \/ a \in setKnown[<<n, m>>])
      BY <2>2, <3>2, <3>4, ProcessedKeeps
    <3> QED
      BY <3>3, <3>4
  <2> QED
    BY <2>2, <2>3, <2>4 DEF ReceiveFrom
<1> QED
  BY <1>1, <1>2, <1>3, <1>4, <1>5, <1>6 DEF AlertsNext

-----------------------------------------------------------------------------
\* With empty wires, what is known was handed on.
LEMMA InvArrives == AlertsInv => AlertsArrive(early)
<1> SUFFICES ASSUME AlertsInv, NEW m \in Host, NEW n \in Host, m # n,
                    <<m, n>> \in nVersion, wire[<<m, n>>] = <<>>, NEW a \in mapAlerts[m],
                    IsInEffect(a), <<m, n, a>> \notin early
             PROVE  a \in mapAlerts[n] \/ \E b \in mapAlerts[n] : Cancels(b, a)
  BY PairIs DEF AlertsArrive
<1>1. PairRight(m, n)
  BY PairIs DEF AlertsInv
<1>2. a \in setKnown[<<m, n>>]
  BY <1>1 DEF PairRight, AllIsKnown
<1>3. Covers(n, a) \/ OnTheWay(m, n, a)
  BY <1>1, <1>2 DEF PairRight, HandedOn
<1>4. ~OnTheWay(m, n, a)
  <2>1. Len(<<>>) = 0
    OBVIOUS
  <2> QED
    BY <2>1 DEF OnTheWay
<1> QED
  BY <1>3, <1>4 DEF Covers

\* The loop of GetWarnings finds the highest priority, and a safe mode if one is above 1000.
LEMMA InvSafeMode == AlertsInv => SafeModeIsRight
<1> SUFFICES ASSUME AlertsInv, NEW n \in Host, NEW before \in Conditions, NEW order \in Orders(mapAlerts[n])
             PROVE  GetWarnings(order, before).rpc
                    <=> before.rpc \/ \E a \in mapAlerts[n] : IsInEffect(a) /\ Priority[a] > 1000
  BY DEF SafeModeIsRight
<1>1. mapAlerts[n] \subseteq AlertIds /\ AlertTypes
  BY DEF AlertsInv, AlertTypes
<1>2. /\ order \in Seq(mapAlerts[n]) /\ \A i \in 1 .. Len(order) : order[i] \in mapAlerts[n]
      /\ \A a \in mapAlerts[n] : \E i \in 1 .. Len(order) : order[i] = a
  BY <1>1, OrdersAre
<1> DEFINE len == Len(order)
           V == [priority : Int, rpc : BOOLEAN]
           P(i) == IF IsInEffect(order[i]) THEN Priority[order[i]] ELSE -1
<1>3. len \in Nat /\ before \in V /\ (before.priority > 1000 => before.rpc)
  BY <1>2, AlertAssumption
<1>4. \A i \in 1 .. len : P(i) \in Int
  <2>1. ASSUME NEW i \in 1 .. len PROVE Priority[order[i]] \in Int
    <3>1. order[i] \in 1 .. MaxAlerts
      <4>1. Len(issued) \in Nat /\ Len(issued) <= MaxAlerts /\ MaxAlerts \in Nat
        BY <1>1, AlertAssumption DEF AlertTypes
      <4>2. order[i] \in 1 .. Len(issued)
        BY <1>1, <1>2 DEF AlertIds
      <4> QED
        BY <4>1, <4>2
    <3> QED
      BY <3>1, AlertAssumption
  <2> QED
    BY <2>1
<1>5. \A i \in 1 .. len, v \in V : Warn(v, P(i)) \in V
  <2> HIDE DEF P
  <2> QED
    BY <1>4 DEF Warn
<1> DEFINE Step == [i \in 1 .. len |-> [v \in V |-> Warn(v, P(i))]]
           found[i \in 0 .. len] == IF i = 0 THEN before ELSE Warn(found[i - 1], P(i))
<1> HIDE DEF len, V
<1>6. \E f : f = [i \in 0 .. len |-> IF i = 0 THEN before ELSE Warn(f[i - 1], P(i))]
  <2>1. Step \in [1 .. len -> [V -> V]] /\ \A i \in 1 .. len : \A v \in V : Step[i][v] = Warn(v, P(i))
    <3> HIDE DEF P
    <3> QED
      BY <1>5
  <2> HIDE DEF Step, P
  <2>2. PICK f : Iterates(f, len, V, before, Step)
    BY <1>3, <2>1, Recursion
  <2>3. f = [i \in 0 .. len |-> IF i = 0 THEN before ELSE Warn(f[i - 1], P(i))]
    BY <1>3, <2>1, <2>2 DEF Iterates
  <2> QED
    BY <2>3
<1>7. found = [i \in 0 .. len |-> IF i = 0 THEN before ELSE Warn(found[i - 1], P(i))]
  <2> HIDE DEF P
  <2> QED
    BY <1>6
<1>8. GetWarnings(order, before) = found[len]
  BY DEF GetWarnings, len
<1> HIDE DEF found
<1>9. found[0] = before /\ \A i \in 1 .. len : found[i] = Warn(found[i - 1], P(i))
  <2> HIDE DEF P
  <2>1. ASSUME NEW i \in 0 .. len PROVE found[i] = IF i = 0 THEN before ELSE Warn(found[i - 1], P(i))
    BY <1>7, Zenon
  <2>2. 0 \in 0 .. len /\ \A i \in 1 .. len : i \in 0 .. len /\ i # 0
    BY <1>3
  <2> QED
    BY <2>1, <2>2, Zenon
<1> DEFINE Right(i) ==
      /\ found[i] \in V
      /\ found[i].rpc <=> before.rpc \/ \E j \in 1 .. i : P(j) > 1000
      /\ found[i].priority > 1000 => found[i].rpc
      /\ \A j \in 1 .. i : P(j) <= found[i].priority
      S == {i \in 0 .. len : Right(i)}
<1>10. 0 \in S
  BY <1>3, <1>9
<1>11. ASSUME NEW i \in 1 .. len, i - 1 \in S PROVE i \in S
  <2>1. PICK v : v = found[i - 1]
    OBVIOUS
  <2>2. PICK u : u = found[i]
    OBVIOUS
  <2>3. PICK k : k = i - 1
    OBVIOUS
  <2>4. PICK x : x = P(i)
    OBVIOUS
  <2>5. i \in 0 .. len /\ k \in Nat /\ 1 .. i = (1 .. k) \cup {i} /\ i = k + 1
    BY <1>3, <2>3
  <2> HIDE DEF P
  <2>6. /\ v \in V /\ (v.rpc <=> before.rpc \/ \E j \in 1 .. k : P(j) > 1000)
        /\ (v.priority > 1000 => v.rpc) /\ \A j \in 1 .. k : P(j) <= v.priority
    BY <1>11, <2>1, <2>3
  <2>7. u = Warn(v, x) /\ x \in Int /\ u \in V
    BY <1>4, <1>5, <1>9, <2>1, <2>2, <2>4, <2>6
  <2>8. v.priority \in Int /\ v.rpc \in BOOLEAN
    BY <2>6 DEF V
  <2>9. CASE x > v.priority
    <3>1. u.priority = x /\ (u.rpc <=> v.rpc \/ x > 1000)
      BY <2>7, <2>9 DEF Warn
    <3>2. \A j \in 1 .. k : P(j) <= x
      <4>1. \A j \in 1 .. k : j \in 1 .. len
        BY <1>3, <2>5
      <4> QED
        BY <1>4, <2>6, <2>7, <2>8, <2>9, <4>1
    <3>3. u.rpc <=> before.rpc \/ \E j \in 1 .. i : P(j) > 1000
      BY <2>4, <2>5, <2>6, <3>1
    <3> QED
      BY <2>2, <2>4, <2>5, <2>7, <2>8, <3>1, <3>2, <3>3
  <2>10. CASE ~(x > v.priority)
    <3>1. u = v /\ x <= v.priority
      BY <2>7, <2>8, <2>10 DEF Warn
    <3>2. x > 1000 => v.rpc
      BY <2>6, <2>7, <2>8, <3>1
    <3>3. u.rpc <=> before.rpc \/ \E j \in 1 .. i : P(j) > 1000
      BY <2>4, <2>5, <2>6, <3>1, <3>2
    <3> QED
      BY <2>2, <2>4, <2>5, <2>6, <2>7, <3>1, <3>3
  <2> QED
    BY <2>9, <2>10
<1>12. len \in S
  <2> HIDE DEF S
  <2>1. 0 .. len \subseteq S
    BY <1>3, <1>10, <1>11, UpTo
  <2> QED
    BY <1>3, <2>1
<1>13. found[len].rpc <=> before.rpc \/ \E j \in 1 .. len : P(j) > 1000
  BY <1>12
<1>14. (\E j \in 1 .. len : P(j) > 1000) <=> \E a \in mapAlerts[n] : IsInEffect(a) /\ Priority[a] > 1000
  <2>1. ASSUME NEW j \in 1 .. len, P(j) > 1000
        PROVE  \E a \in mapAlerts[n] : IsInEffect(a) /\ Priority[a] > 1000
    <3>1. IsInEffect(order[j]) /\ Priority[order[j]] > 1000
      BY <2>1
    <3> QED
      BY <1>2, <3>1 DEF len
  <2>2. ASSUME NEW a \in mapAlerts[n], IsInEffect(a), Priority[a] > 1000
        PROVE  \E j \in 1 .. len : P(j) > 1000
    <3>1. PICK j \in 1 .. len : order[j] = a
      BY <1>2 DEF len
    <3>2. P(j) > 1000
      BY <2>2, <3>1
    <3> QED
      BY <3>2
  <2> QED
    BY <2>1, <2>2
<1> QED
  BY <1>8, <1>13, <1>14

\* THEOREM AlertsStayRight.  No node shows an alert that another one it holds cancels; when
\* nothing is on its way between two nodes that have shaken hands, what one holds the other
\* holds or has seen cancelled, but for what was pushed too early; and the safe mode follows
\* from the alerts in effect, whatever the order of their hashes.
THEOREM AlertsStayRight == AlertsSpec => []AlertsAreRight
<1>1. AlertsInit => AlertsInv
  BY AlertsInvInit
<1>2. AlertsInv /\ [AlertsNext]_alertVars => AlertsInv'
  BY AlertsInvNext
<1>3. AlertsInv => AlertsAreRight
  BY InvArrives, InvSafeMode DEF AlertsAreRight, AlertsInv
<1> QED
  BY <1>1, <1>2, <1>3, PTL DEF AlertsSpec

=============================================================================
