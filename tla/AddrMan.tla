-------------------------------- MODULE AddrMan --------------------------------
(***************************************************************************)
(* The address manager (addrman.h, addrman.cpp): addresses heard of in     *)
(* "new" buckets, addresses connected to in "tried" buckets, the counts    *)
(* and the random order kept next to them, and the file peers.dat they are *)
(* dumped to and restored from.                                            *)
(*                                                                         *)
(* An entry is named by its network address (mapAddr has one id for each), *)
(* so its id and mapAddr itself are left out.  The hashes that choose a    *)
(* bucket are constant functions, and the times of an entry are the order  *)
(* of its last success; what else depends on times (IsTerrible, GetChance, *)
(* the age of an announcement) is a free choice.                           *)
(***************************************************************************)
EXTENDS Integers, Sequences, FiniteSets, SequencesExt

CONSTANTS
    NetAddr,            \* CNetAddr of the entries
    Source,             \* CNetAddr of who tells of them
    Port,               \* a CService is a network address with a port
    NewBucket,          \* the indices of vvNew
    TriedBucket,        \* the indices of vvTried
    GetNewBucket,       \* [address -> [source -> new bucket]], for nKey
    GetTriedBucket,     \* [address -> [port -> tried bucket]], for nKey
    NewBucketSize, TriedBucketSize,     \* ADDRMAN_{NEW,TRIED}_BUCKET_SIZE
    NewBucketsPerAddress,               \* ADDRMAN_NEW_BUCKETS_PER_ADDRESS
    InspectOnEvict,                     \* ADDRMAN_TRIED_ENTRIES_INSPECT_ON_EVICT
    GetAddrMaxPct, GetAddrMax,          \* ADDRMAN_GETADDR_MAX{_PCT,}
    MaxTime,            \* bound on the times of a last success
    NoAddr

ASSUME AddrManAssumption ==
    /\ NoAddr \notin NetAddr
    /\ GetNewBucket \in [NetAddr -> [Source -> NewBucket]]
    /\ GetTriedBucket \in [NetAddr -> [Port -> TriedBucket]]
    /\ IsFiniteSet(NewBucket)
    /\ \A n \in {NewBucketSize, TriedBucketSize, NewBucketsPerAddress, InspectOnEvict} : n \in Nat \ {0}
    /\ GetAddrMaxPct \in 0 .. 100 /\ GetAddrMax \in Nat
    /\ MaxTime \in Nat \ {0}

VARIABLES
    mapInfo,        \* [known address -> CAddrInfo]
    vRandom,        \* the known addresses in random order
    vvNew,          \* [new bucket -> set of addresses]
    vvTried,        \* [tried bucket -> sequence of addresses]
    nNew, nTried    \* the number of entries in new and in tried buckets

tables == [mapInfo |-> mapInfo, vRandom |-> vRandom, vvNew |-> vvNew, vvTried |-> vvTried,
           nNew |-> nNew, nTried |-> nTried]
addrVars == <<mapInfo, vRandom, vvNew, vvTried, nNew, nTried>>

Known == DOMAIN mapInfo

AddrInfo == [port : Port, source : Source, nLastSuccess : 0 .. MaxTime, nRefCount : Nat,
             fInTried : BOOLEAN, nRandomPos : Nat]

\* The tables of a CAddrMan that has just been constructed.
EmptyTables == [mapInfo |-> << >>, vRandom |-> << >>, vvNew |-> [b \in NewBucket |-> {}],
                vvTried |-> [b \in TriedBucket |-> << >>], nNew |-> 0, nTried |-> 0]

Become(t) ==
    /\ mapInfo' = t.mapInfo /\ vRandom' = t.vRandom
    /\ vvNew' = t.vvNew /\ vvTried' = t.vvTried
    /\ nNew' = t.nNew /\ nTried' = t.nTried

AddrManInit ==
    /\ mapInfo = EmptyTables.mapInfo /\ vRandom = EmptyTables.vRandom
    /\ vvNew = EmptyTables.vvNew /\ vvTried = EmptyTables.vvTried
    /\ nNew = 0 /\ nTried = 0

-----------------------------------------------------------------------------
(***************************************************************************)
(* The helpers, as functions from tables to tables.                        *)
(***************************************************************************)
With(f, x, v) == [y \in DOMAIN f \cup {x} |-> IF y = x THEN v ELSE f[y]]
Without(f, x) == [y \in DOMAIN f \ {x} |-> f[y]]

\* A new entry is behind all others in vRandom.
Create(t, a, port, source) ==
    [t EXCEPT !.mapInfo = With(@, a, [port |-> port, source |-> source, nLastSuccess |-> 0,
                                      nRefCount |-> 0, fInTried |-> FALSE,
                                      nRandomPos |-> Len(t.vRandom) + 1]),
              !.vRandom = Append(@, a)]

\* Altered: the entry that takes the other's place keeps its nRandomPos.
SwapRandom_OnePos(t, i, j) ==
    [t EXCEPT !.vRandom = [@ EXCEPT ![i] = t.vRandom[j], ![j] = t.vRandom[i]],
              !.mapInfo[t.vRandom[i]].nRandomPos = j]

SwapRandom(t, i, j) ==
    IF i = j THEN t
    ELSE [t EXCEPT !.vRandom = [@ EXCEPT ![i] = t.vRandom[j], ![j] = t.vRandom[i]],
                   !.mapInfo = [@ EXCEPT ![t.vRandom[i]].nRandomPos = j,
                                         ![t.vRandom[j]].nRandomPos = i]]

(***************************************************************************)
(* One reference to a goes (in ShrinkNew): an entry without any is deleted *)
(* by a swap with the last of vRandom.                                     *)
(***************************************************************************)
DropReference(t, a) ==
    IF t.mapInfo[a].nRefCount > 1 THEN [t EXCEPT !.mapInfo[a].nRefCount = @ - 1]
    ELSE LET s == SwapRandom(t, t.mapInfo[a].nRandomPos, Len(t.vRandom))
         IN  [s EXCEPT !.vRandom = Front(@), !.mapInfo = Without(@, a), !.nNew = @ - 1]

\* Altered: the bucket keeps the entry whose reference has gone.
ShrinkNew_KeepsEntry(t, b) == {DropReference(t, a) : a \in t.vvNew[b]}

(***************************************************************************)
(* One entry of the bucket is replaced: a terrible one, or the oldest of   *)
(* four that are drawn with replacement, so it can be any of them.         *)
(***************************************************************************)
ShrinkNew(t, b) == {[DropReference(t, a) EXCEPT !.vvNew[b] = @ \ {a}] : a \in t.vvNew[b]}

(***************************************************************************)
(* SelectTried: the first few places of the bucket are filled from random  *)
(* ones behind them, and the oldest of the entries that came by is         *)
(* remembered together with the place it was taken from, which by then     *)
(* holds another entry.  A result is the shuffled bucket, the oldest entry *)
(* and that place.                                                         *)
(***************************************************************************)
SelectTried(t, b) ==
    LET bucket == t.vvTried[b]
        Older(x, y) == t.mapInfo[x].nLastSuccess < t.mapInfo[y].nLastSuccess
        Draw(s, i, nPos) ==
            LET shuffled == [s.bucket EXCEPT ![nPos] = s.bucket[i], ![i] = s.bucket[nPos]]
                nTemp    == s.bucket[nPos]
            IN  IF s.nOldest = NoAddr \/ Older(nTemp, s.nOldest)
                THEN [bucket |-> shuffled, nOldest |-> nTemp, nOldestPos |-> nPos]
                ELSE [s EXCEPT !.bucket = shuffled]
        after[i \in 0 .. Len(bucket)] ==
            IF i = 0 THEN {[bucket |-> bucket, nOldest |-> NoAddr, nOldestPos |-> 0]}
            ELSE UNION {{Draw(s, i, nPos) : nPos \in i .. Len(bucket)} : s \in after[i - 1]}
    IN  after[IF InspectOnEvict < Len(bucket) THEN InspectOnEvict ELSE Len(bucket)]

\* Altered: the entry that is evicted enters no new bucket.
Evict_Nowhere(t, victim, home) ==
    [t EXCEPT !.mapInfo[victim] = [@ EXCEPT !.fInTried = FALSE, !.nRefCount = 1], !.nNew = @ + 1]

\* An entry of a tried bucket goes back to the new bucket home.
Evict(t, victim, home) ==
    [t EXCEPT !.mapInfo[victim] = [@ EXCEPT !.fInTried = FALSE, !.nRefCount = 1],
              !.vvNew[home] = @ \cup {victim}, !.nNew = @ + 1]

\* Altered: there is always room in the bucket of the evicted entry.
HomeOf_Own(t, victim, nOrigin) == GetNewBucket[victim][t.mapInfo[victim].source]

\* The new bucket that takes an evicted entry: its own, or if that is full
\* the one that has just lost an entry.
HomeOf(t, victim, nOrigin) ==
    LET own == GetNewBucket[victim][t.mapInfo[victim].source]
    IN  IF Cardinality(t.vvNew[own]) < NewBucketSize THEN own ELSE nOrigin

\* The entry a, in none of the new buckets any more, replaces one of a full
\* tried bucket.
Replaces(t, a, bucket, nOrigin) ==
    {LET victim == s.bucket[s.nOldestPos]
     IN  [Evict(t, victim, HomeOf(t, victim, nOrigin))
            EXCEPT !.vvTried[bucket] = [s.bucket EXCEPT ![s.nOldestPos] = a],
                   !.mapInfo[a].fInTried = TRUE]
        : s \in SelectTried(t, bucket)}

MakeTried(t, a, nOrigin) ==
    LET gone   == [t EXCEPT !.vvNew = [b \in NewBucket |-> @[b] \ {a}],
                            !.mapInfo[a].nRefCount =
                                @ - Cardinality({b \in NewBucket : a \in t.vvNew[b]}),
                            !.nNew = @ - 1]
        bucket == GetTriedBucket[a][t.mapInfo[a].port]
    IN  IF Len(gone.vvTried[bucket]) < TriedBucketSize
        THEN {[gone EXCEPT !.vvTried[bucket] = Append(@, a), !.nTried = @ + 1,
                           !.mapInfo[a].fInTried = TRUE]}
        ELSE Replaces(gone, a, bucket, nOrigin)

-----------------------------------------------------------------------------
(***************************************************************************)
(* The operations.  Each holds the lock cs from beginning to end.          *)
(***************************************************************************)
\* The end of Add_: a is referred to by one bucket more.
EntersBucket(t, a, b) ==
    IF a \in t.vvNew[b] THEN {t}
    ELSE LET counted == [t EXCEPT !.mapInfo[a].nRefCount = @ + 1]
         IN  {[s EXCEPT !.vvNew[b] = @ \cup {a}]
                : s \in IF Cardinality(counted.vvNew[b]) = NewBucketSize
                        THEN ShrinkNew(counted, b) ELSE {counted}}

\* Add_ of an address that is not known yet.
AddUnknown(a, port, source) ==
    /\ a \notin Known
    /\ \E t \in EntersBucket([Create(tables, a, port, source) EXCEPT !.nNew = @ + 1],
                             a, GetNewBucket[a][source]) : Become(t)

(***************************************************************************)
(* Add_ of a known one, with newer information and luck in the stochastic  *)
(* test (without them nothing changes here).                               *)
(***************************************************************************)
AddKnown(a, source) ==
    /\ a \in Known
    /\ ~mapInfo[a].fInTried
    /\ mapInfo[a].nRefCount # NewBucketsPerAddress
    /\ \E t \in EntersBucket(tables, a, GetNewBucket[a][source]) : Become(t)

\* Good_: a connection to the very same port has succeeded.
Good(a, port, nTime) ==
    /\ a \in Known /\ mapInfo[a].port = port
    /\ LET t == [tables EXCEPT !.mapInfo[a].nLastSuccess = nTime]
           origins == {b \in NewBucket : a \in vvNew[b]}
       IN  \/ /\ mapInfo[a].fInTried \/ origins = {}
              /\ Become(t)
           \/ /\ ~mapInfo[a].fInTried
              /\ \E nOrigin \in origins : \E u \in MakeTried(t, a, nOrigin) : Become(u)

\* The first nNodes places of vRandom, filled one after the other from those behind them.
Shuffled(t, nNodes) ==
    LET after[n \in 0 .. nNodes] ==
            IF n = 0 THEN {t}
            ELSE UNION {{SwapRandom(u, n, nRndPos) : nRndPos \in n .. Len(t.vRandom)} : u \in after[n - 1]}
    IN  after[nNodes]

\* GetAddr_: the first entries of vRandom are shuffled in.
GetAddr ==
    LET share  == (GetAddrMaxPct * Len(vRandom)) \div 100
        nNodes == IF share > GetAddrMax THEN GetAddrMax ELSE share
    IN  /\ nNodes > 0
        /\ \E t \in Shuffled(tables, nNodes) : Become(t)

-----------------------------------------------------------------------------
(***************************************************************************)
(* peers.dat.                                                              *)
(***************************************************************************)
\* Altered: each new entry is written to the bucket of its first source only.
Serialized_OneBucket(t) ==
    LET Of(tried) == [a \in {x \in DOMAIN t.mapInfo : t.mapInfo[x].fInTried = tried} |-> t.mapInfo[a]]
    IN  [new |-> Of(FALSE), tried |-> Of(TRUE),
         vvNew |-> [b \in NewBucket |->
                       {a \in DOMAIN Of(FALSE) : GetNewBucket[a][t.mapInfo[a].source] = b}]]

\* What is written: the entries by kind, without the members that are kept
\* "in memory only", and the new buckets.
Serialized(t) ==
    LET Written(entries) == [a \in entries |-> [t.mapInfo[a] EXCEPT !.nRefCount = 0,
                                                 !.fInTried = FALSE, !.nRandomPos = 0]]
    IN  [new   |-> Written({a \in DOMAIN t.mapInfo : t.mapInfo[a].nRefCount > 0}),
         tried |-> Written({a \in DOMAIN t.mapInfo : t.mapInfo[a].fInTried}),
         vvNew |-> t.vvNew]

\* The entries of s that are in S, in their order.
Those(s, S) ==
    LET after[i \in 0 .. Len(s)] ==
            IF i = 0 THEN << >>
            ELSE IF s[i] \in S THEN Append(after[i - 1], s[i]) ELSE after[i - 1]
    IN  after[Len(s)]

(***************************************************************************)
(* What is read back: new before tried ones (in the order of the ids they  *)
(* had, left open here), the tried buckets and all counts reconstructed.   *)
(* A tried entry for which its bucket has no room is lost.                 *)
(***************************************************************************)
Restore(file, newOrder, triedOrder) ==
    LET InBucket(b) ==
            Those(triedOrder, {a \in DOMAIN file.tried : GetTriedBucket[a][file.tried[a].port] = b})
        tried    == [b \in TriedBucket |->
                        SubSeq(InBucket(b), 1, IF Len(InBucket(b)) < TriedBucketSize
                                               THEN Len(InBucket(b)) ELSE TriedBucketSize)]
        kept     == Those(triedOrder, UNION {ToSet(tried[b]) : b \in TriedBucket})
        order    == newOrder \o kept
        Position(a) == CHOOSE i \in DOMAIN order : order[i] = a
    IN  [mapInfo |-> [a \in ToSet(order) |->
                         [(IF a \in DOMAIN file.new THEN file.new[a] ELSE file.tried[a])
                            EXCEPT !.nRefCount = Cardinality({b \in NewBucket : a \in file.vvNew[b]}),
                                   !.fInTried = a \notin DOMAIN file.new,
                                   !.nRandomPos = Position(a)]],
         vRandom |-> order, vvNew |-> file.vvNew, vvTried |-> tried,
         nNew |-> Cardinality(DOMAIN file.new), nTried |-> Len(kept)]

(***************************************************************************)
(* The process ends and starts again.  DumpAddresses (CAddrDB::Write)      *)
(* renames a finished file into place, every now and then and at the end;  *)
(* a process that was killed starts as if it had ended right after the     *)
(* last dump, so the dump and the start are one step.                      *)
(***************************************************************************)
RestartAddrMan ==
    LET file == Serialized(tables)
    IN  \E newOrder \in SetToSeqs(DOMAIN file.new), triedOrder \in SetToSeqs(DOMAIN file.tried) :
            Become(Restore(file, newOrder, triedOrder))

AddrManNext ==
    \/ \E a \in NetAddr, source \in Source :
        AddKnown(a, source) \/ \E port \in Port : AddUnknown(a, port, source)
    \/ \E a \in NetAddr, port \in Port, nTime \in 1 .. MaxTime : Good(a, port, nTime)
    \/ GetAddr
    \/ RestartAddrMan

AddrManSpec == AddrManInit /\ [][AddrManNext]_addrVars

-----------------------------------------------------------------------------
(***************************************************************************)
(* Properties.                                                             *)
(***************************************************************************)
AddrManTypeOK ==
    /\ Known \subseteq NetAddr /\ mapInfo \in [Known -> AddrInfo]
    /\ vRandom \in Seq(NetAddr)
    /\ vvNew \in [NewBucket -> SUBSET NetAddr]
    /\ vvTried \in [TriedBucket -> Seq(NetAddr)]
    /\ nNew \in Nat /\ nTried \in Nat

Tried == {a \in Known : mapInfo[a].fInTried}

(***************************************************************************)
(* What Check_() checks after each operation in builds with DEBUG_ADDRMAN: *)
(* an entry is in exactly one tried bucket, once, or in as many new        *)
(* buckets as its count says; counts and random order agree with that.     *)
(***************************************************************************)
CheckPasses ==
    /\ Len(vRandom) = nNew + nTried
    /\ nTried = Cardinality(Tried) /\ nNew = Cardinality(Known \ Tried)
    /\ \A a \in Known :
        /\ mapInfo[a].nRandomPos \in DOMAIN vRandom /\ vRandom[mapInfo[a].nRandomPos] = a
        /\ mapInfo[a].nRefCount = Cardinality({b \in NewBucket : a \in vvNew[b]})
        /\ IF mapInfo[a].fInTried
           THEN mapInfo[a].nRefCount = 0 /\ mapInfo[a].nLastSuccess > 0
           ELSE mapInfo[a].nRefCount \in 1 .. NewBucketsPerAddress
    /\ \A b \in NewBucket : vvNew[b] \subseteq Known
    /\ \A b \in TriedBucket :
        /\ ToSet(vvTried[b]) = {a \in Tried : GetTriedBucket[a][mapInfo[a].port] = b}
        /\ IsInjective(vvTried[b])

(***************************************************************************)
(* "Only keep a limited number of addresses": no bucket outgrows its size, *)
(* also when an entry is moved back to a new bucket that may be full       *)
(* ("there is certainly place there").                                     *)
(***************************************************************************)
BucketsAreBounded ==
    /\ \A b \in NewBucket : Cardinality(vvNew[b]) <= NewBucketSize
    /\ \A b \in TriedBucket : Len(vvTried[b]) <= TriedBucketSize

(***************************************************************************)
(* A node that is stopped after a dump comes back with the same entries in *)
(* the same buckets: nothing that is only in memory is needed, and no      *)
(* tried entry is lost to a full bucket.                                   *)
(***************************************************************************)
DumpLosesNothing ==
    \A newOrder \in SetToSeqs(Known \ Tried), triedOrder \in SetToSeqs(Tried) :
        LET t == Restore(Serialized(tables), newOrder, triedOrder)
        IN  /\ t.vvNew = vvNew
            /\ \A b \in TriedBucket : ToSet(t.vvTried[b]) = ToSet(vvTried[b])
            /\ t.nNew = nNew /\ t.nTried = nTried
            /\ DOMAIN t.mapInfo = Known
            /\ \A a \in Known : [t.mapInfo[a] EXCEPT !.nRandomPos = 0] = [mapInfo[a] EXCEPT !.nRandomPos = 0]

(***************************************************************************)
(* "They are never deleted while in the tried table, only possibly evicted *)
(* back to the new table" (addrman.h): what was connected to once is known *)
(* as long as the process runs, or was in a new bucket again in between.   *)
(***************************************************************************)
TriedAreNotDeleted ==
    [][RestartAddrMan \/ (Tried \subseteq Known' /\ \A a \in Tried : a \notin Tried' => \E b \in NewBucket : a \in vvNew'[b])]_addrVars

(***************************************************************************)
(* SelectTried is to "find the least recently tried among them", the       *)
(* entries it inspects: the place it returns should hold that entry.       *)
(***************************************************************************)
OldestInspectedIsEvicted ==
    \A b \in TriedBucket : \A s \in SelectTried(tables, b) :
        Len(vvTried[b]) = TriedBucketSize => s.bucket[s.nOldestPos] = s.nOldest

(***************************************************************************)
(* All of it: the tables are one table, within their bounds, and survive   *)
(* a restart.                                                              *)
(***************************************************************************)
TablesAreSound == AddrManTypeOK /\ CheckPasses /\ BucketsAreBounded /\ DumpLosesNothing

=============================================================================
