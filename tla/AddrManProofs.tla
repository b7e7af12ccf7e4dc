--------------------------- MODULE AddrManProofs ----------------------------
(***************************************************************************)
(* Proofs about AddrMan: the buckets, the counts and the random order of   *)
(* the address manager are one table after every operation, within their   *)
(* bounds, and read back whole from peers.dat, for any addresses and any   *)
(* hashes and sizes of the buckets.                                        *)
(*                                                                         *)
(* The operations are functions from tables to tables, so the invariant is *)
(* a property of tables (AddrIsRight), and each helper has the lemma that  *)
(* says what it makes of tables that are right.  In the middle of Add_ the *)
(* tables owe a reference (Owes): the entry is counted before the bucket   *)
(* has it.                                                                 *)
(***************************************************************************)
EXTENDS AddrMan, Iteration, FiniteSetTheorems, TLAPS

-----------------------------------------------------------------------------
Tables == [mapInfo : UNION {[K -> AddrInfo] : K \in SUBSET NetAddr}, vRandom : Seq(NetAddr),
           vvNew : [NewBucket -> SUBSET NetAddr], vvTried : [TriedBucket -> Seq(NetAddr)],
           nNew : Nat, nTried : Nat]

Entries(t) == DOMAIN t.mapInfo
TriedIn(t) == {a \in Entries(t) : t.mapInfo[a].fInTried}
BucketsOf(t, a) == {b \in NewBucket : a \in t.vvNew[b]}

\* vRandom and nRandomPos are each other's inverse.
RandomIsRight(t) ==
    /\ \A a \in Entries(t) : t.mapInfo[a].nRandomPos \in 1 .. Len(t.vRandom)
                             /\ t.vRandom[t.mapInfo[a].nRandomPos] = a
    /\ \A i \in 1 .. Len(t.vRandom) :
          t.vRandom[i] \in Entries(t) /\ t.mapInfo[t.vRandom[i]].nRandomPos = i

\* The counts of the entries of each kind.
CountsAreRight(t) ==
    /\ IsFiniteSet(Entries(t))
    /\ t.nTried = Cardinality(TriedIn(t))
    /\ t.nNew = Cardinality(Entries(t) \ TriedIn(t))

\* Each count of references is right, but due is counted once more than it is referred to.
ReferencesAreRight(t, due) ==
    \A a \in Entries(t) :
        t.mapInfo[a].nRefCount = Cardinality(BucketsOf(t, a)) + (IF a = due THEN 1 ELSE 0)

\* A tried entry is in no new bucket, a new one in at least one.
KindsAreRight(t) ==
    \A a \in Entries(t) :
        IF t.mapInfo[a].fInTried THEN t.mapInfo[a].nRefCount = 0 /\ t.mapInfo[a].nLastSuccess > 0
        ELSE t.mapInfo[a].nRefCount \in 1 .. NewBucketsPerAddress

NewIsRight(t) ==
    \A b \in NewBucket : t.vvNew[b] \subseteq Entries(t) /\ Cardinality(t.vvNew[b]) <= NewBucketSize

Belongs(t, b) == {a \in TriedIn(t) : GetTriedBucket[a][t.mapInfo[a].port] = b}

TriedIsRight(t) ==
    \A b \in TriedBucket :
        /\ ToSet(t.vvTried[b]) = Belongs(t, b)
        /\ IsInjective(t.vvTried[b])
        /\ Len(t.vvTried[b]) <= TriedBucketSize

Owes(t, due) ==
    /\ t \in Tables
    /\ RandomIsRight(t) /\ CountsAreRight(t) /\ ReferencesAreRight(t, due) /\ KindsAreRight(t)
    /\ NewIsRight(t) /\ TriedIsRight(t)

\* No operation leaves anything owed.
AddrIsRight(t) == Owes(t, NoAddr)

\* The sizes are positive.
LEMMA Sizes ==
  /\ NewBucketSize \in Nat \ {0} /\ TriedBucketSize \in Nat \ {0}
  /\ NewBucketsPerAddress \in Nat \ {0} /\ InspectOnEvict \in Nat \ {0}
  BY AddrManAssumption

\* What the type of the tables says of an entry.
LEMMA EntryTypes ==
  ASSUME NEW t \in Tables
  PROVE  /\ Entries(t) \subseteq NetAddr /\ t.mapInfo \in [Entries(t) -> AddrInfo]
         /\ \A a \in Entries(t) : t.mapInfo[a] \in AddrInfo
         /\ t.vRandom \in Seq(NetAddr) /\ t.vvNew \in [NewBucket -> SUBSET NetAddr]
         /\ t.vvTried \in [TriedBucket -> Seq(NetAddr)] /\ t.nNew \in Nat /\ t.nTried \in Nat
         /\ NoAddr \notin Entries(t)
<1>1. PICK K \in SUBSET NetAddr : t.mapInfo \in [K -> AddrInfo]
  BY DEF Tables
<1>2. Entries(t) = K
  BY <1>1 DEF Entries
<1>3. /\ t.vRandom \in Seq(NetAddr) /\ t.vvNew \in [NewBucket -> SUBSET NetAddr]
      /\ t.vvTried \in [TriedBucket -> Seq(NetAddr)] /\ t.nNew \in Nat /\ t.nTried \in Nat
  BY DEF Tables
<1> QED
  BY <1>1, <1>2, <1>3, AddrManAssumption

\* The members of an entry.
LEMMA EntryMembers ==
  ASSUME NEW e \in AddrInfo
  PROVE  /\ e.port \in Port /\ e.source \in Source /\ e.nLastSuccess \in 0 .. MaxTime
         /\ e.nRefCount \in Nat /\ e.fInTried \in BOOLEAN /\ e.nRandomPos \in Nat
  BY DEF AddrInfo

\* An entry with another place.
LEMMA EntryMoved ==
  ASSUME NEW e \in AddrInfo, NEW p \in Nat, NEW f, f = [e EXCEPT !.nRandomPos = p]
  PROVE  /\ f \in AddrInfo /\ f.port = e.port /\ f.source = e.source /\ f.nLastSuccess = e.nLastSuccess
         /\ f.nRefCount = e.nRefCount /\ f.fInTried = e.fInTried /\ f.nRandomPos = p
  BY DEF AddrInfo

\* An entry with another count.
LEMMA EntryCounted ==
  ASSUME NEW e \in AddrInfo, NEW n \in Nat, NEW f, f = [e EXCEPT !.nRefCount = n]
  PROVE  /\ f \in AddrInfo /\ f.port = e.port /\ f.source = e.source /\ f.nLastSuccess = e.nLastSuccess
         /\ f.nRefCount = n /\ f.fInTried = e.fInTried /\ f.nRandomPos = e.nRandomPos
  BY DEF AddrInfo

\* An entry with another time of success.
LEMMA EntrySucceeded ==
  ASSUME NEW e \in AddrInfo, NEW n \in 0 .. MaxTime, NEW f, f = [e EXCEPT !.nLastSuccess = n]
  PROVE  /\ f \in AddrInfo /\ f.port = e.port /\ f.source = e.source /\ f.nLastSuccess = n
         /\ f.nRefCount = e.nRefCount /\ f.fInTried = e.fInTried /\ f.nRandomPos = e.nRandomPos
  BY DEF AddrInfo

\* Tables that are made of parts of the right types.
LEMMA TablesAre ==
  ASSUME NEW t, NEW K \in SUBSET NetAddr, NEW info \in [K -> AddrInfo], NEW random \in Seq(NetAddr),
         NEW new \in [NewBucket -> SUBSET NetAddr], NEW tried \in [TriedBucket -> Seq(NetAddr)],
         NEW n \in Nat, NEW m \in Nat,
         t = [mapInfo |-> info, vRandom |-> random, vvNew |-> new, vvTried |-> tried,
              nNew |-> n, nTried |-> m]
  PROVE  t \in Tables /\ Entries(t) = K
  BY DEF Tables, Entries

\* What a bucket refers to is finite, and so are the buckets that refer to an entry.
LEMMA BucketsAreFinite ==
  ASSUME NEW t \in Tables
  PROVE  /\ \A a : IsFiniteSet(BucketsOf(t, a)) /\ Cardinality(BucketsOf(t, a)) \in Nat
         /\ CountsAreRight(t) /\ NewIsRight(t) =>
                \A b \in NewBucket : IsFiniteSet(t.vvNew[b]) /\ Cardinality(t.vvNew[b]) \in Nat
<1>1. ASSUME NEW a PROVE IsFiniteSet(BucketsOf(t, a)) /\ Cardinality(BucketsOf(t, a)) \in Nat
  <2>1. BucketsOf(t, a) \in SUBSET NewBucket
    BY DEF BucketsOf
  <2> QED
    BY <2>1, FS_Subset, FS_CardinalityType, AddrManAssumption
<1>2. ASSUME CountsAreRight(t), NewIsRight(t), NEW b \in NewBucket
      PROVE  IsFiniteSet(t.vvNew[b]) /\ Cardinality(t.vvNew[b]) \in Nat
  <2>1. t.vvNew[b] \in SUBSET Entries(t) /\ IsFiniteSet(Entries(t))
    BY <1>2 DEF CountsAreRight, NewIsRight
  <2> QED
    BY <2>1, FS_Subset, FS_CardinalityType
<1> QED
  BY <1>1, <1>2

\* Every entry has one place of vRandom: as many places as entries.
LEMMA RandomLength ==
  ASSUME NEW t \in Tables, RandomIsRight(t), CountsAreRight(t)
  PROVE  Len(t.vRandom) = t.nNew + t.nTried
<1> DEFINE n == Len(t.vRandom)
           K == Entries(t)
<1>1. n \in Nat /\ t.vRandom \in [1 .. n -> K]
  <2>1. t.vRandom \in Seq(NetAddr)
    BY EntryTypes
  <2> QED
    BY <2>1 DEF RandomIsRight
<1>2. t.vRandom \in Injection(1 .. n, K)
  BY <1>1 DEF RandomIsRight, Injection, IsInjective
<1>3. t.vRandom \in Surjection(1 .. n, K)
  BY <1>1 DEF RandomIsRight, Surjection
<1>4. Cardinality(K) = n
  <2>1. ExistsBijection(1 .. n, K)
    BY <1>2, <1>3 DEF ExistsBijection, Bijection
  <2> QED
    BY <1>1, <2>1, FS_CountingElements
<1>5. Cardinality(K \ TriedIn(t)) = Cardinality(K) - Cardinality(TriedIn(t))
  <2>1. IsFiniteSet(K) /\ TriedIn(t) \in SUBSET K
    BY DEF CountsAreRight, TriedIn
  <2>2. K \cap TriedIn(t) = TriedIn(t)
    BY <2>1
  <2> QED
    BY <2>1, <2>2, FS_Difference
<1>6. t.nNew \in Nat /\ t.nTried \in Nat
  BY EntryTypes
<1> QED
  BY <1>1, <1>4, <1>5, <1>6 DEF CountsAreRight

-----------------------------------------------------------------------------
\* u is t with its entries in another random order.
Reordered(t, u) ==
    /\ u \in Tables /\ Entries(u) = Entries(t) /\ Len(u.vRandom) = Len(t.vRandom)
    /\ u.vvNew = t.vvNew /\ u.vvTried = t.vvTried /\ u.nNew = t.nNew /\ u.nTried = t.nTried
    /\ \A a \in Entries(t) :
        /\ u.mapInfo[a].port = t.mapInfo[a].port /\ u.mapInfo[a].source = t.mapInfo[a].source
        /\ u.mapInfo[a].nLastSuccess = t.mapInfo[a].nLastSuccess
        /\ u.mapInfo[a].nRefCount = t.mapInfo[a].nRefCount
        /\ u.mapInfo[a].fInTried = t.mapInfo[a].fInTried

\* The order matters to nothing but vRandom and nRandomPos.
LEMMA ReorderedIsRight ==
  ASSUME NEW t \in Tables, NEW u, NEW due, Owes(t, due), Reordered(t, u), RandomIsRight(u)
  PROVE  Owes(u, due) /\ TriedIn(u) = TriedIn(t)
<1>1. TriedIn(u) = TriedIn(t)
  BY DEF TriedIn, Reordered
<1>2. CountsAreRight(u)
  BY <1>1 DEF Owes, CountsAreRight, Reordered
<1>3. ReferencesAreRight(u, due)
  <2>1. \A a : BucketsOf(u, a) = BucketsOf(t, a)
    BY DEF BucketsOf, Reordered
  <2> QED
    BY <2>1 DEF Owes, ReferencesAreRight, Reordered
<1>4. KindsAreRight(u)
  BY DEF Owes, KindsAreRight, Reordered
<1>5. NewIsRight(u)
  BY DEF Owes, NewIsRight, Reordered
<1>6. TriedIsRight(u)
  <2>1. \A b : Belongs(u, b) = Belongs(t, b)
    BY <1>1 DEF Belongs, TriedIn, Reordered
  <2> QED
    BY <2>1 DEF Owes, TriedIsRight, Reordered
<1> QED
  BY <1>1, <1>2, <1>3, <1>4, <1>5, <1>6 DEF Owes, Reordered

\* Two places of the random order change their entries, which know of it.
LEMMA SwapIsRight ==
  ASSUME NEW t \in Tables, RandomIsRight(t), NEW i \in 1 .. Len(t.vRandom), NEW j \in 1 .. Len(t.vRandom)
  PROVE  LET u == SwapRandom(t, i, j)
         IN  Reordered(t, u) /\ RandomIsRight(u) /\ u.vRandom[j] = t.vRandom[i]
<1> DEFINE u == SwapRandom(t, i, j)
           x == t.vRandom[i]
           y == t.vRandom[j]
<1>0. SUFFICES Reordered(t, u) /\ RandomIsRight(u) /\ u.vRandom[j] = x
  OBVIOUS
<1>1. /\ x \in Entries(t) /\ y \in Entries(t) /\ t.mapInfo[x].nRandomPos = i /\ t.mapInfo[y].nRandomPos = j
      /\ Len(t.vRandom) \in Nat
  BY EntryTypes DEF RandomIsRight
<1>2. CASE i = j
  <2>1. u = t
    BY <1>2 DEF SwapRandom
  <2> QED
    BY <1>2, <2>1 DEF Reordered
<1>3. CASE i # j
  <2>1. x # y
    BY <1>1, <1>3
  <2> DEFINE info == [[t.mapInfo EXCEPT ![x].nRandomPos = j] EXCEPT ![y].nRandomPos = i]
             random == [t.vRandom EXCEPT ![i] = y, ![j] = x]
  <2>2. u = [t EXCEPT !.vRandom = random, !.mapInfo = info]
    BY <1>3 DEF SwapRandom
  <2>3. /\ DOMAIN info = Entries(t)
        /\ \A a \in Entries(t) : info[a] = IF a = y THEN [t.mapInfo[a] EXCEPT !.nRandomPos = i]
                                           ELSE IF a = x THEN [t.mapInfo[a] EXCEPT !.nRandomPos = j]
                                           ELSE t.mapInfo[a]
    BY <1>1, <2>1, EntryTypes
  <2>4. random \in Seq(NetAddr) /\ Len(random) = Len(t.vRandom)
        /\ \A k \in 1 .. Len(t.vRandom) : random[k] = IF k = j THEN x ELSE IF k = i THEN y ELSE t.vRandom[k]
    BY <1>1, <1>3, EntryTypes
  <2> HIDE DEF info, random
  <2>5. info \in [Entries(t) -> AddrInfo]
        /\ \A a \in Entries(t) :
              /\ info[a].port = t.mapInfo[a].port /\ info[a].source = t.mapInfo[a].source
              /\ info[a].nLastSuccess = t.mapInfo[a].nLastSuccess
              /\ info[a].nRefCount = t.mapInfo[a].nRefCount
              /\ info[a].fInTried = t.mapInfo[a].fInTried
              /\ info[a].nRandomPos = IF a = y THEN i ELSE IF a = x THEN j ELSE t.mapInfo[a].nRandomPos
    <3>1. info = [a \in Entries(t) |-> info[a]]
      BY <2>3 DEF info
    <3>2. ASSUME NEW a \in Entries(t)
          PROVE  /\ info[a] \in AddrInfo
                 /\ info[a].port = t.mapInfo[a].port /\ info[a].source = t.mapInfo[a].source
                 /\ info[a].nLastSuccess = t.mapInfo[a].nLastSuccess
                 /\ info[a].nRefCount = t.mapInfo[a].nRefCount
                 /\ info[a].fInTried = t.mapInfo[a].fInTried
                 /\ info[a].nRandomPos = IF a = y THEN i ELSE IF a = x THEN j ELSE t.mapInfo[a].nRandomPos
      <4>1. t.mapInfo[a] \in AddrInfo /\ i \in Nat /\ j \in Nat
        BY <1>1, EntryTypes
      <4>2. CASE a = y
        <5>1. info[a] = [t.mapInfo[a] EXCEPT !.nRandomPos = i]
          BY <2>3, <4>2
        <5> QED
          BY <4>1, <4>2, <5>1, EntryMoved
      <4>3. CASE a # y /\ a = x
        <5>1. info[a] = [t.mapInfo[a] EXCEPT !.nRandomPos = j]
          BY <2>3, <4>3
        <5> QED
          BY <4>1, <4>3, <5>1, EntryMoved
      <4>4. CASE a # y /\ a # x
        BY <2>3, <4>1, <4>4
      <4> QED
        BY <4>2, <4>3, <4>4
    <3> QED
      BY <3>1, <3>2
  <2>6. u.mapInfo = info /\ u.vRandom = random /\ u.vvNew = t.vvNew /\ u.vvTried = t.vvTried
        /\ u.nNew = t.nNew /\ u.nTried = t.nTried /\ u \in Tables /\ Entries(u) = Entries(t)
    <3>1. t = [mapInfo |-> t.mapInfo, vRandom |-> t.vRandom, vvNew |-> t.vvNew,
               vvTried |-> t.vvTried, nNew |-> t.nNew, nTried |-> t.nTried]
      BY DEF Tables
    <3>2. u = [mapInfo |-> info, vRandom |-> random, vvNew |-> t.vvNew,
               vvTried |-> t.vvTried, nNew |-> t.nNew, nTried |-> t.nTried]
      BY <2>2, <3>1
    <3> HIDE DEF u
    <3> QED
      BY <2>4, <2>5, <3>2, EntryTypes, TablesAre
  <2> HIDE DEF u
  <2>7. Reordered(t, u)
    BY <2>4, <2>5, <2>6 DEF Reordered
  <2>9. RandomIsRight(u)
    <3>1. ASSUME NEW a \in Entries(t)
          PROVE  info[a].nRandomPos \in 1 .. Len(t.vRandom) /\ random[info[a].nRandomPos] = a
      <4>1. t.mapInfo[a].nRandomPos \in 1 .. Len(t.vRandom) /\ t.vRandom[t.mapInfo[a].nRandomPos] = a
        BY DEF RandomIsRight
      <4> QED
        BY <1>1, <1>3, <2>1, <2>4, <2>5, <4>1
    <3>2. ASSUME NEW k \in 1 .. Len(t.vRandom)
          PROVE  random[k] \in Entries(t) /\ info[random[k]].nRandomPos = k
      <4>1. t.vRandom[k] \in Entries(t) /\ t.mapInfo[t.vRandom[k]].nRandomPos = k
        BY DEF RandomIsRight
      <4> QED
        BY <1>1, <1>3, <2>1, <2>4, <2>5, <4>1
    <3> QED
      BY <2>4, <2>6, <3>1, <3>2 DEF RandomIsRight
  <2> QED
    BY <2>4, <2>6, <2>7, <2>9
<1> QED
  BY <1>2, <1>3

-----------------------------------------------------------------------------
\* The members of tables, put together again.
LEMMA TablesShape ==
  ASSUME NEW t \in Tables
  PROVE  t = [mapInfo |-> t.mapInfo, vRandom |-> t.vRandom, vvNew |-> t.vvNew,
              vvTried |-> t.vvTried, nNew |-> t.nNew, nTried |-> t.nTried]
  BY DEF Tables

\* An entry in a new bucket is not tried, and its count is not zero.
LEMMA NewEntries ==
  ASSUME NEW t, NEW due, Owes(t, due), NEW b \in NewBucket, NEW a \in t.vvNew[b]
  PROVE  a \in Entries(t) /\ ~t.mapInfo[a].fInTried /\ t.mapInfo[a].nRefCount \in 1 .. NewBucketsPerAddress
<1>1. a \in Entries(t) /\ t \in Tables
  BY DEF Owes, NewIsRight
<1>2. b \in BucketsOf(t, a)
  BY DEF BucketsOf
<1>3. Cardinality(BucketsOf(t, a)) # 0 /\ Cardinality(BucketsOf(t, a)) \in Nat
  BY <1>1, <1>2, BucketsAreFinite, FS_EmptySet
<1>4. t.mapInfo[a].nRefCount # 0
  BY <1>1, <1>3 DEF Owes, ReferencesAreRight
<1> QED
  BY <1>1, <1>4 DEF Owes, KindsAreRight

\* The tried buckets are right as long as nothing about the tried entries changes.
LEMMA TriedStaysRight ==
  ASSUME NEW t, NEW u, TriedIsRight(t), u.vvTried = t.vvTried, TriedIn(u) = TriedIn(t),
         \A a \in TriedIn(t) : u.mapInfo[a].port = t.mapInfo[a].port
  PROVE  TriedIsRight(u)
<1>1. \A b : Belongs(u, b) = Belongs(t, b)
  BY DEF Belongs
<1> QED
  BY <1>1 DEF TriedIsRight

\* u is t with another count of references for a.
Recounted(t, u, a, n) ==
    u = [t EXCEPT !.mapInfo = [t.mapInfo EXCEPT ![a] = [t.mapInfo[a] EXCEPT !.nRefCount = n]]]

\* Nothing else is changed by a count.
LEMMA RecountedFacts ==
  ASSUME NEW t \in Tables, NEW a \in Entries(t), NEW n \in Nat, NEW u, Recounted(t, u, a, n)
  PROVE  /\ u \in Tables /\ Entries(u) = Entries(t) /\ u.vRandom = t.vRandom /\ u.vvNew = t.vvNew
         /\ u.vvTried = t.vvTried /\ u.nNew = t.nNew /\ u.nTried = t.nTried
         /\ \A x \in Entries(t) :
               /\ u.mapInfo[x].port = t.mapInfo[x].port /\ u.mapInfo[x].source = t.mapInfo[x].source
               /\ u.mapInfo[x].nLastSuccess = t.mapInfo[x].nLastSuccess
               /\ u.mapInfo[x].fInTried = t.mapInfo[x].fInTried
               /\ u.mapInfo[x].nRandomPos = t.mapInfo[x].nRandomPos
               /\ u.mapInfo[x].nRefCount = IF x = a THEN n ELSE t.mapInfo[x].nRefCount
         /\ TriedIn(u) = TriedIn(t) /\ \A x : BucketsOf(u, x) = BucketsOf(t, x)
<1> DEFINE info == [t.mapInfo EXCEPT ![a] = [t.mapInfo[a] EXCEPT !.nRefCount = n]]
<1>1. \A x \in Entries(t) : t.mapInfo[x] \in AddrInfo
  BY EntryTypes
<1>2. /\ info = [x \in Entries(t) |-> info[x]]
      /\ \A x \in Entries(t) : info[x] = IF x = a THEN [t.mapInfo[a] EXCEPT !.nRefCount = n] ELSE t.mapInfo[x]
  BY EntryTypes
<1>3. u = [mapInfo |-> info, vRandom |-> t.vRandom, vvNew |-> t.vvNew, vvTried |-> t.vvTried,
           nNew |-> t.nNew, nTried |-> t.nTried]
  <2> HIDE DEF info
  <2>1. u = [t EXCEPT !.mapInfo = info]
    BY DEF Recounted, info
  <2> QED
    BY <2>1, TablesShape
<1> HIDE DEF info
<1>4. ASSUME NEW x \in Entries(t)
      PROVE  /\ info[x] \in AddrInfo
             /\ info[x].port = t.mapInfo[x].port /\ info[x].source = t.mapInfo[x].source
             /\ info[x].nLastSuccess = t.mapInfo[x].nLastSuccess
             /\ info[x].fInTried = t.mapInfo[x].fInTried
             /\ info[x].nRandomPos = t.mapInfo[x].nRandomPos
             /\ info[x].nRefCount = IF x = a THEN n ELSE t.mapInfo[x].nRefCount
  <2>1. CASE x = a
    <3>1. info[x] = [t.mapInfo[x] EXCEPT !.nRefCount = n]
      BY <1>2, <2>1
    <3> QED
      BY <1>1, <2>1, <3>1, EntryCounted
  <2>2. CASE x # a
    BY <1>1, <1>2, <2>2
  <2> QED
    BY <2>1, <2>2
<1>5. info \in [Entries(t) -> AddrInfo]
  BY <1>2, <1>4
<1>6. /\ u.mapInfo = info /\ u.vRandom = t.vRandom /\ u.vvNew = t.vvNew
      /\ u.vvTried = t.vvTried /\ u.nNew = t.nNew /\ u.nTried = t.nTried
  BY <1>3
<1>7. u \in Tables /\ Entries(u) = Entries(t)
  BY <1>3, <1>5, EntryTypes, TablesAre
<1>8. TriedIn(u) = TriedIn(t)
  BY <1>4, <1>6, <1>7 DEF TriedIn
<1>9. \A x : BucketsOf(u, x) = BucketsOf(t, x)
  BY <1>6 DEF BucketsOf
<1> QED
  BY <1>4, <1>6, <1>7, <1>8, <1>9

\* u is t with one reference more to a.
Counts(t, u, a) == u = [t EXCEPT !.mapInfo[a].nRefCount = @ + 1]

\* Before a enters a bucket it is counted once more than it is referred to.
LEMMA CountedIsRight ==
  ASSUME NEW t, AddrIsRight(t), NEW a \in Entries(t), ~t.mapInfo[a].fInTried,
         t.mapInfo[a].nRefCount # NewBucketsPerAddress, NEW u, Counts(t, u, a)
  PROVE  Owes(u, a) /\ Entries(u) = Entries(t) /\ TriedIn(u) = TriedIn(t) /\ u.vvNew = t.vvNew
<1> DEFINE n == t.mapInfo[a].nRefCount + 1
<1>1. t \in Tables
  BY DEF AddrIsRight, Owes
<1>2. n \in 1 .. NewBucketsPerAddress
  <2>1. t.mapInfo[a].nRefCount \in 1 .. NewBucketsPerAddress
    BY DEF AddrIsRight, Owes, KindsAreRight
  <2> QED
    BY <2>1, Sizes
<1>3. Recounted(t, u, a, n)
  BY DEF Recounted, Counts
<1> HIDE DEF n
<1>4. /\ u \in Tables /\ Entries(u) = Entries(t) /\ u.vRandom = t.vRandom /\ u.vvNew = t.vvNew
      /\ u.vvTried = t.vvTried /\ u.nNew = t.nNew /\ u.nTried = t.nTried
      /\ \A x \in Entries(t) :
            /\ u.mapInfo[x].port = t.mapInfo[x].port /\ u.mapInfo[x].source = t.mapInfo[x].source
            /\ u.mapInfo[x].nLastSuccess = t.mapInfo[x].nLastSuccess
            /\ u.mapInfo[x].fInTried = t.mapInfo[x].fInTried
            /\ u.mapInfo[x].nRandomPos = t.mapInfo[x].nRandomPos
            /\ u.mapInfo[x].nRefCount = IF x = a THEN n ELSE t.mapInfo[x].nRefCount
      /\ TriedIn(u) = TriedIn(t) /\ \A x : BucketsOf(u, x) = BucketsOf(t, x)
  BY <1>1, <1>2, <1>3, RecountedFacts
<1>5. RandomIsRight(u)
  BY <1>4 DEF AddrIsRight, Owes, RandomIsRight
<1>6. CountsAreRight(u)
  BY <1>4 DEF AddrIsRight, Owes, CountsAreRight
<1>7. ReferencesAreRight(u, a)
  <2>1. NoAddr \notin Entries(t)
    BY <1>1, EntryTypes
  <2>2. \A x \in Entries(t) : t.mapInfo[x].nRefCount = Cardinality(BucketsOf(t, x)) + 0
    BY <2>1 DEF AddrIsRight, Owes, ReferencesAreRight
  <2>3. \A x : Cardinality(BucketsOf(t, x)) \in Nat
    BY <1>1, BucketsAreFinite
  <2> QED
    BY <1>4, <2>2, <2>3 DEF ReferencesAreRight, n
<1>8. KindsAreRight(u)
  <2> SUFFICES ASSUME NEW x \in Entries(u)
               PROVE  IF u.mapInfo[x].fInTried THEN u.mapInfo[x].nRefCount = 0 /\ u.mapInfo[x].nLastSuccess > 0
                      ELSE u.mapInfo[x].nRefCount \in 1 .. NewBucketsPerAddress
    BY DEF KindsAreRight
  <2>1. CASE x = a
    BY <1>2, <1>4, <2>1
  <2>2. CASE x # a
    BY <1>4, <2>2 DEF AddrIsRight, Owes, KindsAreRight
  <2> QED
    BY <2>1, <2>2
<1>9. NewIsRight(u)
  BY <1>4 DEF AddrIsRight, Owes, NewIsRight
<1>10. TriedIsRight(u)
  <2>1. TriedIsRight(t) /\ TriedIn(t) \subseteq Entries(t)
    BY DEF AddrIsRight, Owes, TriedIn
  <2> QED
    BY <1>4, <2>1, TriedStaysRight
<1> QED
  BY <1>4, <1>5, <1>6, <1>7, <1>8, <1>9, <1>10 DEF Owes

\* c is t with a new entry for a, that no bucket refers to.
Creates(t, c, a, port, source) == c = [Create(t, a, port, source) EXCEPT !.nNew = @ + 1]

\* A new entry is counted once, and referred to by the bucket it enters next.
LEMMA CreatedIsRight ==
  ASSUME NEW t, AddrIsRight(t), NEW a \in NetAddr \ Entries(t), NEW port \in Port, NEW source \in Source,
         NEW c, Creates(t, c, a, port, source), NEW u, Counts(c, u, a)
  PROVE  Owes(u, a) /\ Entries(u) = Entries(t) \cup {a} /\ TriedIn(u) = TriedIn(t) /\ c.vvNew = t.vvNew
         /\ u.vvNew = t.vvNew
<1> DEFINE fresh == [port |-> port, source |-> source, nLastSuccess |-> 0,
                     nRefCount |-> 0, fInTried |-> FALSE, nRandomPos |-> Len(t.vRandom) + 1]
           info == With(t.mapInfo, a, fresh)
           random == Append(t.vRandom, a)
<1>1. /\ t \in Tables /\ RandomIsRight(t) /\ CountsAreRight(t) /\ ReferencesAreRight(t, NoAddr)
      /\ KindsAreRight(t) /\ NewIsRight(t) /\ TriedIsRight(t)
  BY DEF AddrIsRight, Owes
<1>2. /\ Entries(t) \subseteq NetAddr /\ t.mapInfo \in [Entries(t) -> AddrInfo]
      /\ t.vRandom \in Seq(NetAddr) /\ t.vvNew \in [NewBucket -> SUBSET NetAddr]
      /\ t.vvTried \in [TriedBucket -> Seq(NetAddr)] /\ t.nNew \in Nat /\ t.nTried \in Nat
      /\ NoAddr \notin Entries(t) /\ Len(t.vRandom) \in Nat
  BY <1>1, EntryTypes
<1>3. fresh \in AddrInfo
  BY <1>2, AddrManAssumption DEF AddrInfo
<1>4. info \in [Entries(t) \cup {a} -> AddrInfo] /\ info[a] = fresh
      /\ \A x \in Entries(t) : info[x] = t.mapInfo[x]
  BY <1>2, <1>3 DEF With, Entries
<1>5. random \in Seq(NetAddr) /\ Len(random) = Len(t.vRandom) + 1 /\ random[Len(t.vRandom) + 1] = a
      /\ \A i \in 1 .. Len(t.vRandom) : random[i] = t.vRandom[i]
  BY <1>2
<1>6. c = [mapInfo |-> info, vRandom |-> random, vvNew |-> t.vvNew, vvTried |-> t.vvTried,
           nNew |-> t.nNew + 1, nTried |-> t.nTried]
  <2> HIDE DEF info, random
  <2>1. Create(t, a, port, source) = [t EXCEPT !.mapInfo = info, !.vRandom = random]
    BY DEF Create, info, random
  <2>2. t = [mapInfo |-> t.mapInfo, vRandom |-> t.vRandom, vvNew |-> t.vvNew,
             vvTried |-> t.vvTried, nNew |-> t.nNew, nTried |-> t.nTried]
    BY <1>1, TablesShape
  <2>3. Create(t, a, port, source)
          = [mapInfo |-> info, vRandom |-> random, vvNew |-> t.vvNew, vvTried |-> t.vvTried,
             nNew |-> t.nNew, nTried |-> t.nTried]
    BY <2>1, <2>2
  <2> QED
    BY <2>3 DEF Creates
<1> HIDE DEF info, random
<1>7. c \in Tables /\ Entries(c) = Entries(t) \cup {a}
  <2>1. Entries(t) \cup {a} \in SUBSET NetAddr /\ t.nNew + 1 \in Nat
    BY <1>2
  <2> QED
    BY <1>2, <1>4, <1>5, <1>6, <2>1, TablesAre
<1>8. Recounted(c, u, a, 1)
  <2>1. c.mapInfo = info /\ info[a].nRefCount = 0
    BY <1>4, <1>6
  <2>2. u = [c EXCEPT !.mapInfo[a].nRefCount = c.mapInfo[a].nRefCount + 1]
    BY DEF Counts
  <2>3. c.mapInfo[a].nRefCount + 1 = 1
    BY <2>1
  <2> QED
    BY <2>2, <2>3 DEF Recounted
<1>9. c.vRandom = random /\ c.vvNew = t.vvNew /\ c.vvTried = t.vvTried /\ c.nNew = t.nNew + 1
      /\ c.nTried = t.nTried /\ c.mapInfo = info
  BY <1>6
<1> HIDE DEF fresh
<1>10. /\ u \in Tables /\ Entries(u) = Entries(c) /\ u.vRandom = c.vRandom /\ u.vvNew = c.vvNew
       /\ u.vvTried = c.vvTried /\ u.nNew = c.nNew /\ u.nTried = c.nTried
       /\ \A x \in Entries(c) :
             /\ u.mapInfo[x].port = c.mapInfo[x].port /\ u.mapInfo[x].source = c.mapInfo[x].source
             /\ u.mapInfo[x].nLastSuccess = c.mapInfo[x].nLastSuccess
             /\ u.mapInfo[x].fInTried = c.mapInfo[x].fInTried
             /\ u.mapInfo[x].nRandomPos = c.mapInfo[x].nRandomPos
             /\ u.mapInfo[x].nRefCount = IF x = a THEN 1 ELSE c.mapInfo[x].nRefCount
       /\ TriedIn(u) = TriedIn(c) /\ \A x : BucketsOf(u, x) = BucketsOf(c, x)
  BY <1>7, <1>8, RecountedFacts
<1>11. \A x : BucketsOf(u, x) = BucketsOf(t, x)
  BY <1>9, <1>10 DEF BucketsOf
<1>12. /\ ~u.mapInfo[a].fInTried /\ u.mapInfo[a].nRefCount = 1
       /\ u.mapInfo[a].nRandomPos = Len(t.vRandom) + 1
  BY <1>4, <1>7, <1>9, <1>10 DEF fresh
<1>13. \A x \in Entries(t) :
          /\ u.mapInfo[x].port = t.mapInfo[x].port
          /\ u.mapInfo[x].nLastSuccess = t.mapInfo[x].nLastSuccess
          /\ u.mapInfo[x].fInTried = t.mapInfo[x].fInTried
          /\ u.mapInfo[x].nRandomPos = t.mapInfo[x].nRandomPos
          /\ u.mapInfo[x].nRefCount = t.mapInfo[x].nRefCount
  BY <1>4, <1>7, <1>9, <1>10
<1>14. TriedIn(u) = TriedIn(t)
  BY <1>7, <1>10, <1>12, <1>13 DEF TriedIn
<1>15. RandomIsRight(u)
  <2>1. ASSUME NEW x \in Entries(u)
        PROVE  u.mapInfo[x].nRandomPos \in 1 .. Len(u.vRandom) /\ u.vRandom[u.mapInfo[x].nRandomPos] = x
    <3>1. CASE x = a
      BY <1>2, <1>5, <1>9, <1>10, <1>12, <3>1
    <3>2. CASE x \in Entries(t)
      <4>1. t.mapInfo[x].nRandomPos \in 1 .. Len(t.vRandom) /\ t.vRandom[t.mapInfo[x].nRandomPos] = x
        BY <1>1, <3>2 DEF RandomIsRight
      <4>2. u.vRandom = random /\ u.mapInfo[x].nRandomPos = t.mapInfo[x].nRandomPos
        BY <1>9, <1>10, <1>13, <3>2
      <4> QED
        BY <1>2, <1>5, <4>1, <4>2
    <3> QED
      BY <1>7, <1>10, <3>1, <3>2
  <2>2. ASSUME NEW i \in 1 .. Len(u.vRandom)
        PROVE  u.vRandom[i] \in Entries(u) /\ u.mapInfo[u.vRandom[i]].nRandomPos = i
    <3>1. CASE i = Len(t.vRandom) + 1
      BY <1>5, <1>7, <1>9, <1>10, <1>12, <3>1
    <3>2. CASE i \in 1 .. Len(t.vRandom)
      <4>1. t.vRandom[i] \in Entries(t) /\ t.mapInfo[t.vRandom[i]].nRandomPos = i
        BY <1>1, <3>2 DEF RandomIsRight
      <4> QED
        BY <1>5, <1>7, <1>9, <1>10, <1>13, <3>2, <4>1
    <3> QED
      BY <1>2, <1>5, <1>9, <1>10, <3>1, <3>2
  <2> QED
    BY <2>1, <2>2 DEF RandomIsRight
<1>16. CountsAreRight(u)
  <2>1. IsFiniteSet(Entries(t)) /\ t.nNew = Cardinality(Entries(t) \ TriedIn(t))
        /\ t.nTried = Cardinality(TriedIn(t)) /\ TriedIn(t) \subseteq Entries(t)
    BY <1>1 DEF CountsAreRight, TriedIn
  <2>2. IsFiniteSet(Entries(u))
    BY <1>7, <1>10, <2>1, FS_AddElement
  <2>3. Entries(u) \ TriedIn(u) = (Entries(t) \ TriedIn(t)) \cup {a}
    BY <1>7, <1>10, <1>14, <2>1
  <2>4. IsFiniteSet(Entries(t) \ TriedIn(t))
    BY <2>1, FS_Difference
  <2>5. Cardinality(Entries(u) \ TriedIn(u)) = Cardinality(Entries(t) \ TriedIn(t)) + 1
    BY <2>3, <2>4, FS_AddElement
  <2> QED
    BY <1>9, <1>10, <1>14, <2>1, <2>2, <2>5 DEF CountsAreRight
<1>17. ReferencesAreRight(u, a)
  <2>1. BucketsOf(t, a) = {}
    BY <1>1 DEF BucketsOf, NewIsRight
  <2>2. Cardinality(BucketsOf(t, a)) = 0
    BY <2>1, FS_EmptySet
  <2>3. \A x \in Entries(t) : t.mapInfo[x].nRefCount = Cardinality(BucketsOf(t, x)) + 0
    BY <1>1, <1>2 DEF ReferencesAreRight
  <2>4. \A x : Cardinality(BucketsOf(t, x)) \in Nat
    BY <1>1, BucketsAreFinite
  <2> QED
    BY <1>7, <1>10, <1>11, <1>12, <1>13, <2>2, <2>3, <2>4 DEF ReferencesAreRight
<1>18. KindsAreRight(u)
  <2> SUFFICES ASSUME NEW x \in Entries(u)
               PROVE  IF u.mapInfo[x].fInTried THEN u.mapInfo[x].nRefCount = 0 /\ u.mapInfo[x].nLastSuccess > 0
                      ELSE u.mapInfo[x].nRefCount \in 1 .. NewBucketsPerAddress
    BY DEF KindsAreRight
  <2>1. CASE x = a
    BY <1>12, <2>1, Sizes
  <2>2. CASE x \in Entries(t)
    BY <1>1, <1>13, <2>2 DEF KindsAreRight
  <2> QED
    BY <1>7, <1>10, <2>1, <2>2
<1>19. NewIsRight(u)
  BY <1>1, <1>7, <1>9, <1>10 DEF NewIsRight
<1>20. TriedIsRight(u)
  <2>1. TriedIn(t) \subseteq Entries(t)
    BY DEF TriedIn
  <2> QED
    BY <1>1, <1>9, <1>10, <1>13, <1>14, <2>1, TriedStaysRight
<1> QED
  BY <1>7, <1>9, <1>10, <1>14, <1>15, <1>16, <1>17, <1>18, <1>19, <1>20 DEF Owes

\* u is t without the last of vRandom, x, to which b has referred.
Deleted(t, u, b, x) ==
    u = [mapInfo |-> Without(t.mapInfo, x), vRandom |-> Front(t.vRandom),
         vvNew |-> [t.vvNew EXCEPT ![b] = @ \ {x}], vvTried |-> t.vvTried,
         nNew |-> t.nNew - 1, nTried |-> t.nTried]

\* An entry is deleted when its last bucket lets it go.
LEMMA DeletedIsRight ==
  ASSUME NEW t, NEW due, Owes(t, due), NEW b \in NewBucket, NEW x \in t.vvNew[b], x # due,
         t.mapInfo[x].nRefCount = 1, t.vRandom[Len(t.vRandom)] = x,
         NEW u, Deleted(t, u, b, x)
  PROVE  Owes(u, due) /\ Entries(u) = Entries(t) \ {x} /\ TriedIn(u) = TriedIn(t)
<1> DEFINE info == Without(t.mapInfo, x)
           random == Front(t.vRandom)
           new == [t.vvNew EXCEPT ![b] = @ \ {x}]
           n == Len(t.vRandom)
<1>1. /\ t \in Tables /\ RandomIsRight(t) /\ CountsAreRight(t) /\ ReferencesAreRight(t, due)
      /\ KindsAreRight(t) /\ NewIsRight(t) /\ TriedIsRight(t)
  BY DEF Owes
<1>2. /\ Entries(t) \subseteq NetAddr /\ t.mapInfo \in [Entries(t) -> AddrInfo]
      /\ t.vRandom \in Seq(NetAddr) /\ t.vvNew \in [NewBucket -> SUBSET NetAddr]
      /\ t.vvTried \in [TriedBucket -> Seq(NetAddr)] /\ t.nNew \in Nat /\ t.nTried \in Nat
      /\ n \in Nat
  BY <1>1, EntryTypes
<1>3. x \in Entries(t) /\ ~t.mapInfo[x].fInTried
  BY NewEntries
<1>4. t.mapInfo[x].nRandomPos \in 1 .. n /\ n \in 1 .. n
  BY <1>1, <1>2, <1>3 DEF RandomIsRight
<1>5. t.mapInfo[x].nRandomPos = n
  BY <1>1, <1>4 DEF RandomIsRight
<1>6. info \in [Entries(t) \ {x} -> AddrInfo] /\ \A y \in Entries(t) \ {x} : info[y] = t.mapInfo[y]
  BY <1>2 DEF Without, Entries
<1>7. random \in Seq(NetAddr) /\ Len(random) = n - 1 /\ \A i \in 1 .. n - 1 : random[i] = t.vRandom[i]
  BY <1>2, <1>4 DEF Front
<1>8. new \in [NewBucket -> SUBSET NetAddr]
      /\ \A c \in NewBucket : new[c] = IF c = b THEN t.vvNew[b] \ {x} ELSE t.vvNew[c]
  BY <1>2
<1>9. /\ IsFiniteSet(Entries(t)) /\ t.nNew = Cardinality(Entries(t) \ TriedIn(t))
      /\ t.nTried = Cardinality(TriedIn(t)) /\ TriedIn(t) \subseteq Entries(t) \ {x}
  BY <1>1, <1>3 DEF CountsAreRight, TriedIn
<1>10. /\ Cardinality((Entries(t) \ TriedIn(t)) \ {x}) = t.nNew - 1
       /\ Cardinality((Entries(t) \ TriedIn(t)) \ {x}) \in Nat
       /\ IsFiniteSet(Entries(t) \ {x})
  <2>1. IsFiniteSet(Entries(t) \ TriedIn(t)) /\ x \in Entries(t) \ TriedIn(t)
    BY <1>3, <1>9, FS_Difference
  <2>2. /\ Cardinality((Entries(t) \ TriedIn(t)) \ {x}) = Cardinality(Entries(t) \ TriedIn(t)) - 1
        /\ IsFiniteSet((Entries(t) \ TriedIn(t)) \ {x})
    <3> DEFINE F == Entries(t) \ TriedIn(t)
    <3>1. IsFiniteSet(F) /\ x \in F
      BY <2>1
    <3> HIDE DEF F
    <3>2. Cardinality(F \ {x}) = Cardinality(F) - 1 /\ IsFiniteSet(F \ {x})
      BY <3>1, FS_RemoveElement
    <3> QED
      BY <3>2 DEF F
  <2>3. Cardinality((Entries(t) \ TriedIn(t)) \ {x}) \in Nat
    BY <2>2, FS_CardinalityType
  <2>4. IsFiniteSet(Entries(t) \ {x})
    BY <1>9, FS_RemoveElement
  <2> QED
    BY <1>9, <2>2, <2>3, <2>4
<1> HIDE DEF info, random, new
<1>11. /\ u.mapInfo = info /\ u.vRandom = random /\ u.vvNew = new /\ u.vvTried = t.vvTried
       /\ u.nNew = t.nNew - 1 /\ u.nTried = t.nTried
  BY DEF Deleted, info, random, new
<1>12. u \in Tables /\ Entries(u) = Entries(t) \ {x}
  <2>1. u = [mapInfo |-> info, vRandom |-> random, vvNew |-> new, vvTried |-> t.vvTried,
             nNew |-> t.nNew - 1, nTried |-> t.nTried]
    BY DEF Deleted, info, random, new
  <2>2. t.nNew - 1 \in Nat /\ Entries(t) \ {x} \in SUBSET NetAddr
    BY <1>2, <1>10
  <2> QED
    BY <1>2, <1>6, <1>7, <1>8, <2>1, <2>2, TablesAre
<1>13. TriedIn(u) = TriedIn(t)
  BY <1>3, <1>6, <1>11, <1>12 DEF TriedIn
<1>14. BucketsOf(t, x) = {b}
  <2>1. b \in BucketsOf(t, x)
    BY DEF BucketsOf
  <2>2. Cardinality(BucketsOf(t, x)) = 1 /\ IsFiniteSet(BucketsOf(t, x))
    <3>1. t.mapInfo[x].nRefCount = Cardinality(BucketsOf(t, x)) + 0
      BY <1>1, <1>3 DEF ReferencesAreRight
    <3> QED
      BY <1>1, <3>1, BucketsAreFinite
  <2>3. \E c : BucketsOf(t, x) = {c}
    BY <2>2, FS_Singleton
  <2> QED
    BY <2>1, <2>3
<1>15. \A y \in Entries(t) \ {x} : BucketsOf(u, y) = BucketsOf(t, y)
  BY <1>8, <1>11 DEF BucketsOf
<1>16. RandomIsRight(u)
  <2>1. ASSUME NEW y \in Entries(u)
        PROVE  u.mapInfo[y].nRandomPos \in 1 .. Len(u.vRandom) /\ u.vRandom[u.mapInfo[y].nRandomPos] = y
    <3>1. t.mapInfo[y].nRandomPos \in 1 .. n /\ t.vRandom[t.mapInfo[y].nRandomPos] = y /\ y # x
      BY <1>1, <1>12 DEF RandomIsRight
    <3>2. t.mapInfo[y].nRandomPos # n
      BY <3>1
    <3>3. t.mapInfo[y].nRandomPos \in 1 .. n - 1
      BY <1>2, <3>1, <3>2
    <3>4. u.mapInfo[y].nRandomPos = t.mapInfo[y].nRandomPos
      BY <1>6, <1>11, <1>12
    <3> QED
      BY <1>7, <1>11, <3>1, <3>3, <3>4
  <2>2. ASSUME NEW i \in 1 .. Len(u.vRandom)
        PROVE  u.vRandom[i] \in Entries(u) /\ u.mapInfo[u.vRandom[i]].nRandomPos = i
    <3>1. i \in 1 .. n /\ i # n /\ i \in 1 .. n - 1
      BY <1>2, <1>7, <1>11
    <3>2. t.vRandom[i] \in Entries(t) /\ t.mapInfo[t.vRandom[i]].nRandomPos = i
      BY <1>1, <3>1 DEF RandomIsRight
    <3>3. t.vRandom[i] # x
      BY <1>5, <3>1, <3>2
    <3> QED
      BY <1>6, <1>7, <1>11, <1>12, <3>1, <3>2, <3>3
  <2> QED
    BY <2>1, <2>2 DEF RandomIsRight
<1>17. CountsAreRight(u)
  <2>1. Entries(u) \ TriedIn(u) = (Entries(t) \ TriedIn(t)) \ {x}
    BY <1>12, <1>13
  <2> QED
    BY <1>9, <1>10, <1>11, <1>12, <1>13, <2>1 DEF CountsAreRight
<1>18. ReferencesAreRight(u, due)
  BY <1>1, <1>6, <1>11, <1>12, <1>15 DEF ReferencesAreRight
<1>19. KindsAreRight(u)
  BY <1>1, <1>6, <1>11, <1>12 DEF KindsAreRight
<1>20. NewIsRight(u)
  <2> SUFFICES ASSUME NEW c \in NewBucket
               PROVE  u.vvNew[c] \subseteq Entries(u) /\ Cardinality(u.vvNew[c]) <= NewBucketSize
    BY DEF NewIsRight
  <2>1. t.vvNew[c] \subseteq Entries(t) /\ Cardinality(t.vvNew[c]) <= NewBucketSize
    BY <1>1 DEF NewIsRight
  <2>2. CASE c = b
    <3>1. IsFiniteSet(t.vvNew[b]) /\ Cardinality(t.vvNew[b]) \in Nat
      BY <1>1, BucketsAreFinite
    <3>2. Cardinality(t.vvNew[b] \ {x}) = Cardinality(t.vvNew[b]) - 1
      BY <3>1, FS_RemoveElement
    <3>3. u.vvNew[c] = t.vvNew[c] \ {x}
      BY <1>8, <1>11, <2>2
    <3> QED
      BY <1>12, <2>1, <2>2, <3>1, <3>2, <3>3, Sizes
  <2>3. CASE c # b
    <3>1. x \notin t.vvNew[c]
      BY <1>14, <2>3 DEF BucketsOf
    <3> QED
      BY <1>8, <1>11, <1>12, <2>1, <2>3, <3>1
  <2> QED
    BY <2>2, <2>3
<1>21. TriedIsRight(u)
  <2>1. \A y \in TriedIn(t) : u.mapInfo[y].port = t.mapInfo[y].port
    BY <1>6, <1>9, <1>11
  <2> QED
    BY <1>1, <1>11, <1>13, <2>1, TriedStaysRight
<1> QED
  BY <1>12, <1>13, <1>16, <1>17, <1>18, <1>19, <1>20, <1>21 DEF Owes

\* u is t with the buckets new.
Rebucketed(t, u, new) == u = [t EXCEPT !.vvNew = new]

\* Nothing else is changed with the new buckets.
LEMMA RebucketedFacts ==
  ASSUME NEW t \in Tables, NEW new \in [NewBucket -> SUBSET NetAddr], NEW u, Rebucketed(t, u, new)
  PROVE  /\ u \in Tables /\ Entries(u) = Entries(t) /\ u.mapInfo = t.mapInfo /\ u.vRandom = t.vRandom
         /\ u.vvNew = new /\ u.vvTried = t.vvTried /\ u.nNew = t.nNew /\ u.nTried = t.nTried
         /\ TriedIn(u) = TriedIn(t)
<1>1. u = [mapInfo |-> t.mapInfo, vRandom |-> t.vRandom, vvNew |-> new,
           vvTried |-> t.vvTried, nNew |-> t.nNew, nTried |-> t.nTried]
  BY TablesShape DEF Rebucketed
<1>2. u \in Tables /\ Entries(u) = Entries(t)
  BY <1>1, EntryTypes, TablesAre
<1>3. /\ u.mapInfo = t.mapInfo /\ u.vRandom = t.vRandom
      /\ u.vvNew = new /\ u.vvTried = t.vvTried /\ u.nNew = t.nNew /\ u.nTried = t.nTried
  BY <1>1
<1> QED
  BY <1>2, <1>3 DEF TriedIn

\* What does not look at the new buckets stays right.
LEMMA RebucketedIsRight ==
  ASSUME NEW t \in Tables, RandomIsRight(t), CountsAreRight(t), KindsAreRight(t), TriedIsRight(t),
         NEW new \in [NewBucket -> SUBSET NetAddr], NEW u, Rebucketed(t, u, new),
         NEW due, ReferencesAreRight(u, due), NewIsRight(u)
  PROVE  Owes(u, due)
<1>2. /\ u \in Tables /\ Entries(u) = Entries(t) /\ u.mapInfo = t.mapInfo /\ u.vRandom = t.vRandom
      /\ u.vvNew = new /\ u.vvTried = t.vvTried /\ u.nNew = t.nNew /\ u.nTried = t.nTried
      /\ TriedIn(u) = TriedIn(t)
  BY RebucketedFacts
<1>3. RandomIsRight(u) /\ CountsAreRight(u) /\ KindsAreRight(u)
  BY <1>2 DEF RandomIsRight, CountsAreRight, KindsAreRight
<1>4. TriedIsRight(u)
  BY <1>2, TriedStaysRight
<1> QED
  BY <1>2, <1>3, <1>4 DEF Owes

\* What was owed is paid when a enters a bucket that has room.
LEMMA EnteredIsRight ==
  ASSUME NEW t, NEW a, Owes(t, a), a \in Entries(t), NEW b \in NewBucket, a \notin t.vvNew[b],
         Cardinality(t.vvNew[b]) < NewBucketSize
  PROVE  LET u == [t EXCEPT !.vvNew[b] = @ \cup {a}]
         IN  AddrIsRight(u) /\ Entries(u) = Entries(t) /\ TriedIn(u) = TriedIn(t)
<1> DEFINE u == [t EXCEPT !.vvNew[b] = @ \cup {a}]
           new == [t.vvNew EXCEPT ![b] = @ \cup {a}]
<1>0. SUFFICES AddrIsRight(u) /\ Entries(u) = Entries(t) /\ TriedIn(u) = TriedIn(t)
  OBVIOUS
<1>1. t \in Tables /\ CountsAreRight(t) /\ NewIsRight(t) /\ ReferencesAreRight(t, a)
  BY DEF Owes
<1>2. Entries(t) \subseteq NetAddr /\ t.vvNew \in [NewBucket -> SUBSET NetAddr] /\ NoAddr \notin Entries(t)
  BY <1>1, EntryTypes
<1>3. new \in [NewBucket -> SUBSET NetAddr]
      /\ \A c \in NewBucket : new[c] = IF c = b THEN t.vvNew[b] \cup {a} ELSE t.vvNew[c]
  BY <1>2
<1>4. Rebucketed(t, u, new)
  BY DEF Rebucketed
<1> HIDE DEF new, u
<1>5. /\ Entries(u) = Entries(t) /\ u.mapInfo = t.mapInfo /\ u.vvNew = new /\ TriedIn(u) = TriedIn(t)
  BY <1>1, <1>3, <1>4, RebucketedFacts
<1>6. ReferencesAreRight(u, NoAddr)
  <2>1. \A x \in Entries(t) : x # a => BucketsOf(u, x) = BucketsOf(t, x)
    BY <1>3, <1>5 DEF BucketsOf
  <2>2. BucketsOf(u, a) = BucketsOf(t, a) \cup {b} /\ b \notin BucketsOf(t, a)
    BY <1>3, <1>5 DEF BucketsOf
  <2>3. Cardinality(BucketsOf(u, a)) = Cardinality(BucketsOf(t, a)) + 1
    BY <1>1, <2>2, BucketsAreFinite, FS_AddElement
  <2>4. \A x : Cardinality(BucketsOf(t, x)) \in Nat
    BY <1>1, BucketsAreFinite
  <2>5. \A x \in Entries(t) : t.mapInfo[x].nRefCount = Cardinality(BucketsOf(t, x)) + (IF x = a THEN 1 ELSE 0)
    BY <1>1 DEF ReferencesAreRight
  <2> QED
    BY <1>2, <1>5, <2>1, <2>3, <2>4, <2>5 DEF ReferencesAreRight
<1>7. NewIsRight(u)
  <2> SUFFICES ASSUME NEW c \in NewBucket
               PROVE  u.vvNew[c] \subseteq Entries(u) /\ Cardinality(u.vvNew[c]) <= NewBucketSize
    BY DEF NewIsRight
  <2>1. t.vvNew[c] \subseteq Entries(t) /\ Cardinality(t.vvNew[c]) <= NewBucketSize
    BY <1>1 DEF NewIsRight
  <2>2. CASE c = b
    <3>1. IsFiniteSet(t.vvNew[b]) /\ Cardinality(t.vvNew[b]) \in Nat
      BY <1>1, BucketsAreFinite
    <3>2. Cardinality(t.vvNew[b] \cup {a}) = Cardinality(t.vvNew[b]) + 1
      BY <3>1, FS_AddElement
    <3> QED
      BY <1>3, <1>5, <2>1, <2>2, <3>1, <3>2, Sizes
  <2>3. CASE c # b
    BY <1>3, <1>5, <2>1, <2>3
  <2> QED
    BY <2>2, <2>3
<1>8. Owes(u, NoAddr)
  BY <1>1, <1>3, <1>4, <1>6, <1>7, RebucketedIsRight DEF Owes
<1> QED
  BY <1>5, <1>8 DEF AddrIsRight

\* ShrinkNew takes one entry out of a bucket, and out of the tables if nobody else refers to it.
LEMMA ShrunkIsRight ==
  ASSUME NEW t, NEW due, Owes(t, due), due \in Entries(t), NEW b \in NewBucket, due \notin t.vvNew[b],
         NEW s \in ShrinkNew(t, b)
  PROVE  /\ Owes(s, due) /\ due \in Entries(s) /\ due \notin s.vvNew[b] /\ TriedIn(s) = TriedIn(t)
         /\ Cardinality(s.vvNew[b]) < Cardinality(t.vvNew[b])
<1>1. PICK x \in t.vvNew[b] : s = [DropReference(t, x) EXCEPT !.vvNew[b] = @ \ {x}]
  BY DEF ShrinkNew
<1> DEFINE d == DropReference(t, x)
           new == [t.vvNew EXCEPT ![b] = @ \ {x}]
<1>2. /\ t \in Tables /\ RandomIsRight(t) /\ CountsAreRight(t) /\ ReferencesAreRight(t, due)
      /\ KindsAreRight(t) /\ NewIsRight(t) /\ TriedIsRight(t)
  BY DEF Owes
<1>3. x \in Entries(t) /\ ~t.mapInfo[x].fInTried /\ t.mapInfo[x].nRefCount \in 1 .. NewBucketsPerAddress
      /\ x # due
  BY NewEntries
<1>4. Entries(t) \subseteq NetAddr /\ t.vvNew \in [NewBucket -> SUBSET NetAddr] /\ Len(t.vRandom) \in Nat
  BY <1>2, EntryTypes
<1>5. new \in [NewBucket -> SUBSET NetAddr]
      /\ \A c \in NewBucket : new[c] = IF c = b THEN t.vvNew[b] \ {x} ELSE t.vvNew[c]
  BY <1>4
<1>6. /\ Cardinality(t.vvNew[b] \ {x}) = Cardinality(t.vvNew[b]) - 1 /\ Cardinality(t.vvNew[b]) \in Nat
      /\ Cardinality(t.vvNew[b] \ {x}) < Cardinality(t.vvNew[b])
  <2>1. IsFiniteSet(t.vvNew[b]) /\ Cardinality(t.vvNew[b]) \in Nat
    BY <1>2, BucketsAreFinite
  <2>2. Cardinality(t.vvNew[b] \ {x}) = Cardinality(t.vvNew[b]) - 1
    BY <2>1, FS_RemoveElement
  <2> QED
    BY <2>1, <2>2
<1> HIDE DEF new
<1>7. CASE t.mapInfo[x].nRefCount > 1
  <2> DEFINE n == t.mapInfo[x].nRefCount - 1
  <2>1. d = [t EXCEPT !.mapInfo[x].nRefCount = @ - 1]
    BY <1>7 DEF DropReference
  <2>2. Recounted(t, d, x, n) /\ n \in 1 .. NewBucketsPerAddress
    BY <1>3, <1>7, <2>1, Sizes DEF Recounted
  <2> HIDE DEF d, n
  <2>3. /\ d \in Tables /\ Entries(d) = Entries(t) /\ d.vRandom = t.vRandom /\ d.vvNew = t.vvNew
        /\ d.vvTried = t.vvTried /\ d.nNew = t.nNew /\ d.nTried = t.nTried
        /\ \A y \in Entries(t) :
              /\ d.mapInfo[y].port = t.mapInfo[y].port /\ d.mapInfo[y].source = t.mapInfo[y].source
              /\ d.mapInfo[y].nLastSuccess = t.mapInfo[y].nLastSuccess
              /\ d.mapInfo[y].fInTried = t.mapInfo[y].fInTried
              /\ d.mapInfo[y].nRandomPos = t.mapInfo[y].nRandomPos
              /\ d.mapInfo[y].nRefCount = IF y = x THEN n ELSE t.mapInfo[y].nRefCount
        /\ TriedIn(d) = TriedIn(t) /\ \A y : BucketsOf(d, y) = BucketsOf(t, y)
    BY <1>2, <1>3, <2>2, RecountedFacts
  <2>4. RandomIsRight(d) /\ CountsAreRight(d)
    BY <1>2, <2>3 DEF RandomIsRight, CountsAreRight
  <2>5. KindsAreRight(d)
    <3> SUFFICES ASSUME NEW y \in Entries(d)
                 PROVE  IF d.mapInfo[y].fInTried THEN d.mapInfo[y].nRefCount = 0 /\ d.mapInfo[y].nLastSuccess > 0
                        ELSE d.mapInfo[y].nRefCount \in 1 .. NewBucketsPerAddress
      BY DEF KindsAreRight
    <3>1. CASE y = x
      BY <1>3, <2>2, <2>3, <3>1
    <3>2. CASE y # x
      BY <1>2, <2>3, <3>2 DEF KindsAreRight
    <3> QED
      BY <3>1, <3>2
  <2>6. TriedIsRight(d)
    <3>1. TriedIn(t) \subseteq Entries(t)
      BY DEF TriedIn
    <3> QED
      BY <1>2, <2>3, <3>1, TriedStaysRight
  <2>7. Rebucketed(d, s, new)
    <3>1. s = [d EXCEPT !.vvNew = [d.vvNew EXCEPT ![b] = d.vvNew[b] \ {x}]]
      BY <1>1 DEF d
    <3> QED
      BY <2>3, <3>1 DEF Rebucketed, new
  <2>8. Entries(s) = Entries(t) /\ s.mapInfo = d.mapInfo /\ s.vvNew = new /\ TriedIn(s) = TriedIn(t)
    BY <1>5, <2>3, <2>7, RebucketedFacts
  <2>9. ReferencesAreRight(s, due)
    <3>1. \A y \in Entries(t) : y # x => BucketsOf(s, y) = BucketsOf(t, y)
      BY <1>5, <2>8 DEF BucketsOf
    <3>2. BucketsOf(s, x) = BucketsOf(t, x) \ {b} /\ b \in BucketsOf(t, x)
      BY <1>5, <2>8 DEF BucketsOf
    <3>3. Cardinality(BucketsOf(s, x)) = Cardinality(BucketsOf(t, x)) - 1
      BY <1>2, <3>2, BucketsAreFinite, FS_RemoveElement
    <3>4. \A y : Cardinality(BucketsOf(t, y)) \in Nat
      BY <1>2, BucketsAreFinite
    <3>5. \A y \in Entries(t) : t.mapInfo[y].nRefCount = Cardinality(BucketsOf(t, y)) + (IF y = due THEN 1 ELSE 0)
      BY <1>2 DEF ReferencesAreRight
    <3> SUFFICES ASSUME NEW y \in Entries(t)
                 PROVE  s.mapInfo[y].nRefCount = Cardinality(BucketsOf(s, y)) + (IF y = due THEN 1 ELSE 0)
      BY <2>8 DEF ReferencesAreRight
    <3>6. CASE y = x
      <4>1. s.mapInfo[y].nRefCount = t.mapInfo[x].nRefCount - 1
        BY <1>3, <2>3, <2>8, <3>6 DEF n
      <4>2. t.mapInfo[x].nRefCount = Cardinality(BucketsOf(t, x))
        BY <1>3, <3>4, <3>5
      <4> QED
        BY <1>3, <3>3, <3>4, <3>6, <4>1, <4>2
    <3>7. CASE y # x
      BY <2>3, <2>8, <3>1, <3>5, <3>7
    <3> QED
      BY <3>6, <3>7
  <2>10. NewIsRight(s)
    <3> SUFFICES ASSUME NEW c \in NewBucket
                 PROVE  s.vvNew[c] \subseteq Entries(s) /\ Cardinality(s.vvNew[c]) <= NewBucketSize
      BY DEF NewIsRight
    <3>1. t.vvNew[c] \subseteq Entries(t) /\ Cardinality(t.vvNew[c]) <= NewBucketSize
      BY <1>2 DEF NewIsRight
    <3>2. CASE c = b
      BY <1>5, <1>6, <2>8, <3>1, <3>2, Sizes
    <3>3. CASE c # b
      BY <1>5, <2>8, <3>1, <3>3
    <3> QED
      BY <3>2, <3>3
  <2>11. Owes(s, due)
    BY <1>5, <2>3, <2>4, <2>5, <2>6, <2>7, <2>9, <2>10, RebucketedIsRight
  <2> QED
    BY <1>5, <1>6, <2>8, <2>11
<1>8. CASE ~(t.mapInfo[x].nRefCount > 1)
  <2>1. t.mapInfo[x].nRefCount = 1
    BY <1>3, <1>8, Sizes
  <2> DEFINE r == SwapRandom(t, t.mapInfo[x].nRandomPos, Len(t.vRandom))
  <2>2. /\ t.mapInfo[x].nRandomPos \in 1 .. Len(t.vRandom) /\ Len(t.vRandom) \in 1 .. Len(t.vRandom)
        /\ t.vRandom[t.mapInfo[x].nRandomPos] = x
    BY <1>2, <1>3, <1>4 DEF RandomIsRight
  <2>3. Reordered(t, r) /\ RandomIsRight(r) /\ r.vRandom[Len(t.vRandom)] = x
    BY <1>2, <2>2, SwapIsRight
  <2>4. d = [r EXCEPT !.vRandom = Front(@), !.mapInfo = Without(@, x), !.nNew = @ - 1]
    BY <1>8 DEF DropReference
  <2> HIDE DEF r
  <2>5. Owes(r, due) /\ TriedIn(r) = TriedIn(t)
    BY <1>2, <2>3, ReorderedIsRight
  <2>6. /\ r.vvNew = t.vvNew /\ Entries(r) = Entries(t) /\ Len(r.vRandom) = Len(t.vRandom)
        /\ r.mapInfo[x].nRefCount = 1
    BY <1>3, <2>1, <2>3 DEF Reordered
  <2>7. Deleted(r, s, b, x)
    <3>1. r = [mapInfo |-> r.mapInfo, vRandom |-> r.vRandom, vvNew |-> r.vvNew,
               vvTried |-> r.vvTried, nNew |-> r.nNew, nTried |-> r.nTried]
      BY <2>5, TablesShape DEF Owes
    <3>2. d = [mapInfo |-> Without(r.mapInfo, x), vRandom |-> Front(r.vRandom), vvNew |-> r.vvNew,
               vvTried |-> r.vvTried, nNew |-> r.nNew - 1, nTried |-> r.nTried]
      BY <2>4, <3>1
    <3>3. s = [d EXCEPT !.vvNew = [d.vvNew EXCEPT ![b] = d.vvNew[b] \ {x}]]
      BY <1>1
    <3> HIDE DEF d
    <3> QED
      BY <3>2, <3>3 DEF Deleted
  <2>8. Owes(s, due) /\ Entries(s) = Entries(r) \ {x} /\ TriedIn(s) = TriedIn(r)
    BY <1>3, <2>3, <2>5, <2>6, <2>7, DeletedIsRight
  <2>9. s.vvNew = new
    BY <2>6, <2>7 DEF Deleted, new
  <2> QED
    BY <1>3, <1>5, <1>6, <2>5, <2>6, <2>8, <2>9
<1> QED
  BY <1>7, <1>8

\* The end of Add_ pays what is owed to a, whatever the bucket has to give up for it.
LEMMA EntersIsRight ==
  ASSUME NEW t, NEW a, NEW b \in NewBucket, a \notin t.vvNew[b], NEW c, Counts(t, c, a),
         Owes(c, a), a \in Entries(c), c.vvNew = t.vvNew, NEW u \in EntersBucket(t, a, b)
  PROVE  AddrIsRight(u) /\ TriedIn(u) = TriedIn(c)
<1>1. PICK s : /\ u = [s EXCEPT !.vvNew[b] = @ \cup {a}]
               /\ s \in IF Cardinality(c.vvNew[b]) = NewBucketSize THEN ShrinkNew(c, b) ELSE {c}
  BY DEF EntersBucket, Counts
<1>2. /\ Cardinality(c.vvNew[b]) \in Nat /\ Cardinality(c.vvNew[b]) <= NewBucketSize
      /\ a \notin c.vvNew[b]
  BY BucketsAreFinite DEF Owes, NewIsRight
<1>3. Owes(s, a) /\ a \in Entries(s) /\ a \notin s.vvNew[b] /\ TriedIn(s) = TriedIn(c)
      /\ Cardinality(s.vvNew[b]) < NewBucketSize
  <2>1. CASE Cardinality(c.vvNew[b]) = NewBucketSize
    <3>1. s \in ShrinkNew(c, b)
      BY <1>1, <2>1
    <3> QED
      BY <1>2, <2>1, <3>1, ShrunkIsRight
  <2>2. CASE Cardinality(c.vvNew[b]) # NewBucketSize
    <3>1. s = c
      BY <1>1, <2>2
    <3> QED
      BY <1>2, <2>2, <3>1, Sizes
  <2> QED
    BY <2>1, <2>2
<1> QED
  BY <1>1, <1>3, EnteredIsRight

-----------------------------------------------------------------------------
\* What SelectTried may come to: the bucket in another order, and a place of it.
Selected(t, b) ==
    {s \in [bucket : Seq(NetAddr), nOldest : NetAddr \cup {NoAddr}, nOldestPos : Nat] :
        /\ Len(s.bucket) = Len(t.vvTried[b]) /\ ToSet(s.bucket) = ToSet(t.vvTried[b])
        /\ IsInjective(s.bucket)
        /\ s.nOldest # NoAddr => s.nOldestPos \in 1 .. Len(s.bucket)}

\* One draw: the place i of the bucket is filled from the place n.
Drawn(t, s, i, n) ==
    LET shuffled == [s.bucket EXCEPT ![n] = s.bucket[i], ![i] = s.bucket[n]]
        nTemp    == s.bucket[n]
    IN  IF s.nOldest = NoAddr \/ t.mapInfo[nTemp].nLastSuccess < t.mapInfo[s.nOldest].nLastSuccess
        THEN [bucket |-> shuffled, nOldest |-> nTemp, nOldestPos |-> n]
        ELSE [s EXCEPT !.bucket = shuffled]

\* Two places of a sequence that change their contents.
LEMMA Exchange ==
  ASSUME NEW S, NEW s \in Seq(S), NEW i \in 1 .. Len(s), NEW n \in 1 .. Len(s), IsInjective(s), NEW r,
         r = [s EXCEPT ![n] = s[i], ![i] = s[n]]
  PROVE  /\ r \in Seq(S) /\ Len(r) = Len(s) /\ ToSet(r) = ToSet(s) /\ IsInjective(r)
         /\ \A k \in 1 .. Len(s) : r[k] = IF k = i THEN s[n] ELSE IF k = n THEN s[i] ELSE s[k]
<1>1. /\ Len(s) \in Nat /\ DOMAIN s = 1 .. Len(s) /\ \A k \in 1 .. Len(s) : s[k] \in S
  OBVIOUS
<1>2. r \in Seq(S) /\ Len(r) = Len(s) /\ DOMAIN r = 1 .. Len(s)
  BY <1>1
<1>3. \A k \in 1 .. Len(s) : r[k] = IF k = i THEN s[n] ELSE IF k = n THEN s[i] ELSE s[k]
  BY <1>1
<1>4. ToSet(r) = ToSet(s)
  <2>1. ASSUME NEW k \in 1 .. Len(s) PROVE r[k] \in ToSet(s)
    BY <1>1, <1>3 DEF ToSet
  <2>2. ASSUME NEW k \in 1 .. Len(s) PROVE s[k] \in ToSet(r)
    <3>1. r[i] = s[n] /\ r[n] = s[i] /\ (k # i /\ k # n => r[k] = s[k])
      BY <1>3
    <3> QED
      BY <1>2, <3>1 DEF ToSet
  <2> QED
    BY <1>1, <1>2, <2>1, <2>2 DEF ToSet
<1>5. IsInjective(r)
  BY <1>1, <1>2, <1>3 DEF IsInjective
<1> QED
  BY <1>2, <1>3, <1>4, <1>5

\* One more entry drawn leaves a bucket of the same entries.
LEMMA DrawnIsSelected ==
  ASSUME NEW t, NEW b, NEW s \in Selected(t, b), NEW i \in 1 .. Len(t.vvTried[b]), NEW n \in 1 .. Len(t.vvTried[b]),
         NoAddr \notin NetAddr
  PROVE  Drawn(t, s, i, n) \in Selected(t, b) /\ Drawn(t, s, i, n).nOldest # NoAddr
<1> DEFINE shuffled == [s.bucket EXCEPT ![n] = s.bucket[i], ![i] = s.bucket[n]]
           d == Drawn(t, s, i, n)
<1>1. /\ s.bucket \in Seq(NetAddr) /\ s.nOldest \in NetAddr \cup {NoAddr} /\ s.nOldestPos \in Nat
      /\ Len(s.bucket) = Len(t.vvTried[b]) /\ ToSet(s.bucket) = ToSet(t.vvTried[b])
      /\ IsInjective(s.bucket) /\ (s.nOldest # NoAddr => s.nOldestPos \in 1 .. Len(s.bucket))
      /\ s = [bucket |-> s.bucket, nOldest |-> s.nOldest, nOldestPos |-> s.nOldestPos]
  BY DEF Selected
<1>2. /\ shuffled \in Seq(NetAddr) /\ Len(shuffled) = Len(t.vvTried[b])
      /\ ToSet(shuffled) = ToSet(t.vvTried[b]) /\ IsInjective(shuffled)
  BY <1>1, Exchange
<1>3. s.bucket[n] \in NetAddr /\ n \in Nat
  BY <1>1
<1>4. \/ d = [bucket |-> shuffled, nOldest |-> s.bucket[n], nOldestPos |-> n]
      \/ s.nOldest # NoAddr /\ d = [bucket |-> shuffled, nOldest |-> s.nOldest, nOldestPos |-> s.nOldestPos]
  <2> HIDE DEF shuffled
  <2>1. [s EXCEPT !.bucket = shuffled]
          = [bucket |-> shuffled, nOldest |-> s.nOldest, nOldestPos |-> s.nOldestPos]
    <3>1. PICK x, y, z : s = [bucket |-> x, nOldest |-> y, nOldestPos |-> z]
      BY <1>1
    <3> QED
      BY <3>1
  <2> QED
    BY <2>1 DEF Drawn, shuffled
<1> HIDE DEF d, shuffled
<1>5. CASE d = [bucket |-> shuffled, nOldest |-> s.bucket[n], nOldestPos |-> n]
  <2>1. d.bucket = shuffled /\ d.nOldest = s.bucket[n] /\ d.nOldestPos = n
        /\ d \in [bucket : Seq(NetAddr), nOldest : NetAddr \cup {NoAddr}, nOldestPos : Nat]
    BY <1>2, <1>3, <1>5
  <2> QED
    BY <1>2, <1>3, <2>1 DEF Selected, d
<1>6. CASE s.nOldest # NoAddr /\ d = [bucket |-> shuffled, nOldest |-> s.nOldest, nOldestPos |-> s.nOldestPos]
  <2>1. d.bucket = shuffled /\ d.nOldest = s.nOldest /\ d.nOldestPos = s.nOldestPos
        /\ d \in [bucket : Seq(NetAddr), nOldest : NetAddr \cup {NoAddr}, nOldestPos : Nat]
    BY <1>1, <1>2, <1>6
  <2> QED
    BY <1>1, <1>2, <1>6, <2>1 DEF Selected, d
<1> QED
  BY <1>4, <1>5, <1>6

\* Whatever is drawn, SelectTried returns the bucket in some order and a place of it.
LEMMA SelectTriedIsSelected ==
  ASSUME NEW t \in Tables, NEW b \in TriedBucket, IsInjective(t.vvTried[b]), t.vvTried[b] # << >>,
         NEW s \in SelectTried(t, b)
  PROVE  s \in Selected(t, b) /\ s.nOldest # NoAddr
<1> DEFINE bucket == t.vvTried[b]
           n == Len(bucket)
           W == Selected(t, b)
           first == [bucket |-> bucket, nOldest |-> NoAddr, nOldestPos |-> 0]
           Draws(A, i) == UNION {{Drawn(t, r, i, nPos) : nPos \in i .. n} : r \in A}
           after == CHOOSE f : f = [i \in 0 .. n |-> IF i = 0 THEN {first} ELSE Draws(f[i - 1], i)]
           m == IF InspectOnEvict < n THEN InspectOnEvict ELSE n
<1>1. s \in after[m]
  BY Zenon DEF SelectTried, Drawn
<1>2. bucket \in Seq(NetAddr) /\ n \in Nat \ {0} /\ NoAddr \notin NetAddr
  BY EntryTypes, AddrManAssumption
<1>3. first \in W
  BY <1>2 DEF Selected
<1>4. \A A \in SUBSET W : \A i \in 1 .. n :
         Draws(A, i) \in SUBSET W /\ \A r \in Draws(A, i) : r.nOldest # NoAddr
  <2> SUFFICES ASSUME NEW A \in SUBSET W, NEW i \in 1 .. n, NEW r \in Draws(A, i)
               PROVE  r \in W /\ r.nOldest # NoAddr
    OBVIOUS
  <2>1. PICK q \in A, nPos \in i .. n : r = Drawn(t, q, i, nPos)
    OBVIOUS
  <2>2. nPos \in 1 .. n
    BY <1>2
  <2> HIDE DEF n, bucket
  <2> QED
    BY <1>2, <2>1, <2>2, DrawnIsSelected DEF n, bucket
<1>5. m \in 1 .. n
  BY <1>2, Sizes
<1> HIDE DEF bucket, n, first, Draws, W, m
<1>6. \E f : f = [i \in 0 .. n |-> IF i = 0 THEN {first} ELSE Draws(f[i - 1], i)]
  <2> DEFINE Advance == [i \in 1 .. n |-> [A \in SUBSET W |-> Draws(A, i)]]
  <2>1. Advance \in [1 .. n -> [SUBSET W -> SUBSET W]]
    BY <1>4
  <2>2. \A i \in 1 .. n : \A A \in SUBSET W : Advance[i][A] = Draws(A, i)
    OBVIOUS
  <2> HIDE DEF Advance
  <2>3. {first} \in SUBSET W
    BY <1>3
  <2>4. PICK f : Iterates(f, n, SUBSET W, {first}, Advance)
    BY <1>2, <2>1, <2>3, Recursion
  <2>5. f = [i \in 0 .. n |-> IF i = 0 THEN {first} ELSE Draws(f[i - 1], i)]
    BY <1>2, <2>2, <2>4 DEF Iterates
  <2> QED
    BY <2>5
<1>7. after = [i \in 0 .. n |-> IF i = 0 THEN {first} ELSE Draws(after[i - 1], i)]
  BY <1>6
<1> HIDE DEF after
<1>8. after[0] = {first} /\ \A i \in 1 .. n : after[i] = Draws(after[i - 1], i)
  <2>1. ASSUME NEW i \in 0 .. n PROVE after[i] = IF i = 0 THEN {first} ELSE Draws(after[i - 1], i)
    BY <1>7, Zenon
  <2>2. 0 \in 0 .. n /\ \A i \in 1 .. n : i \in 0 .. n /\ i # 0
    BY <1>2
  <2> QED
    BY <2>1, <2>2, Zenon
<1>9. 0 .. n \subseteq {i \in 0 .. n : after[i] \in SUBSET W}
  <2> DEFINE S == {i \in 0 .. n : after[i] \in SUBSET W}
  <2>1. 0 \in S /\ \A i \in 1 .. n : i - 1 \in S => i \in S
    BY <1>2, <1>3, <1>4, <1>8
  <2> HIDE DEF S
  <2>2. 0 .. n \subseteq S
    BY <1>2, <2>1, UpTo
  <2> QED
    BY <2>2 DEF S
<1>10. m - 1 \in 0 .. n
  BY <1>2, <1>5
<1>11. after[m] = Draws(after[m - 1], m) /\ after[m - 1] \in SUBSET W
  BY <1>5, <1>8, <1>9, <1>10
<1>12. s \in W /\ s.nOldest # NoAddr
  BY <1>1, <1>4, <1>5, <1>11
<1> QED
  BY <1>12 DEF W

\* The same for the shuffle of GetAddr.
LEMMA ShuffledIsRight ==
  ASSUME NEW t \in Tables, RandomIsRight(t), NEW n \in Nat, n <= Len(t.vRandom), NEW u \in Shuffled(t, n)
  PROVE  Reordered(t, u) /\ RandomIsRight(u)
<1> DEFINE len == Len(t.vRandom)
           W == {v \in Tables : Reordered(t, v) /\ RandomIsRight(v)}
           Swaps(A, i) == UNION {{SwapRandom(v, i, nRndPos) : nRndPos \in i .. len} : v \in A}
           after == CHOOSE f : f = [i \in 0 .. n |-> IF i = 0 THEN {t} ELSE Swaps(f[i - 1], i)]
<1>1. u \in after[n]
  BY DEF Shuffled
<1>2. len \in Nat
  BY EntryTypes
<1>3. t \in W
  BY DEF Reordered
<1>4. \A A \in SUBSET W : \A i \in 1 .. n : Swaps(A, i) \in SUBSET W
  <2> SUFFICES ASSUME NEW A \in SUBSET W, NEW i \in 1 .. n, NEW r \in Swaps(A, i)
               PROVE  r \in W
    OBVIOUS
  <2>1. PICK q \in A, k \in i .. len : r = SwapRandom(q, i, k)
    OBVIOUS
  <2>2. q \in Tables /\ Reordered(t, q) /\ RandomIsRight(q) /\ Len(q.vRandom) = len
    BY DEF Reordered
  <2>3. i \in 1 .. len /\ k \in 1 .. len
    BY <1>2
  <2>4. Reordered(q, r) /\ RandomIsRight(r)
    BY <2>1, <2>2, <2>3, SwapIsRight
  <2>5. Reordered(t, r)
    BY <2>2, <2>4 DEF Reordered
  <2> QED
    BY <2>4, <2>5 DEF Reordered
<1> HIDE DEF len, Swaps, W
<1>6. \E f : f = [i \in 0 .. n |-> IF i = 0 THEN {t} ELSE Swaps(f[i - 1], i)]
  <2> DEFINE Advance == [i \in 1 .. n |-> [A \in SUBSET W |-> Swaps(A, i)]]
  <2>1. Advance \in [1 .. n -> [SUBSET W -> SUBSET W]]
    BY <1>4
  <2>2. \A i \in 1 .. n : \A A \in SUBSET W : Advance[i][A] = Swaps(A, i)
    OBVIOUS
  <2> HIDE DEF Advance
  <2>3. {t} \in SUBSET W
    BY <1>3
  <2>4. PICK f : Iterates(f, n, SUBSET W, {t}, Advance)
    BY <2>1, <2>3, Recursion
  <2>5. f = [i \in 0 .. n |-> IF i = 0 THEN {t} ELSE Swaps(f[i - 1], i)]
    BY <2>2, <2>4 DEF Iterates
  <2> QED
    BY <2>5
<1>7. after = [i \in 0 .. n |-> IF i = 0 THEN {t} ELSE Swaps(after[i - 1], i)]
  BY <1>6
<1> HIDE DEF after
<1>8. after[0] = {t} /\ \A i \in 1 .. n : after[i] = Swaps(after[i - 1], i)
  <2>1. ASSUME NEW i \in 0 .. n PROVE after[i] = IF i = 0 THEN {t} ELSE Swaps(after[i - 1], i)
    BY <1>7, Zenon
  <2>2. 0 \in 0 .. n /\ \A i \in 1 .. n : i \in 0 .. n /\ i # 0
    OBVIOUS
  <2> QED
    BY <2>1, <2>2, Zenon
<1>9. n \in {i \in 0 .. n : after[i] \in SUBSET W}
  <2> DEFINE S == {i \in 0 .. n : after[i] \in SUBSET W}
  <2>1. 0 \in S /\ \A i \in 1 .. n : i - 1 \in S => i \in S
    BY <1>3, <1>4, <1>8
  <2> HIDE DEF S
  <2>2. 0 .. n \subseteq S
    BY <2>1, UpTo
  <2> QED
    BY <2>2 DEF S
<1> QED
  BY <1>1, <1>9 DEF W

\* u is t with another time of success of a.
Succeeds(t, u, a, nTime) == u = [t EXCEPT !.mapInfo[a].nLastSuccess = nTime]

\* A success that changes nothing but its time.
LEMMA SucceededIsRight ==
  ASSUME NEW t, AddrIsRight(t), NEW a \in Entries(t), NEW nTime \in 1 .. MaxTime, NEW u,
         Succeeds(t, u, a, nTime)
  PROVE  /\ AddrIsRight(u) /\ Entries(u) = Entries(t) /\ TriedIn(u) = TriedIn(t) /\ u.vvNew = t.vvNew
         /\ u.mapInfo[a].nLastSuccess > 0 /\ u.mapInfo[a].fInTried = t.mapInfo[a].fInTried
<1> DEFINE info == [t.mapInfo EXCEPT ![a] = [t.mapInfo[a] EXCEPT !.nLastSuccess = nTime]]
<1>0. nTime \in 0 .. MaxTime /\ nTime > 0
  BY AddrManAssumption
<1>1. /\ t \in Tables /\ RandomIsRight(t) /\ CountsAreRight(t) /\ ReferencesAreRight(t, NoAddr)
      /\ KindsAreRight(t) /\ NewIsRight(t) /\ TriedIsRight(t)
  BY DEF AddrIsRight, Owes
<1>2. \A x \in Entries(t) : t.mapInfo[x] \in AddrInfo
  BY <1>1, EntryTypes
<1>3. /\ info = [x \in Entries(t) |-> info[x]]
      /\ \A x \in Entries(t) : info[x] = IF x = a THEN [t.mapInfo[a] EXCEPT !.nLastSuccess = nTime] ELSE t.mapInfo[x]
  BY <1>1, EntryTypes
<1>4. u = [mapInfo |-> info, vRandom |-> t.vRandom, vvNew |-> t.vvNew, vvTried |-> t.vvTried,
           nNew |-> t.nNew, nTried |-> t.nTried]
  <2> HIDE DEF info
  <2>1. u = [t EXCEPT !.mapInfo = info]
    BY DEF info, Succeeds
  <2> QED
    BY <1>1, <2>1, TablesShape
<1> HIDE DEF info
<1>5. ASSUME NEW x \in Entries(t)
      PROVE  /\ info[x] \in AddrInfo
             /\ info[x].port = t.mapInfo[x].port /\ info[x].source = t.mapInfo[x].source
             /\ info[x].nLastSuccess = IF x = a THEN nTime ELSE t.mapInfo[x].nLastSuccess
             /\ info[x].fInTried = t.mapInfo[x].fInTried
             /\ info[x].nRandomPos = t.mapInfo[x].nRandomPos
             /\ info[x].nRefCount = t.mapInfo[x].nRefCount
  <2>1. CASE x = a
    <3>1. info[x] = [t.mapInfo[x] EXCEPT !.nLastSuccess = nTime]
      BY <1>3, <2>1
    <3> QED
      BY <1>0, <1>2, <2>1, <3>1, EntrySucceeded
  <2>2. CASE x # a
    BY <1>2, <1>3, <2>2
  <2> QED
    BY <2>1, <2>2
<1>6. info \in [Entries(t) -> AddrInfo]
  BY <1>3, <1>5
<1>7. /\ u.mapInfo = info /\ u.vRandom = t.vRandom /\ u.vvNew = t.vvNew
      /\ u.vvTried = t.vvTried /\ u.nNew = t.nNew /\ u.nTried = t.nTried
  BY <1>4
<1>8. u \in Tables /\ Entries(u) = Entries(t)
  BY <1>1, <1>4, <1>6, EntryTypes, TablesAre
<1>9. TriedIn(u) = TriedIn(t)
  BY <1>5, <1>7, <1>8 DEF TriedIn
<1>10. RandomIsRight(u)
  BY <1>1, <1>5, <1>7, <1>8, SMTT(20) DEF RandomIsRight
<1>11. CountsAreRight(u)
  BY <1>1, <1>7, <1>8, <1>9 DEF CountsAreRight
<1>12. ReferencesAreRight(u, NoAddr)
  <2>1. \A x : BucketsOf(u, x) = BucketsOf(t, x)
    BY <1>7 DEF BucketsOf
  <2> QED
    BY <1>1, <1>5, <1>7, <1>8, <2>1 DEF ReferencesAreRight
<1>13. KindsAreRight(u)
  <2> SUFFICES ASSUME NEW x \in Entries(u)
               PROVE  IF u.mapInfo[x].fInTried THEN u.mapInfo[x].nRefCount = 0 /\ u.mapInfo[x].nLastSuccess > 0
                      ELSE u.mapInfo[x].nRefCount \in 1 .. NewBucketsPerAddress
    BY DEF KindsAreRight
  <2>1. IF t.mapInfo[x].fInTried THEN t.mapInfo[x].nRefCount = 0 /\ t.mapInfo[x].nLastSuccess > 0
        ELSE t.mapInfo[x].nRefCount \in 1 .. NewBucketsPerAddress
    BY <1>1, <1>8 DEF KindsAreRight
  <2> QED
    BY <1>0, <1>5, <1>7, <1>8, <2>1
<1>14. NewIsRight(u)
  BY <1>1, <1>7, <1>8 DEF NewIsRight
<1>15. TriedIsRight(u)
  <2>1. TriedIn(t) \subseteq Entries(t)
    BY DEF TriedIn
  <2>2. \A x \in TriedIn(t) : u.mapInfo[x].port = t.mapInfo[x].port
    BY <1>5, <1>7, <2>1
  <2>3. \A b : Belongs(u, b) = Belongs(t, b)
    BY <1>9, <2>2 DEF Belongs
  <2>4. u.vvTried = t.vvTried
    BY <1>7
  <2>5. \A b \in TriedBucket : /\ ToSet(t.vvTried[b]) = Belongs(t, b) /\ IsInjective(t.vvTried[b])
                               /\ Len(t.vvTried[b]) <= TriedBucketSize
    BY <1>1 DEF TriedIsRight
  <2> QED
    BY <2>3, <2>4, <2>5 DEF TriedIsRight
<1>16. u.mapInfo[a].nLastSuccess > 0 /\ u.mapInfo[a].fInTried = t.mapInfo[a].fInTried
  BY <1>0, <1>5, <1>7
<1> QED
  BY <1>7, <1>8, <1>9, <1>10, <1>11, <1>12, <1>13, <1>14, <1>15, <1>16 DEF AddrIsRight, Owes

\* u is t with a tried instead of the evicted ones, who are in one new bucket each,
\* and q for the tried bucket of a.
Promoted(t, u, a, bucket, evicted, q) ==
    /\ bucket = GetTriedBucket[a][t.mapInfo[a].port]
    /\ evicted \subseteq Belongs(t, bucket)
    /\ ToSet(q) = (ToSet(t.vvTried[bucket]) \ evicted) \cup {a} /\ IsInjective(q) /\ Len(q) <= TriedBucketSize
    /\ NewIsRight(u)
    /\ u \in Tables /\ Entries(u) = Entries(t) /\ u.vRandom = t.vRandom
    /\ u.vvTried = [t.vvTried EXCEPT ![bucket] = q]
    /\ u.nNew = (t.nNew - 1) + Cardinality(evicted) /\ u.nTried = (t.nTried + 1) - Cardinality(evicted)
    /\ \A x \in Entries(t) :
          /\ u.mapInfo[x].port = t.mapInfo[x].port /\ u.mapInfo[x].nLastSuccess = t.mapInfo[x].nLastSuccess
          /\ u.mapInfo[x].nRandomPos = t.mapInfo[x].nRandomPos
          /\ u.mapInfo[x].fInTried = (x = a \/ (t.mapInfo[x].fInTried /\ x \notin evicted))
          /\ u.mapInfo[x].nRefCount = IF x = a THEN 0 ELSE IF x \in evicted THEN 1
                                      ELSE t.mapInfo[x].nRefCount
    /\ BucketsOf(u, a) = {} /\ \A x \in evicted : Cardinality(BucketsOf(u, x)) = 1
    /\ \A x \in Entries(t) \ (evicted \cup {a}) : BucketsOf(u, x) = BucketsOf(t, x)

\* The tables after it: a is tried, and who was evicted for it is new.
LEMMA PromotedIsRight ==
  ASSUME NEW t, AddrIsRight(t), NEW a \in Entries(t), ~t.mapInfo[a].fInTried, t.mapInfo[a].nLastSuccess > 0,
         NEW bucket, NEW evicted, NEW q, NEW u, Promoted(t, u, a, bucket, evicted, q)
  PROVE  AddrIsRight(u) /\ TriedIn(u) = (TriedIn(t) \ evicted) \cup {a}
<1>1. /\ t \in Tables /\ RandomIsRight(t) /\ CountsAreRight(t) /\ ReferencesAreRight(t, NoAddr)
      /\ KindsAreRight(t) /\ NewIsRight(t) /\ TriedIsRight(t)
  BY DEF AddrIsRight, Owes
<1>0. /\ bucket = GetTriedBucket[a][t.mapInfo[a].port] /\ evicted \subseteq Belongs(t, bucket)
      /\ ToSet(q) = (ToSet(t.vvTried[bucket]) \ evicted) \cup {a} /\ IsInjective(q)
      /\ Len(q) <= TriedBucketSize /\ NewIsRight(u)
  BY DEF Promoted
<1>2. /\ u \in Tables /\ Entries(u) = Entries(t) /\ u.vRandom = t.vRandom
      /\ u.vvTried = [t.vvTried EXCEPT ![bucket] = q]
      /\ u.nNew = (t.nNew - 1) + Cardinality(evicted) /\ u.nTried = (t.nTried + 1) - Cardinality(evicted)
      /\ BucketsOf(u, a) = {} /\ \A x \in evicted : Cardinality(BucketsOf(u, x)) = 1
      /\ \A x \in Entries(t) \ (evicted \cup {a}) : BucketsOf(u, x) = BucketsOf(t, x)
  BY DEF Promoted
<1>3. \A x \in Entries(t) :
         /\ u.mapInfo[x].port = t.mapInfo[x].port /\ u.mapInfo[x].nLastSuccess = t.mapInfo[x].nLastSuccess
         /\ u.mapInfo[x].nRandomPos = t.mapInfo[x].nRandomPos
         /\ u.mapInfo[x].fInTried = (x = a \/ (t.mapInfo[x].fInTried /\ x \notin evicted))
         /\ u.mapInfo[x].nRefCount = IF x = a THEN 0 ELSE IF x \in evicted THEN 1
                                     ELSE t.mapInfo[x].nRefCount
  BY DEF Promoted
<1>4. evicted \subseteq TriedIn(t) /\ TriedIn(t) \subseteq Entries(t) /\ a \notin TriedIn(t)
  BY <1>0 DEF Belongs, TriedIn
<1>5. TriedIn(u) = (TriedIn(t) \ evicted) \cup {a}
  BY <1>2, <1>3 DEF TriedIn
<1>6. RandomIsRight(u)
  BY <1>1, <1>2, <1>3, SMTT(20) DEF RandomIsRight
<1>7. CountsAreRight(u)
  <2> DEFINE T == TriedIn(t)
             N == Entries(t) \ T
  <2>1. IsFiniteSet(Entries(t)) /\ t.nNew = Cardinality(N) /\ t.nTried = Cardinality(T)
    BY <1>1 DEF CountsAreRight
  <2>2. IsFiniteSet(T) /\ IsFiniteSet(N) /\ IsFiniteSet(evicted)
    BY <1>4, <2>1, FS_Subset
  <2>3. a \in N /\ a \notin T \ evicted /\ evicted \cap (N \ {a}) = {} /\ T \cap evicted = evicted
    BY <1>4
  <2>4. Entries(u) \ TriedIn(u) = (N \ {a}) \cup evicted
    BY <1>2, <1>4, <1>5
  <2> HIDE DEF T, N
  <2>5. /\ IsFiniteSet(N \ {a}) /\ Cardinality(N \ {a}) = Cardinality(N) - 1
        /\ Cardinality(N \ {a}) \in Nat /\ Cardinality(evicted) \in Nat
        /\ Cardinality(T) \in Nat /\ Cardinality(N) \in Nat
    <3>1. IsFiniteSet(N \ {a}) /\ Cardinality(N \ {a}) = Cardinality(N) - 1
      BY <2>2, <2>3, FS_RemoveElement
    <3> QED
      BY <2>2, <3>1, FS_CardinalityType
  <2>6. Cardinality((N \ {a}) \cup evicted) = Cardinality(N \ {a}) + Cardinality(evicted)
    <3> DEFINE M == N \ {a}
    <3>1. IsFiniteSet(M) /\ M \cap evicted = {} /\ Cardinality(M) \in Nat
      BY <2>3, <2>5
    <3> HIDE DEF M
    <3>2. Cardinality(M \cup evicted) = Cardinality(M) + Cardinality(evicted) - Cardinality(M \cap evicted)
      BY <2>2, <3>1, FS_Union
    <3>3. Cardinality(M \cap evicted) = 0
      BY <3>1, FS_EmptySet
    <3> QED
      BY <2>5, <3>1, <3>2, <3>3 DEF M
  <2>7. IsFiniteSet(T \ evicted) /\ Cardinality(T \ evicted) = Cardinality(T) - Cardinality(evicted)
    BY <2>2, <2>3, FS_Difference
  <2>8. Cardinality((T \ evicted) \cup {a}) = Cardinality(T \ evicted) + 1
    BY <2>3, <2>7, FS_AddElement
  <2>9. u.nNew = Cardinality(Entries(u) \ TriedIn(u))
    BY <1>2, <2>1, <2>4, <2>5, <2>6
  <2>10. u.nTried = Cardinality(TriedIn(u))
    BY <1>2, <1>5, <2>1, <2>5, <2>7, <2>8 DEF T
  <2> QED
    BY <1>2, <2>1, <2>9, <2>10 DEF CountsAreRight
<1>8. ReferencesAreRight(u, NoAddr)
  <2>1. NoAddr \notin Entries(t)
    BY <1>1, EntryTypes
  <2> SUFFICES ASSUME NEW x \in Entries(t)
               PROVE  u.mapInfo[x].nRefCount = Cardinality(BucketsOf(u, x)) + (IF x = NoAddr THEN 1 ELSE 0)
    BY <1>2 DEF ReferencesAreRight
  <2>2. CASE x = a
    <3>1. u.mapInfo[x].nRefCount = 0
      BY <1>3, <2>2
    <3>2. Cardinality(BucketsOf(u, x)) = 0
      BY <1>2, <2>2, FS_EmptySet
    <3> QED
      BY <2>1, <3>1, <3>2
  <2>3. CASE x # a /\ x \in evicted
    BY <1>2, <1>3, <2>1, <2>3
  <2>4. CASE x # a /\ x \notin evicted
    BY <1>1, <1>2, <1>3, <2>4 DEF ReferencesAreRight
  <2> QED
    BY <2>2, <2>3, <2>4
<1>9. KindsAreRight(u)
  <2> SUFFICES ASSUME NEW x \in Entries(t)
               PROVE  IF u.mapInfo[x].fInTried THEN u.mapInfo[x].nRefCount = 0 /\ u.mapInfo[x].nLastSuccess > 0
                      ELSE u.mapInfo[x].nRefCount \in 1 .. NewBucketsPerAddress
    BY <1>2 DEF KindsAreRight
  <2>1. IF t.mapInfo[x].fInTried THEN t.mapInfo[x].nRefCount = 0 /\ t.mapInfo[x].nLastSuccess > 0
        ELSE t.mapInfo[x].nRefCount \in 1 .. NewBucketsPerAddress
    BY <1>1 DEF KindsAreRight
  <2>2. CASE x = a
    BY <1>3, <2>2
  <2>3. CASE x # a /\ x \in evicted
    <3>1. u.mapInfo[x].fInTried = FALSE
      BY <1>3, <2>3
    <3>2. u.mapInfo[x].nRefCount = 1
      BY <1>3, <2>3
    <3>3. 1 \in 1 .. NewBucketsPerAddress
      BY Sizes
    <3> QED
      BY <3>1, <3>2, <3>3
  <2>4. CASE x # a /\ x \notin evicted
    BY <1>3, <2>1, <2>4
  <2> QED
    BY <2>2, <2>3, <2>4
<1>10. TriedIsRight(u)
  <2> SUFFICES ASSUME NEW b \in TriedBucket
               PROVE  /\ ToSet(u.vvTried[b]) = Belongs(u, b) /\ IsInjective(u.vvTried[b])
                      /\ Len(u.vvTried[b]) <= TriedBucketSize
    BY DEF TriedIsRight
  <2>1. /\ ToSet(t.vvTried[b]) = Belongs(t, b) /\ IsInjective(t.vvTried[b])
        /\ Len(t.vvTried[b]) <= TriedBucketSize
    BY <1>1 DEF TriedIsRight
  <2>2. t.vvTried \in [TriedBucket -> Seq(NetAddr)]
    BY <1>1, EntryTypes
  <2>3. u.vvTried[b] = IF b = bucket THEN q ELSE t.vvTried[b]
    BY <1>2, <2>2
  <2>4. Belongs(u, b) = IF b = bucket THEN (Belongs(t, b) \ evicted) \cup {a} ELSE Belongs(t, b)
    <3>1. \A x \in Entries(t) : u.mapInfo[x].port = t.mapInfo[x].port
      BY <1>3
    <3>2. \A x \in evicted : GetTriedBucket[x][t.mapInfo[x].port] = bucket
      BY <1>0 DEF Belongs
    <3> QED
      BY <1>0, <1>4, <1>5, <3>1, <3>2, SMTT(20) DEF Belongs
  <2> QED
    BY <1>0, <2>1, <2>3, <2>4
<1> QED
  BY <1>0, <1>2, <1>5, <1>6, <1>7, <1>8, <1>9, <1>10 DEF AddrIsRight, Owes

\* g is t with a in none of the new buckets, and no longer counted as new.
Unlisted(t, g, a) ==
    g = [mapInfo |-> [t.mapInfo EXCEPT ![a] = [t.mapInfo[a] EXCEPT !.nRefCount = 0]], vRandom |-> t.vRandom,
         vvNew |-> [b \in NewBucket |-> t.vvNew[b] \ {a}], vvTried |-> t.vvTried,
         nNew |-> t.nNew - 1, nTried |-> t.nTried]

\* a is in none of the new buckets then, and nothing else has changed.
LEMMA UnlistedFacts ==
  ASSUME NEW t, AddrIsRight(t), NEW a \in Entries(t), ~t.mapInfo[a].fInTried, NEW g, Unlisted(t, g, a)
  PROVE  /\ g \in Tables /\ Entries(g) = Entries(t) /\ g.vRandom = t.vRandom /\ g.vvTried = t.vvTried
         /\ g.nNew = t.nNew - 1 /\ g.nTried = t.nTried
         /\ \A x \in Entries(t) :
               /\ g.mapInfo[x].port = t.mapInfo[x].port /\ g.mapInfo[x].source = t.mapInfo[x].source
               /\ g.mapInfo[x].nLastSuccess = t.mapInfo[x].nLastSuccess
               /\ g.mapInfo[x].fInTried = t.mapInfo[x].fInTried
               /\ g.mapInfo[x].nRandomPos = t.mapInfo[x].nRandomPos
               /\ g.mapInfo[x].nRefCount = IF x = a THEN 0 ELSE t.mapInfo[x].nRefCount
         /\ \A b \in NewBucket : g.vvNew[b] = t.vvNew[b] \ {a}
         /\ t.nNew \in Nat \ {0}
<1> DEFINE info == [t.mapInfo EXCEPT ![a] = [t.mapInfo[a] EXCEPT !.nRefCount = 0]]
           new == [b \in NewBucket |-> t.vvNew[b] \ {a}]
<1>1. t \in Tables /\ CountsAreRight(t)
  BY DEF AddrIsRight, Owes
<1>2. /\ t.mapInfo \in [Entries(t) -> AddrInfo] /\ \A x \in Entries(t) : t.mapInfo[x] \in AddrInfo
      /\ Entries(t) \subseteq NetAddr /\ t.vRandom \in Seq(NetAddr) /\ t.vvNew \in [NewBucket -> SUBSET NetAddr]
      /\ t.vvTried \in [TriedBucket -> Seq(NetAddr)] /\ t.nNew \in Nat /\ t.nTried \in Nat
  BY <1>1, EntryTypes
<1>3. /\ info = [x \in Entries(t) |-> info[x]]
      /\ \A x \in Entries(t) : info[x] = IF x = a THEN [t.mapInfo[a] EXCEPT !.nRefCount = 0] ELSE t.mapInfo[x]
  BY <1>2
<1>4. new \in [NewBucket -> SUBSET NetAddr] /\ \A b \in NewBucket : new[b] = t.vvNew[b] \ {a}
  BY <1>2
<1>5. g = [mapInfo |-> info, vRandom |-> t.vRandom, vvNew |-> new, vvTried |-> t.vvTried,
           nNew |-> t.nNew - 1, nTried |-> t.nTried]
  BY DEF Unlisted
<1> HIDE DEF info, new
<1>6. ASSUME NEW x \in Entries(t)
      PROVE  /\ info[x] \in AddrInfo
             /\ info[x].port = t.mapInfo[x].port /\ info[x].source = t.mapInfo[x].source
             /\ info[x].nLastSuccess = t.mapInfo[x].nLastSuccess
             /\ info[x].fInTried = t.mapInfo[x].fInTried
             /\ info[x].nRandomPos = t.mapInfo[x].nRandomPos
             /\ info[x].nRefCount = IF x = a THEN 0 ELSE t.mapInfo[x].nRefCount
  <2>1. CASE x = a
    <3>1. info[x] = [t.mapInfo[x] EXCEPT !.nRefCount = 0]
      BY <1>3, <2>1
    <3>2. PICK n \in Nat : n = 0
      OBVIOUS
    <3>3. info[x] = [t.mapInfo[x] EXCEPT !.nRefCount = n]
      BY <3>1, <3>2
    <3>4. t.mapInfo[x] \in AddrInfo
      BY <1>2
    <3>5. /\ info[x] \in AddrInfo
          /\ info[x].port = t.mapInfo[x].port /\ info[x].source = t.mapInfo[x].source
          /\ info[x].nLastSuccess = t.mapInfo[x].nLastSuccess
          /\ info[x].nRefCount = n /\ info[x].fInTried = t.mapInfo[x].fInTried
          /\ info[x].nRandomPos = t.mapInfo[x].nRandomPos
      BY <3>3, <3>4, EntryCounted
    <3> QED
      BY <2>1, <3>2, <3>5
  <2>2. CASE x # a
    BY <1>2, <1>3, <2>2
  <2> QED
    BY <2>1, <2>2
<1>7. info \in [Entries(t) -> AddrInfo]
  BY <1>3, <1>6
<1>8. t.nNew \in Nat \ {0}
  <2>1. a \in Entries(t) \ TriedIn(t) /\ IsFiniteSet(Entries(t) \ TriedIn(t))
    BY <1>1, FS_Difference DEF TriedIn, CountsAreRight
  <2>2. Cardinality(Entries(t) \ TriedIn(t)) # 0
    BY <2>1, FS_EmptySet
  <2> QED
    BY <1>1, <1>2, <2>2 DEF CountsAreRight
<1>9. g \in Tables /\ Entries(g) = Entries(t)
  BY <1>2, <1>4, <1>5, <1>7, <1>8, TablesAre
<1>10. /\ g.mapInfo = info /\ g.vRandom = t.vRandom /\ g.vvNew = new /\ g.vvTried = t.vvTried
       /\ g.nNew = t.nNew - 1 /\ g.nTried = t.nTried
  BY <1>5
<1> QED
  BY <1>4, <1>6, <1>8, <1>9, <1>10

\* s holds each member of S once, and nothing else.
Enumerates(s, S) == s \in Seq(S) /\ IsInjective(s) /\ ToSet(s) = S

\* A value that is not in the sequence yet goes to its end.
LEMMA AppendedEnumerates ==
  ASSUME NEW T, NEW S, NEW r, r \in Seq(T), Enumerates(r, S), NEW a \in T, a \notin S
  PROVE  Append(r, a) \in Seq(T) /\ Enumerates(Append(r, a), S \cup {a})
<1> DEFINE q == Append(r, a)
<1>1. /\ Len(r) \in Nat /\ DOMAIN r = 1 .. Len(r) /\ q \in Seq(T) /\ Len(q) = Len(r) + 1
      /\ DOMAIN q = 1 .. Len(r) + 1 /\ q[Len(r) + 1] = a
      /\ \A i \in 1 .. Len(r) : q[i] = r[i]
  OBVIOUS
<1> HIDE DEF q
<1>2. ToSet(r) = S /\ \A i, j \in 1 .. Len(r) : r[i] = r[j] => i = j
  BY <1>1 DEF Enumerates, IsInjective
<1>3. \A i \in 1 .. Len(r) : r[i] \in S /\ r[i] # a
  BY <1>1, <1>2 DEF ToSet
<1>4. ToSet(q) = S \cup {a}
  <2>1. ASSUME NEW i \in DOMAIN q PROVE q[i] \in S \cup {a}
    BY <1>1, <1>3
  <2>2. ASSUME NEW x \in S PROVE x \in ToSet(q)
    <3>1. PICK i \in 1 .. Len(r) : r[i] = x
      BY <1>1, <1>2 DEF ToSet
    <3> QED
      BY <1>1, <3>1 DEF ToSet
  <2>3. a \in ToSet(q)
    BY <1>1 DEF ToSet
  <2>4. ToSet(q) \subseteq S \cup {a}
    BY <2>1 DEF ToSet
  <2> QED
    BY <2>2, <2>3, <2>4
<1>5. IsInjective(q)
  <2> SUFFICES ASSUME NEW i \in 1 .. Len(r) + 1, NEW j \in 1 .. Len(r) + 1, q[i] = q[j] PROVE i = j
    BY <1>1 DEF IsInjective
  <2> QED
    BY <1>1, <1>2, <1>3
<1>6. q \in Seq(S \cup {a})
  <2>1. q = [i \in 1 .. Len(r) + 1 |-> q[i]]
    BY <1>1
  <2>2. \A i \in 1 .. Len(r) + 1 : q[i] \in S \cup {a}
    BY <1>1, <1>3
  <2> QED
    BY <1>1, <2>1, <2>2
<1> QED
  BY <1>1, <1>4, <1>5, <1>6 DEF Enumerates, q

\* With room in its tried bucket, a goes to the end of it.
Joins(g, u, a, bucket) ==
    u = [mapInfo |-> [g.mapInfo EXCEPT ![a] = [g.mapInfo[a] EXCEPT !.fInTried = TRUE]], vRandom |-> g.vRandom,
         vvNew |-> g.vvNew, vvTried |-> [g.vvTried EXCEPT ![bucket] = Append(g.vvTried[bucket], a)],
         nNew |-> g.nNew, nTried |-> g.nTried + 1]

\* The tables after Good_ when there was room.
LEMMA JoinedIsRight ==
  ASSUME NEW t, AddrIsRight(t), NEW a \in Entries(t), ~t.mapInfo[a].fInTried, t.mapInfo[a].nLastSuccess > 0,
         NEW g, Unlisted(t, g, a), NEW bucket, bucket = GetTriedBucket[a][t.mapInfo[a].port],
         Len(g.vvTried[bucket]) < TriedBucketSize, NEW u, Joins(g, u, a, bucket)
  PROVE  AddrIsRight(u) /\ TriedIn(u) = TriedIn(t) \cup {a} /\ Entries(u) = Entries(t)
<1> DEFINE info == [g.mapInfo EXCEPT ![a] = [g.mapInfo[a] EXCEPT !.fInTried = TRUE]]
           q == Append(g.vvTried[bucket], a)
           tried == [g.vvTried EXCEPT ![bucket] = q]
<1>1. t \in Tables /\ NewIsRight(t) /\ TriedIsRight(t) /\ ReferencesAreRight(t, NoAddr) /\ CountsAreRight(t)
  BY DEF AddrIsRight, Owes
<1>2. /\ g \in Tables /\ Entries(g) = Entries(t) /\ g.vRandom = t.vRandom /\ g.vvTried = t.vvTried
      /\ g.nNew = t.nNew - 1 /\ g.nTried = t.nTried
      /\ \A x \in Entries(t) :
            /\ g.mapInfo[x].port = t.mapInfo[x].port /\ g.mapInfo[x].source = t.mapInfo[x].source
            /\ g.mapInfo[x].nLastSuccess = t.mapInfo[x].nLastSuccess
            /\ g.mapInfo[x].fInTried = t.mapInfo[x].fInTried
            /\ g.mapInfo[x].nRandomPos = t.mapInfo[x].nRandomPos
            /\ g.mapInfo[x].nRefCount = IF x = a THEN 0 ELSE t.mapInfo[x].nRefCount
      /\ \A b \in NewBucket : g.vvNew[b] = t.vvNew[b] \ {a}
      /\ t.nNew \in Nat \ {0}
  BY UnlistedFacts
<1>3. /\ g.mapInfo \in [Entries(t) -> AddrInfo] /\ \A x \in Entries(t) : g.mapInfo[x] \in AddrInfo
      /\ Entries(t) \subseteq NetAddr /\ g.vRandom \in Seq(NetAddr) /\ g.vvNew \in [NewBucket -> SUBSET NetAddr]
      /\ g.vvTried \in [TriedBucket -> Seq(NetAddr)] /\ g.nNew \in Nat /\ g.nTried \in Nat
  BY <1>2, EntryTypes
<1>4. bucket \in TriedBucket
  <2>1. a \in NetAddr /\ t.mapInfo[a] \in AddrInfo
    BY <1>1, EntryTypes
  <2> QED
    BY <2>1, EntryMembers, AddrManAssumption
<1>5. /\ info = [x \in Entries(t) |-> info[x]]
      /\ \A x \in Entries(t) : info[x] = IF x = a THEN [g.mapInfo[a] EXCEPT !.fInTried = TRUE] ELSE g.mapInfo[x]
  BY <1>3
<1>6. /\ ToSet(t.vvTried[bucket]) = Belongs(t, bucket) /\ IsInjective(t.vvTried[bucket])
      /\ Len(t.vvTried[bucket]) <= TriedBucketSize /\ a \notin Belongs(t, bucket)
  <2>1. a \notin Belongs(t, bucket)
    BY DEF Belongs, TriedIn
  <2> QED
    BY <1>1, <1>4, <2>1 DEF TriedIsRight
<1>7. /\ q \in Seq(NetAddr) /\ Len(q) <= TriedBucketSize
      /\ ToSet(q) = ToSet(t.vvTried[bucket]) \cup {a} /\ IsInjective(q)
  <2> DEFINE r == t.vvTried[bucket]
  <2>1. r \in Seq(NetAddr) /\ a \in NetAddr /\ a \notin ToSet(r) /\ IsInjective(r) /\ Len(r) < TriedBucketSize
        /\ q = Append(r, a)
    BY <1>2, <1>3, <1>4, <1>6, Zenon
  <2> HIDE DEF r, q
  <2>2. Len(r) \in Nat /\ Len(q) = Len(r) + 1
    BY <2>1
  <2>3. Enumerates(r, ToSet(r))
    <3>1. r \in Seq(ToSet(r))
      BY <2>1 DEF ToSet
    <3> QED
      BY <2>1, <3>1 DEF Enumerates
  <2>4. q \in Seq(NetAddr) /\ Enumerates(q, ToSet(r) \cup {a})
    BY <2>1, <2>3, AppendedEnumerates
  <2>5. Len(q) <= TriedBucketSize
    BY <2>1, <2>2, Sizes
  <2>6. IsInjective(q) /\ ToSet(q) = ToSet(r) \cup {a}
    BY <2>4 DEF Enumerates
  <2> QED
    BY <2>4, <2>5, <2>6, Zenon DEF r
<1>8. tried \in [TriedBucket -> Seq(NetAddr)] /\ tried = [t.vvTried EXCEPT ![bucket] = q]
  BY <1>2, <1>3, <1>7, Zenon
<1> HIDE DEF info, tried, q
<1>9. ASSUME NEW x \in Entries(t)
      PROVE  /\ info[x] \in AddrInfo
             /\ info[x].port = t.mapInfo[x].port
             /\ info[x].nLastSuccess = t.mapInfo[x].nLastSuccess
             /\ info[x].nRandomPos = t.mapInfo[x].nRandomPos
             /\ info[x].fInTried = IF x = a THEN TRUE ELSE t.mapInfo[x].fInTried
             /\ info[x].nRefCount = IF x = a THEN 0 ELSE t.mapInfo[x].nRefCount
  <2>1. CASE x = a
    <3>1. info[x] = [g.mapInfo[x] EXCEPT !.fInTried = TRUE]
      BY <1>5, <2>1
    <3>2. g.mapInfo[x] \in AddrInfo /\ g.mapInfo[x].nRefCount = 0
      BY <1>2, <1>3, <2>1
    <3>3. /\ info[x] \in AddrInfo /\ info[x].port = g.mapInfo[x].port
          /\ info[x].nLastSuccess = g.mapInfo[x].nLastSuccess
          /\ info[x].nRefCount = 0 /\ info[x].fInTried = TRUE /\ info[x].nRandomPos = g.mapInfo[x].nRandomPos
      BY <3>1, <3>2 DEF AddrInfo
    <3> QED
      BY <1>2, <2>1, <3>3
  <2>2. CASE x # a
    BY <1>2, <1>3, <1>5, <2>2
  <2> QED
    BY <2>1, <2>2
<1>10. info \in [Entries(t) -> AddrInfo]
  BY <1>5, <1>9
<1>11. u = [mapInfo |-> info, vRandom |-> g.vRandom, vvNew |-> g.vvNew, vvTried |-> tried,
            nNew |-> g.nNew, nTried |-> g.nTried + 1]
  BY Zenon DEF Joins, info, tried, q
<1>12. u \in Tables /\ Entries(u) = Entries(t)
  <2>1. PICK n, m, random, listed : n = g.nNew /\ m = g.nTried + 1 /\ random = g.vRandom /\ listed = g.vvNew
    OBVIOUS
  <2>2. n \in Nat /\ m \in Nat /\ random \in Seq(NetAddr) /\ listed \in [NewBucket -> SUBSET NetAddr]
    BY <1>3, <2>1
  <2>3. u = [mapInfo |-> info, vRandom |-> random, vvNew |-> listed, vvTried |-> tried, nNew |-> n, nTried |-> m]
    BY <1>11, <2>1
  <2>4. Entries(t) \in SUBSET NetAddr /\ tried \in [TriedBucket -> Seq(NetAddr)]
    BY <1>3, <1>8
  <2> QED
    BY <1>10, <2>2, <2>3, <2>4, TablesAre, Zenon
<1>13. /\ u.mapInfo = info /\ u.vRandom = t.vRandom /\ u.vvNew = g.vvNew /\ u.vvTried = tried
       /\ u.nNew = t.nNew - 1 /\ u.nTried = t.nTried + 1
  BY <1>2, <1>11
<1>14. NewIsRight(u)
  <2> SUFFICES ASSUME NEW b \in NewBucket
               PROVE  u.vvNew[b] \subseteq Entries(u) /\ Cardinality(u.vvNew[b]) <= NewBucketSize
    BY DEF NewIsRight
  <2>1. t.vvNew[b] \subseteq Entries(t) /\ Cardinality(t.vvNew[b]) <= NewBucketSize
    BY <1>1 DEF NewIsRight
  <2>2. u.vvNew[b] = t.vvNew[b] \ {a} /\ IsFiniteSet(t.vvNew[b]) /\ Cardinality(t.vvNew[b]) \in Nat
    BY <1>1, <1>2, <1>13, BucketsAreFinite
  <2>3. u.vvNew[b] \subseteq t.vvNew[b]
    BY <2>2
  <2>4. Cardinality(u.vvNew[b]) <= Cardinality(t.vvNew[b]) /\ Cardinality(u.vvNew[b]) \in Nat
    BY <2>2, <2>3, FS_Subset, FS_CardinalityType
  <2> QED
    BY <1>12, <2>1, <2>2, <2>3, <2>4, Sizes
<1>15. Promoted(t, u, a, bucket, {}, q)
  <2>1. Cardinality({}) = 0
    BY FS_EmptySet
  <2>2. BucketsOf(u, a) = {} /\ \A x \in Entries(t) \ {a} : BucketsOf(u, x) = BucketsOf(t, x)
    BY <1>2, <1>13 DEF BucketsOf
  <2>3. u.nNew = (t.nNew - 1) + 0 /\ u.nTried = (t.nTried + 1) - 0
    BY <1>2, <1>3, <1>13
  <2>4. t.mapInfo \in [Entries(t) -> AddrInfo] /\ \A x \in Entries(t) : t.mapInfo[x].fInTried \in BOOLEAN
    BY <1>1, EntryTypes, EntryMembers
  <2>5. ASSUME NEW x \in Entries(t)
        PROVE  /\ u.mapInfo[x].port = t.mapInfo[x].port /\ u.mapInfo[x].nLastSuccess = t.mapInfo[x].nLastSuccess
               /\ u.mapInfo[x].nRandomPos = t.mapInfo[x].nRandomPos
               /\ u.mapInfo[x].fInTried = (x = a \/ (t.mapInfo[x].fInTried /\ x \notin {}))
               /\ u.mapInfo[x].nRefCount = IF x = a THEN 0 ELSE IF x \in {} THEN 1
                                           ELSE t.mapInfo[x].nRefCount
    BY <1>9, <1>13, <2>4
  <2> QED
    BY <1>7, <1>8, <1>12, <1>13, <1>14, <2>1, <2>2, <2>3, <2>5, SMTT(20) DEF Promoted
<1>16. AddrIsRight(u) /\ TriedIn(u) = TriedIn(t) \cup {a}
  <2>1. PICK none : none = {}
    OBVIOUS
  <2>2. Promoted(t, u, a, bucket, none, q)
    BY <1>15, <2>1
  <2>3. AddrIsRight(u) /\ TriedIn(u) = (TriedIn(t) \ none) \cup {a}
    BY <2>2, PromotedIsRight
  <2> QED
    BY <2>1, <2>3
<1> QED
  BY <1>12, <1>16

\* In a full bucket a takes the place of v, which goes back to the new bucket home.
Replaced(t, g, u, a, bucket, v, home, q) ==
    /\ bucket = GetTriedBucket[a][t.mapInfo[a].port] /\ v \in Belongs(t, bucket)
    /\ home \in NewBucket /\ Cardinality(g.vvNew[home]) < NewBucketSize
    /\ q \in Seq(NetAddr) /\ ToSet(q) = (ToSet(t.vvTried[bucket]) \ {v}) \cup {a}
    /\ IsInjective(q) /\ Len(q) <= TriedBucketSize
    /\ u = [mapInfo |-> [g.mapInfo EXCEPT ![v] = [g.mapInfo[v] EXCEPT !.fInTried = FALSE, !.nRefCount = 1],
                                          ![a] = [g.mapInfo[a] EXCEPT !.fInTried = TRUE]],
            vRandom |-> g.vRandom, vvNew |-> [g.vvNew EXCEPT ![home] = g.vvNew[home] \cup {v}],
            vvTried |-> [g.vvTried EXCEPT ![bucket] = q], nNew |-> g.nNew + 1, nTried |-> g.nTried]

\* The tables after Good_ when v had to give up its place and went to home.
LEMMA ReplacedIsRight ==
  ASSUME NEW t, AddrIsRight(t), NEW a \in Entries(t), ~t.mapInfo[a].fInTried, t.mapInfo[a].nLastSuccess > 0,
         NEW g, Unlisted(t, g, a), NEW bucket, NEW v, NEW home, NEW q, NEW u,
         Replaced(t, g, u, a, bucket, v, home, q)
  PROVE  /\ AddrIsRight(u) /\ TriedIn(u) = (TriedIn(t) \ {v}) \cup {a} /\ Entries(u) = Entries(t)
         /\ v \in u.vvNew[home]
<1> DEFINE info == [g.mapInfo EXCEPT ![v] = [g.mapInfo[v] EXCEPT !.fInTried = FALSE, !.nRefCount = 1],
                                     ![a] = [g.mapInfo[a] EXCEPT !.fInTried = TRUE]]
           new == [g.vvNew EXCEPT ![home] = g.vvNew[home] \cup {v}]
           tried == [g.vvTried EXCEPT ![bucket] = q]
<1>0. /\ bucket = GetTriedBucket[a][t.mapInfo[a].port] /\ v \in Belongs(t, bucket)
      /\ home \in NewBucket /\ Cardinality(g.vvNew[home]) < NewBucketSize
      /\ q \in Seq(NetAddr) /\ ToSet(q) = (ToSet(t.vvTried[bucket]) \ {v}) \cup {a}
      /\ IsInjective(q) /\ Len(q) <= TriedBucketSize
  BY DEF Replaced
<1>1. t \in Tables /\ NewIsRight(t) /\ TriedIsRight(t) /\ ReferencesAreRight(t, NoAddr) /\ CountsAreRight(t)
      /\ KindsAreRight(t)
  BY DEF AddrIsRight, Owes
<1>2. /\ g \in Tables /\ Entries(g) = Entries(t) /\ g.vRandom = t.vRandom /\ g.vvTried = t.vvTried
      /\ g.nNew = t.nNew - 1 /\ g.nTried = t.nTried
      /\ \A x \in Entries(t) :
            /\ g.mapInfo[x].port = t.mapInfo[x].port /\ g.mapInfo[x].source = t.mapInfo[x].source
            /\ g.mapInfo[x].nLastSuccess = t.mapInfo[x].nLastSuccess
            /\ g.mapInfo[x].fInTried = t.mapInfo[x].fInTried
            /\ g.mapInfo[x].nRandomPos = t.mapInfo[x].nRandomPos
            /\ g.mapInfo[x].nRefCount = IF x = a THEN 0 ELSE t.mapInfo[x].nRefCount
      /\ \A b \in NewBucket : g.vvNew[b] = t.vvNew[b] \ {a}
      /\ t.nNew \in Nat \ {0}
  BY UnlistedFacts
<1>3. /\ g.mapInfo \in [Entries(t) -> AddrInfo] /\ \A x \in Entries(t) : g.mapInfo[x] \in AddrInfo
      /\ Entries(t) \subseteq NetAddr /\ g.vRandom \in Seq(NetAddr) /\ g.vvNew \in [NewBucket -> SUBSET NetAddr]
      /\ g.vvTried \in [TriedBucket -> Seq(NetAddr)] /\ g.nNew \in Nat /\ g.nTried \in Nat
  BY <1>2, EntryTypes
<1>4. v \in Entries(t) /\ v # a /\ t.mapInfo[v].fInTried = TRUE /\ v \in NetAddr
  <2>1. v \in TriedIn(t)
    BY <1>0 DEF Belongs
  <2>2. t.mapInfo[v].fInTried \in BOOLEAN
    BY <1>1, <2>1, EntryTypes, EntryMembers DEF TriedIn
  <2> QED
    BY <1>3, <2>1, <2>2 DEF TriedIn
<1>5. BucketsOf(t, v) = {}
  <2>1. ASSUME NEW b \in NewBucket, v \in t.vvNew[b] PROVE FALSE
    <3>1. Owes(t, NoAddr)
      BY DEF AddrIsRight
    <3> QED
      BY <1>4, <2>1, <3>1, NewEntries
  <2> QED
    BY <2>1 DEF BucketsOf
<1>6. info \in [Entries(t) -> AddrInfo]
      /\ \A x \in Entries(t) : 
             /\ info[x].port = t.mapInfo[x].port
             /\ info[x].nLastSuccess = t.mapInfo[x].nLastSuccess
             /\ info[x].nRandomPos = t.mapInfo[x].nRandomPos
             /\ info[x].fInTried = IF x = a THEN TRUE ELSE IF x = v THEN FALSE ELSE t.mapInfo[x].fInTried
             /\ info[x].nRefCount = IF x = a THEN 0 ELSE IF x = v THEN 1 ELSE t.mapInfo[x].nRefCount
  <2>1. /\ info = [x \in Entries(t) |-> info[x]]
        /\ \A x \in Entries(t) : info[x] = IF x = a THEN [g.mapInfo[a] EXCEPT !.fInTried = TRUE]
                                           ELSE IF x = v THEN [g.mapInfo[v] EXCEPT !.fInTried = FALSE, !.nRefCount = 1]
                                           ELSE g.mapInfo[x]
    BY <1>3, <1>4
  <2> HIDE DEF info
  <2>2. ASSUME NEW x \in Entries(t)
        PROVE  /\ info[x] \in AddrInfo
               /\ info[x].port = t.mapInfo[x].port
               /\ info[x].nLastSuccess = t.mapInfo[x].nLastSuccess
               /\ info[x].nRandomPos = t.mapInfo[x].nRandomPos
               /\ info[x].fInTried = IF x = a THEN TRUE ELSE IF x = v THEN FALSE ELSE t.mapInfo[x].fInTried
               /\ info[x].nRefCount = IF x = a THEN 0 ELSE IF x = v THEN 1 ELSE t.mapInfo[x].nRefCount
    <3>1. g.mapInfo[x] \in AddrInfo
      BY <1>3
    <3>2. CASE x = a
      <4>1. info[x] = [g.mapInfo[x] EXCEPT !.fInTried = TRUE] /\ g.mapInfo[x].nRefCount = 0
        BY <1>2, <2>1, <3>2
      <4>2. /\ info[x] \in AddrInfo /\ info[x].port = g.mapInfo[x].port
            /\ info[x].nLastSuccess = g.mapInfo[x].nLastSuccess
            /\ info[x].nRefCount = 0 /\ info[x].fInTried = TRUE /\ info[x].nRandomPos = g.mapInfo[x].nRandomPos
        BY <3>1, <4>1 DEF AddrInfo
      <4> QED
        BY <1>2, <3>2, <4>2
    <3>3. CASE x # a /\ x = v
      <4>1. info[x] = [g.mapInfo[x] EXCEPT !.fInTried = FALSE, !.nRefCount = 1]
        BY <2>1, <3>3
      <4>2. PICK e : e = [g.mapInfo[x] EXCEPT !.fInTried = FALSE]
        OBVIOUS
      <4>3. /\ e \in AddrInfo /\ e.port = g.mapInfo[x].port /\ e.nLastSuccess = g.mapInfo[x].nLastSuccess
            /\ e.fInTried = FALSE /\ e.nRandomPos = g.mapInfo[x].nRandomPos
        BY <3>1, <4>2 DEF AddrInfo
      <4>4. PICK n \in Nat : n = 1
        OBVIOUS
      <4>5. info[x] = [e EXCEPT !.nRefCount = n]
        BY <4>1, <4>2, <4>4
      <4>6. /\ info[x] \in AddrInfo /\ info[x].port = e.port /\ info[x].nLastSuccess = e.nLastSuccess
            /\ info[x].nRefCount = n /\ info[x].fInTried = e.fInTried /\ info[x].nRandomPos = e.nRandomPos
        BY <4>3, <4>5, EntryCounted
      <4> QED
        BY <1>2, <3>3, <4>3, <4>4, <4>6
    <3>4. CASE x # a /\ x # v
      BY <1>2, <2>1, <3>1, <3>4
    <3> QED
      BY <3>2, <3>3, <3>4
  <2> QED
    BY <2>1, <2>2
<1>7. new \in [NewBucket -> SUBSET NetAddr]
      /\ \A b \in NewBucket : new[b] = IF b = home THEN (t.vvNew[b] \ {a}) \cup {v} ELSE t.vvNew[b] \ {a}
  BY <1>0, <1>2, <1>3, <1>4, Zenon
<1>8. tried \in [TriedBucket -> Seq(NetAddr)] /\ tried = [t.vvTried EXCEPT ![bucket] = q]
  BY <1>0, <1>2, <1>3, Zenon
<1>9. u = [mapInfo |-> info, vRandom |-> g.vRandom, vvNew |-> new, vvTried |-> tried,
           nNew |-> g.nNew + 1, nTried |-> g.nTried]
  BY DEF Replaced
<1> HIDE DEF info, tried, new
<1>10. u \in Tables /\ Entries(u) = Entries(t)
  <2>1. /\ g.nNew + 1 \in Nat /\ g.nTried \in Nat /\ Entries(t) \in SUBSET NetAddr
        /\ g.vRandom \in Seq(NetAddr)
    BY <1>3
  <2>2. info \in [Entries(t) -> AddrInfo]
    BY <1>6
  <2>3. new \in [NewBucket -> SUBSET NetAddr] /\ tried \in [TriedBucket -> Seq(NetAddr)]
    BY <1>7, <1>8
  <2> QED
    BY <1>9, <2>1, <2>2, <2>3, TablesAre
<1>11. /\ u.mapInfo = info /\ u.vRandom = t.vRandom /\ u.vvNew = new /\ u.vvTried = tried
       /\ u.nNew = (t.nNew - 1) + 1 /\ u.nTried = t.nTried
  BY <1>2, <1>9
<1>12. NewIsRight(u)
  <2> SUFFICES ASSUME NEW b \in NewBucket
               PROVE  u.vvNew[b] \subseteq Entries(u) /\ Cardinality(u.vvNew[b]) <= NewBucketSize
    BY DEF NewIsRight
  <2> DEFINE B == t.vvNew[b] \ {a}
  <2>1. t.vvNew[b] \subseteq Entries(t) /\ Cardinality(t.vvNew[b]) <= NewBucketSize
    BY <1>1 DEF NewIsRight
  <2>2. IsFiniteSet(t.vvNew[b]) /\ Cardinality(t.vvNew[b]) \in Nat /\ B \subseteq t.vvNew[b]
    BY <1>1, BucketsAreFinite
  <2>3. v \notin t.vvNew[b]
    BY <1>5 DEF BucketsOf
  <2>4. u.vvNew[b] = IF b = home THEN B \cup {v} ELSE B
    BY <1>7, <1>11
  <2>5. g.vvNew[b] = B
    BY <1>2
  <2> HIDE DEF B
  <2>6. IsFiniteSet(B) /\ Cardinality(B) <= Cardinality(t.vvNew[b]) /\ Cardinality(B) \in Nat
    BY <2>2, FS_Subset, FS_CardinalityType
  <2>7. CASE b = home
    <3>1. v \notin B
      BY <2>2, <2>3
    <3>2. Cardinality(B \cup {v}) = Cardinality(B) + 1
      BY <2>6, <3>1, FS_AddElement
    <3>3. Cardinality(B) < NewBucketSize
      BY <1>0, <2>5, <2>7
    <3> QED
      BY <1>4, <1>10, <2>1, <2>2, <2>4, <2>6, <2>7, <3>2, <3>3, Sizes
  <2>8. CASE b # home
    BY <1>10, <2>1, <2>2, <2>4, <2>6, <2>8, Sizes
  <2> QED
    BY <2>7, <2>8
<1>13. AddrIsRight(u) /\ TriedIn(u) = (TriedIn(t) \ {v}) \cup {a}
  <2>1. PICK evicted : evicted = {v}
    OBVIOUS
  <2>2. Cardinality(evicted) = 1
    BY <2>1, FS_Singleton
  <2>3. BucketsOf(u, a) = {}
    BY <1>4, <1>7, <1>11 DEF BucketsOf
  <2>4. \A x \in Entries(t) \ (evicted \cup {a}) : BucketsOf(u, x) = BucketsOf(t, x)
    BY <1>7, <1>11, <2>1 DEF BucketsOf
  <2>5. \A x \in evicted : Cardinality(BucketsOf(u, x)) = 1
    <3>1. BucketsOf(u, v) = {home}
      BY <1>0, <1>5, <1>7, <1>11 DEF BucketsOf
    <3> QED
      BY <2>1, <3>1, FS_Singleton
  <2>6. u.nNew = (t.nNew - 1) + Cardinality(evicted) /\ u.nTried = (t.nTried + 1) - Cardinality(evicted)
    <3>1. t.nTried \in Nat
      BY <1>1, EntryTypes
    <3> QED
      BY <1>11, <2>2, <3>1
  <2>7. \A x \in Entries(t) : t.mapInfo[x].fInTried \in BOOLEAN
    BY <1>1, EntryTypes, EntryMembers
  <2>8. ASSUME NEW x \in Entries(t)
        PROVE  /\ u.mapInfo[x].port = t.mapInfo[x].port /\ u.mapInfo[x].nLastSuccess = t.mapInfo[x].nLastSuccess
               /\ u.mapInfo[x].nRandomPos = t.mapInfo[x].nRandomPos
               /\ u.mapInfo[x].fInTried = (x = a \/ (t.mapInfo[x].fInTried /\ x \notin evicted))
               /\ u.mapInfo[x].nRefCount = IF x = a THEN 0 ELSE IF x \in evicted THEN 1
                                           ELSE t.mapInfo[x].nRefCount
    BY <1>6, <1>11, <2>1, <2>7
  <2>9. evicted \subseteq Belongs(t, bucket) /\ ToSet(q) = (ToSet(t.vvTried[bucket]) \ evicted) \cup {a}
    BY <1>0, <2>1
  <2>10. Promoted(t, u, a, bucket, evicted, q)
    BY <1>0, <1>8, <1>10, <1>11, <1>12, <2>3, <2>4, <2>5, <2>6, <2>8, <2>9, Zenon DEF Promoted
  <2>11. AddrIsRight(u) /\ TriedIn(u) = (TriedIn(t) \ evicted) \cup {a}
    BY <2>10, PromotedIsRight
  <2> QED
    BY <2>1, <2>11
<1> QED
  BY <1>0, <1>7, <1>10, <1>11, <1>13

\* q is s with a at the place i.
Puts(q, s, i, a) == q = [s EXCEPT ![i] = a]

\* A sequence without repetition in which another value takes the place of one.
LEMMA PutInPlace ==
  ASSUME NEW S, NEW s \in Seq(S), IsInjective(s), NEW i \in 1 .. Len(s), NEW a \in S, a \notin ToSet(s),
         NEW q, Puts(q, s, i, a)
  PROVE  q \in Seq(S) /\ Len(q) = Len(s) /\ ToSet(q) = (ToSet(s) \ {s[i]}) \cup {a} /\ IsInjective(q)
<1>1. /\ Len(s) \in Nat /\ DOMAIN s = 1 .. Len(s) /\ \A k \in 1 .. Len(s) : s[k] \in S /\ s[k] # a
  BY DEF ToSet
<1>2. q \in Seq(S) /\ Len(q) = Len(s) /\ DOMAIN q = 1 .. Len(s)
  BY <1>1 DEF Puts
<1>3. \A k \in 1 .. Len(s) : q[k] = IF k = i THEN a ELSE s[k]
  BY <1>1 DEF Puts
<1>4. \A k, l \in 1 .. Len(s) : s[k] = s[l] => k = l
  BY <1>1 DEF IsInjective
<1>5. ToSet(q) = (ToSet(s) \ {s[i]}) \cup {a}
  <2>1. ASSUME NEW k \in 1 .. Len(s) PROVE q[k] \in (ToSet(s) \ {s[i]}) \cup {a}
    BY <1>1, <1>3, <1>4 DEF ToSet
  <2>2. ASSUME NEW k \in 1 .. Len(s), k # i PROVE s[k] \in ToSet(q)
    <3>1. q[k] = s[k]
      BY <1>3, <2>2
    <3> QED
      BY <1>2, <3>1 DEF ToSet
  <2>3. a \in ToSet(q)
    <3>1. q[i] = a
      BY <1>3
    <3> QED
      BY <1>2, <3>1 DEF ToSet
  <2>4. ToSet(q) \subseteq (ToSet(s) \ {s[i]}) \cup {a}
    BY <1>2, <2>1 DEF ToSet
  <2>5. ToSet(s) \ {s[i]} \subseteq ToSet(q)
    BY <1>1, <2>2 DEF ToSet
  <2> QED
    BY <2>3, <2>4, <2>5
<1>6. IsInjective(q)
  <2> SUFFICES ASSUME NEW k \in 1 .. Len(s), NEW l \in 1 .. Len(s), q[k] = q[l] PROVE k = l
    BY <1>2 DEF IsInjective
  <2> QED
    BY <1>1, <1>3, <1>4
<1> QED
  BY <1>2, <1>5, <1>6

\* There is room for the evicted one: in its own bucket, or in the one a has just left.
LEMMA HomeHasRoom ==
  ASSUME NEW t, AddrIsRight(t), NEW a \in Entries(t), ~t.mapInfo[a].fInTried, NEW g, Unlisted(t, g, a),
         NEW nOrigin \in BucketsOf(t, a), NEW v \in Entries(t)
  PROVE  HomeOf(g, v, nOrigin) \in NewBucket /\ Cardinality(g.vvNew[HomeOf(g, v, nOrigin)]) < NewBucketSize
<1> DEFINE own == GetNewBucket[v][g.mapInfo[v].source]
<1>1. t \in Tables /\ NewIsRight(t) /\ CountsAreRight(t)
  BY DEF AddrIsRight, Owes
<1>2. g \in Tables /\ Entries(g) = Entries(t) /\ \A b \in NewBucket : g.vvNew[b] = t.vvNew[b] \ {a}
  BY UnlistedFacts
<1>3. own \in NewBucket
  <2>1. v \in NetAddr /\ g.mapInfo[v] \in AddrInfo
    BY <1>2, EntryTypes
  <2> QED
    BY <2>1, EntryMembers, AddrManAssumption
<1>4. CASE Cardinality(g.vvNew[own]) < NewBucketSize
  BY <1>3, <1>4 DEF HomeOf
<1>5. CASE ~(Cardinality(g.vvNew[own]) < NewBucketSize)
  <2>1. HomeOf(g, v, nOrigin) = nOrigin
    BY <1>5 DEF HomeOf
  <2>2. nOrigin \in NewBucket /\ a \in t.vvNew[nOrigin]
    BY DEF BucketsOf
  <2>3. /\ IsFiniteSet(t.vvNew[nOrigin]) /\ Cardinality(t.vvNew[nOrigin]) \in Nat
        /\ Cardinality(t.vvNew[nOrigin]) <= NewBucketSize
    BY <1>1, <2>2, BucketsAreFinite DEF NewIsRight
  <2>4. Cardinality(t.vvNew[nOrigin] \ {a}) = Cardinality(t.vvNew[nOrigin]) - 1
    BY <2>2, <2>3, FS_RemoveElement
  <2>5. g.vvNew[nOrigin] = t.vvNew[nOrigin] \ {a}
    BY <1>2, <2>2
  <2> QED
    BY <2>1, <2>2, <2>3, <2>4, <2>5, Sizes
<1> QED
  BY <1>4, <1>5

\* Who was tried stays known, and is in a new bucket if it is tried no more.
Keeps(t, u) ==
    /\ TriedIn(t) \subseteq Entries(u)
    /\ \A x \in TriedIn(t) : x \notin TriedIn(u) => \E b \in NewBucket : x \in u.vvNew[b]

\* Evict member by member.
LEMMA EvictIs ==
  ASSUME NEW g \in Tables, NEW v, NEW home
  PROVE  Evict(g, v, home)
           = [mapInfo |-> [g.mapInfo EXCEPT ![v] = [g.mapInfo[v] EXCEPT !.fInTried = FALSE, !.nRefCount = 1]],
              vRandom |-> g.vRandom, vvNew |-> [g.vvNew EXCEPT ![home] = g.vvNew[home] \cup {v}],
              vvTried |-> g.vvTried, nNew |-> g.nNew + 1, nTried |-> g.nTried]
<1> DEFINE info == [g.mapInfo EXCEPT ![v] = [g.mapInfo[v] EXCEPT !.fInTried = FALSE, !.nRefCount = 1]]
           new == [g.vvNew EXCEPT ![home] = g.vvNew[home] \cup {v}]
<1>1. Evict(g, v, home) = [g EXCEPT !.mapInfo = info, !.vvNew = new, !.nNew = g.nNew + 1]
  BY DEF Evict
<1> HIDE DEF info, new
<1>2. Evict(g, v, home) = [mapInfo |-> info, vRandom |-> g.vRandom, vvNew |-> new,
                           vvTried |-> g.vvTried, nNew |-> g.nNew + 1, nTried |-> g.nTried]
  BY <1>1, TablesShape
<1> QED
  BY <1>2 DEF info, new

\* Whatever SelectTried has drawn, the tables are right and keep who was connected to.
LEMMA ReplacesIsRight ==
  ASSUME NEW t, AddrIsRight(t), NEW a \in Entries(t), ~t.mapInfo[a].fInTried, t.mapInfo[a].nLastSuccess > 0,
         NEW g, Unlisted(t, g, a), NEW bucket, bucket = GetTriedBucket[a][t.mapInfo[a].port],
         ~(Len(g.vvTried[bucket]) < TriedBucketSize), NEW nOrigin \in BucketsOf(t, a),
         NEW u \in Replaces(g, a, bucket, nOrigin)
  PROVE  AddrIsRight(u) /\ Keeps(t, u)
<1>1. t \in Tables /\ TriedIsRight(t)
  BY DEF AddrIsRight, Owes
<1>2. g \in Tables /\ g.vvTried = t.vvTried
  BY UnlistedFacts
<1>3. /\ g.vvTried \in [TriedBucket -> Seq(NetAddr)] /\ a \in NetAddr /\ bucket \in TriedBucket
  <2>1. a \in NetAddr /\ t.mapInfo[a] \in AddrInfo /\ g.vvTried \in [TriedBucket -> Seq(NetAddr)]
    BY <1>1, <1>2, EntryTypes
  <2> QED
    BY <2>1, EntryMembers, AddrManAssumption
<1>4. /\ ToSet(t.vvTried[bucket]) = Belongs(t, bucket) /\ IsInjective(t.vvTried[bucket])
      /\ Len(t.vvTried[bucket]) <= TriedBucketSize /\ a \notin Belongs(t, bucket)
  <2>1. a \notin Belongs(t, bucket)
    BY DEF Belongs, TriedIn
  <2> QED
    BY <1>1, <1>3, <2>1 DEF TriedIsRight
<1>5. PICK s \in SelectTried(g, bucket) :
         u = [Evict(g, s.bucket[s.nOldestPos], HomeOf(g, s.bucket[s.nOldestPos], nOrigin))
                EXCEPT !.vvTried[bucket] = [s.bucket EXCEPT ![s.nOldestPos] = a], !.mapInfo[a].fInTried = TRUE]
  BY Zenon DEF Replaces
<1> DEFINE v == s.bucket[s.nOldestPos]
           home == HomeOf(g, v, nOrigin)
           q == [s.bucket EXCEPT ![s.nOldestPos] = a]
<1>6. s \in Selected(g, bucket) /\ s.nOldest # NoAddr
  <2>1. g.vvTried[bucket] # << >>
    <3>1. Len(<< >>) < TriedBucketSize
      BY Sizes
    <3> QED
      BY <3>1
  <2> QED
    BY <1>2, <1>3, <1>4, <2>1, SelectTriedIsSelected, Zenon
<1>7. /\ s.bucket \in Seq(NetAddr) /\ Len(s.bucket) = Len(t.vvTried[bucket]) /\ IsInjective(s.bucket)
      /\ ToSet(s.bucket) = Belongs(t, bucket) /\ s.nOldestPos \in 1 .. Len(s.bucket)
  BY <1>2, <1>4, <1>6, Zenon DEF Selected
<1>8. v \in Belongs(t, bucket)
  BY <1>7 DEF ToSet
<1>9. v \in Entries(t) /\ v # a
  BY <1>4, <1>8, Zenon DEF Belongs, TriedIn
<1>10. home \in NewBucket /\ Cardinality(g.vvNew[home]) < NewBucketSize
  BY <1>9, HomeHasRoom
<1>11. /\ q \in Seq(NetAddr) /\ Len(q) <= TriedBucketSize /\ IsInjective(q)
       /\ ToSet(q) = (ToSet(t.vvTried[bucket]) \ {v}) \cup {a}
  <2> HIDE DEF q
  <2>1. q \in Seq(NetAddr) /\ Len(q) = Len(s.bucket) /\ ToSet(q) = (ToSet(s.bucket) \ {v}) \cup {a} /\ IsInjective(q)
    <3>1. q = [s.bucket EXCEPT ![s.nOldestPos] = a]
      BY DEF q
    <3>2. a \notin ToSet(s.bucket)
      BY <1>4, <1>7, Zenon
    <3>3. Puts(q, s.bucket, s.nOldestPos, a)
      BY <3>1 DEF Puts
    <3> QED
      BY <1>3, <1>7, <3>2, <3>3, PutInPlace, SMTT(20)
  <2> QED
    BY <1>4, <1>7, <2>1, Zenon
<1>12. Replaced(t, g, u, a, bucket, v, home, q)
  <2> DEFINE e == Evict(g, v, home)
             settled == [g.mapInfo EXCEPT ![v] = [g.mapInfo[v] EXCEPT !.fInTried = FALSE, !.nRefCount = 1]]
             done == [g.mapInfo EXCEPT ![v] = [g.mapInfo[v] EXCEPT !.fInTried = FALSE, !.nRefCount = 1],
                                       ![a] = [g.mapInfo[a] EXCEPT !.fInTried = TRUE]]
             new == [g.vvNew EXCEPT ![home] = g.vvNew[home] \cup {v}]
  <2>1. g = [mapInfo |-> g.mapInfo, vRandom |-> g.vRandom, vvNew |-> g.vvNew,
             vvTried |-> g.vvTried, nNew |-> g.nNew, nTried |-> g.nTried]
    BY <1>2, TablesShape
  <2>2. Entries(g) = DOMAIN g.mapInfo /\ v \in DOMAIN g.mapInfo /\ a \in DOMAIN g.mapInfo
        /\ g.mapInfo = [x \in DOMAIN g.mapInfo |-> g.mapInfo[x]]
    <3>1. Entries(g) = Entries(t) /\ g.mapInfo \in [Entries(g) -> AddrInfo]
      BY <1>2, UnlistedFacts, EntryTypes
    <3> QED
      BY <1>9, <3>1
  <2>3. e = [mapInfo |-> settled, vRandom |-> g.vRandom, vvNew |-> new,
             vvTried |-> g.vvTried, nNew |-> g.nNew + 1, nTried |-> g.nTried]
    BY <1>2, EvictIs, Zenon
  <2> HIDE DEF settled, new, e
  <2>4. [settled EXCEPT ![a].fInTried = TRUE] = done
    BY <1>9, <2>2 DEF settled
  <2> HIDE DEF q, v, home
  <2>5. u = [e EXCEPT !.vvTried = [e.vvTried EXCEPT ![bucket] = q],
                      !.mapInfo = [e.mapInfo EXCEPT ![a].fInTried = TRUE]]
    BY <1>5 DEF e, q, v, home
  <2>6. e.vvTried = g.vvTried /\ e.mapInfo = settled
    BY <2>3
  <2> HIDE DEF done
  <2>7. u = [mapInfo |-> done, vRandom |-> g.vRandom, vvNew |-> new,
             vvTried |-> [g.vvTried EXCEPT ![bucket] = q], nNew |-> g.nNew + 1, nTried |-> g.nTried]
    BY <2>3, <2>4, <2>5, <2>6
  <2> QED
    BY <1>8, <1>10, <1>11, <2>7, Zenon DEF Replaced, done, new
<1> HIDE DEF v, home, q
<1>13. /\ AddrIsRight(u) /\ TriedIn(u) = (TriedIn(t) \ {v}) \cup {a} /\ Entries(u) = Entries(t)
       /\ v \in u.vvNew[home]
  BY <1>12, ReplacedIsRight
<1>14. Keeps(t, u)
  <2>1. TriedIn(t) \subseteq Entries(t)
    BY DEF TriedIn
  <2> QED
    BY <1>10, <1>13, <2>1 DEF Keeps
<1> QED
  BY <1>13, <1>14

\* With or without room in the tried bucket.
LEMMA MakeTriedIsRight ==
  ASSUME NEW t, AddrIsRight(t), NEW a \in Entries(t), ~t.mapInfo[a].fInTried, t.mapInfo[a].nLastSuccess > 0,
         NEW nOrigin \in BucketsOf(t, a), NEW u \in MakeTried(t, a, nOrigin)
  PROVE  AddrIsRight(u) /\ Keeps(t, u)
<1> DEFINE g == [t EXCEPT !.vvNew = [b \in NewBucket |-> @[b] \ {a}],
                          !.mapInfo[a].nRefCount =
                              @ - Cardinality({b \in NewBucket : a \in t.vvNew[b]}),
                          !.nNew = @ - 1]
           bucket == GetTriedBucket[a][t.mapInfo[a].port]
<1>1. t \in Tables /\ ReferencesAreRight(t, NoAddr)
  BY DEF AddrIsRight, Owes
<1>2. t.mapInfo[a].nRefCount = Cardinality(BucketsOf(t, a)) /\ Cardinality(BucketsOf(t, a)) \in Nat
  <2>1. t.mapInfo[a].nRefCount = Cardinality(BucketsOf(t, a)) + 0
    BY <1>1, EntryTypes DEF ReferencesAreRight
  <2> QED
    BY <1>1, <2>1, BucketsAreFinite
<1>3. Unlisted(t, g, a)
  <2> DEFINE info == [t.mapInfo EXCEPT ![a] = [t.mapInfo[a] EXCEPT !.nRefCount = 0]]
             new == [b \in NewBucket |-> t.vvNew[b] \ {a}]
  <2>1. t.mapInfo[a].nRefCount - Cardinality({b \in NewBucket : a \in t.vvNew[b]}) = 0
    BY <1>2 DEF BucketsOf
  <2>2. g = [t EXCEPT !.vvNew = new,
                      !.mapInfo = [t.mapInfo EXCEPT ![a] = [t.mapInfo[a] EXCEPT !.nRefCount =
                          t.mapInfo[a].nRefCount - Cardinality({b \in NewBucket : a \in t.vvNew[b]})]],
                      !.nNew = t.nNew - 1]
    OBVIOUS
  <2>3. g = [t EXCEPT !.vvNew = new, !.mapInfo = info, !.nNew = t.nNew - 1]
    BY <2>1, <2>2
  <2> HIDE DEF info, new, g
  <2>4. t = [mapInfo |-> t.mapInfo, vRandom |-> t.vRandom, vvNew |-> t.vvNew, vvTried |-> t.vvTried,
             nNew |-> t.nNew, nTried |-> t.nTried]
    BY <1>1, TablesShape
  <2>5. g = [mapInfo |-> info, vRandom |-> t.vRandom, vvNew |-> new, vvTried |-> t.vvTried,
             nNew |-> t.nNew - 1, nTried |-> t.nTried]
    BY <2>3, <2>4
  <2> QED
    BY <2>5 DEF Unlisted, info, new
<1>4. u \in IF Len(g.vvTried[bucket]) < TriedBucketSize
            THEN {[g EXCEPT !.vvTried[bucket] = Append(@, a), !.nTried = @ + 1, !.mapInfo[a].fInTried = TRUE]}
            ELSE Replaces(g, a, bucket, nOrigin)
  <2>1. GetTriedBucket[a][g.mapInfo[a].port] = bucket
    <3> HIDE DEF g
    <3> QED
      BY <1>3, UnlistedFacts
  <2>2. u \in LET home == GetTriedBucket[a][t.mapInfo[a].port]
              IN  IF Len(g.vvTried[home]) < TriedBucketSize
                  THEN {[g EXCEPT !.vvTried[home] = Append(@, a), !.nTried = @ + 1, !.mapInfo[a].fInTried = TRUE]}
                  ELSE Replaces(g, a, home, nOrigin)
    BY DEF MakeTried
  <2> QED
    BY <2>2
<1> HIDE DEF g, bucket
<1>5. CASE Len(g.vvTried[bucket]) < TriedBucketSize
  <2>1. u = [g EXCEPT !.vvTried = [g.vvTried EXCEPT ![bucket] = Append(g.vvTried[bucket], a)],
                      !.nTried = g.nTried + 1,
                      !.mapInfo = [g.mapInfo EXCEPT ![a] = [g.mapInfo[a] EXCEPT !.fInTried = TRUE]]]
    BY <1>4, <1>5
  <2>2. g \in Tables
    BY <1>3, UnlistedFacts
  <2>3. Joins(g, u, a, bucket)
    <3> DEFINE tried == [g.vvTried EXCEPT ![bucket] = Append(g.vvTried[bucket], a)]
               info == [g.mapInfo EXCEPT ![a] = [g.mapInfo[a] EXCEPT !.fInTried = TRUE]]
    <3>1. u = [g EXCEPT !.vvTried = tried, !.nTried = g.nTried + 1, !.mapInfo = info]
      BY <2>1
    <3> HIDE DEF tried, info
    <3>2. g = [mapInfo |-> g.mapInfo, vRandom |-> g.vRandom, vvNew |-> g.vvNew, vvTried |-> g.vvTried,
               nNew |-> g.nNew, nTried |-> g.nTried]
      BY <2>2, TablesShape
    <3>3. u = [mapInfo |-> info, vRandom |-> g.vRandom, vvNew |-> g.vvNew, vvTried |-> tried,
               nNew |-> g.nNew, nTried |-> g.nTried + 1]
      BY <3>1, <3>2
    <3> QED
      BY <3>3 DEF Joins, tried, info
  <2>4. AddrIsRight(u) /\ TriedIn(u) = TriedIn(t) \cup {a} /\ Entries(u) = Entries(t)
    BY <1>3, <1>5, <2>3, JoinedIsRight DEF bucket
  <2> QED
    BY <2>4 DEF Keeps, TriedIn
<1>6. CASE ~(Len(g.vvTried[bucket]) < TriedBucketSize)
  <2>1. u \in Replaces(g, a, bucket, nOrigin)
    BY <1>4, <1>6
  <2> QED
    BY <1>3, <1>6, <2>1, ReplacesIsRight DEF bucket
<1> QED
  BY <1>5, <1>6

-----------------------------------------------------------------------------
\* The primed variables are the members of the tables they become.
LEMMA Becomes ==
  ASSUME NEW t \in Tables, Become(t)
  PROVE  tables' = t
  BY TablesShape DEF Become, tables

\* What every step but a restart does to tables that are right.
Goes(t, u) == AddrIsRight(u) /\ Keeps(t, u)

\* Add_ of an address that is not known.
LEMMA AddUnknownGoes ==
  ASSUME AddrIsRight(tables), NEW a \in NetAddr, NEW port \in Port, NEW source \in Source,
         AddUnknown(a, port, source)
  PROVE  \E u : Become(u) /\ Goes(tables, u)
<1> DEFINE b == GetNewBucket[a][source]
<1>1. PICK t : Creates(tables, t, a, port, source)
  BY DEF Creates
<1>2. PICK c : Counts(t, c, a)
  BY DEF Counts
<1>3. a \in NetAddr \ Entries(tables) /\ \E u \in EntersBucket(t, a, b) : Become(u)
  BY <1>1 DEF AddUnknown, Known, Entries, tables, Creates
<1>4. PICK u \in EntersBucket(t, a, b) : Become(u)
  BY <1>3
<1>5. /\ Owes(c, a) /\ Entries(c) = Entries(tables) \cup {a} /\ TriedIn(c) = TriedIn(tables)
      /\ t.vvNew = tables.vvNew /\ c.vvNew = tables.vvNew
  BY <1>1, <1>2, <1>3, CreatedIsRight
<1>6. b \in NewBucket
  BY AddrManAssumption
<1> HIDE DEF b
<1>7. AddrIsRight(u) /\ TriedIn(u) = TriedIn(c)
  <2>1. a \notin t.vvNew[b]
    BY <1>3, <1>5, <1>6 DEF AddrIsRight, Owes, NewIsRight
  <2> QED
    BY <1>2, <1>4, <1>5, <1>6, <2>1, EntersIsRight
<1>8. Keeps(tables, u)
  BY <1>5, <1>7 DEF Keeps, TriedIn
<1> QED
  BY <1>4, <1>7, <1>8 DEF Goes

\* Add_ of an address that is.
LEMMA AddKnownGoes ==
  ASSUME AddrIsRight(tables), NEW a \in NetAddr, NEW source \in Source, AddKnown(a, source)
  PROVE  \E u : Become(u) /\ Goes(tables, u)
<1> DEFINE b == GetNewBucket[a][source]
<1>1. /\ a \in Entries(tables) /\ ~tables.mapInfo[a].fInTried
      /\ tables.mapInfo[a].nRefCount # NewBucketsPerAddress
      /\ \E u \in EntersBucket(tables, a, b) : Become(u)
  BY DEF AddKnown, Known, Entries, tables
<1>2. PICK u \in EntersBucket(tables, a, b) : Become(u)
  BY <1>1
<1>3. b \in NewBucket
  BY AddrManAssumption
<1> HIDE DEF b
<1>4. CASE a \in tables.vvNew[b]
  <2>1. u = tables
    BY <1>2, <1>4 DEF EntersBucket
  <2> QED
    BY <1>2, <2>1 DEF Goes, Keeps, TriedIn
<1>5. CASE a \notin tables.vvNew[b]
  <2>1. PICK c : Counts(tables, c, a)
    BY DEF Counts
  <2>2. Owes(c, a) /\ Entries(c) = Entries(tables) /\ TriedIn(c) = TriedIn(tables) /\ c.vvNew = tables.vvNew
    BY <1>1, <2>1, CountedIsRight
  <2>3. AddrIsRight(u) /\ TriedIn(u) = TriedIn(c)
    BY <1>1, <1>2, <1>3, <1>5, <2>1, <2>2, EntersIsRight
  <2>4. Keeps(tables, u)
    BY <2>2, <2>3 DEF Keeps, TriedIn
  <2> QED
    BY <1>2, <2>3, <2>4 DEF Goes
<1> QED
  BY <1>4, <1>5

\* Good_.
LEMMA GoodGoes ==
  ASSUME AddrIsRight(tables), NEW a \in NetAddr, NEW port \in Port, NEW nTime \in 1 .. MaxTime,
         Good(a, port, nTime)
  PROVE  \E u : Become(u) /\ Goes(tables, u)
<1>1. PICK t : Succeeds(tables, t, a, nTime)
  BY DEF Succeeds
<1>2. /\ a \in Entries(tables)
      /\ \/ Become(t)
         \/ ~tables.mapInfo[a].fInTried
            /\ \E nOrigin \in BucketsOf(tables, a) : \E u \in MakeTried(t, a, nOrigin) : Become(u)
  <2>1. tables.mapInfo = mapInfo /\ tables.vvNew = vvNew /\ Entries(tables) = Known
    BY DEF tables, Entries, Known
  <2> QED
    BY <1>1, <2>1 DEF Good, BucketsOf, Succeeds
<1>3. /\ AddrIsRight(t) /\ Entries(t) = Entries(tables) /\ TriedIn(t) = TriedIn(tables)
      /\ t.vvNew = tables.vvNew /\ t.mapInfo[a].nLastSuccess > 0
      /\ t.mapInfo[a].fInTried = tables.mapInfo[a].fInTried
  BY <1>1, <1>2, SucceededIsRight
<1>4. CASE Become(t)
  <2>1. Keeps(tables, t)
    BY <1>3 DEF Keeps, TriedIn
  <2> QED
    BY <1>3, <1>4, <2>1 DEF Goes
<1>5. CASE /\ ~tables.mapInfo[a].fInTried
           /\ \E nOrigin \in BucketsOf(tables, a) : \E u \in MakeTried(t, a, nOrigin) : Become(u)
  <2>1. PICK nOrigin \in BucketsOf(tables, a) : \E u \in MakeTried(t, a, nOrigin) : Become(u)
    BY <1>5
  <2>2. PICK u \in MakeTried(t, a, nOrigin) : Become(u)
    BY <2>1
  <2>3. nOrigin \in BucketsOf(t, a) /\ a \in Entries(t) /\ ~t.mapInfo[a].fInTried
    BY <1>2, <1>3, <1>5 DEF BucketsOf
  <2>4. AddrIsRight(u) /\ Keeps(t, u)
    BY <1>3, <2>2, <2>3, MakeTriedIsRight
  <2>5. Keeps(tables, u)
    BY <1>3, <2>4 DEF Keeps
  <2> QED
    BY <2>2, <2>4, <2>5 DEF Goes
<1> QED
  BY <1>2, <1>4, <1>5

\* GetAddr_ asks for no more than there are, and only shuffles them.
LEMMA GetAddrGoes ==
  ASSUME AddrIsRight(tables), GetAddr
  PROVE  \E u : Become(u) /\ Goes(tables, u)
<1> DEFINE len == Len(tables.vRandom)
           share == (GetAddrMaxPct * len) \div 100
           nNodes == IF share > GetAddrMax THEN GetAddrMax ELSE share
<1>1. tables \in Tables /\ RandomIsRight(tables) /\ Owes(tables, NoAddr)
  BY DEF AddrIsRight, Owes
<1>2. len \in Nat
  BY <1>1, EntryTypes
<1>3. PICK u \in Shuffled(tables, nNodes) : Become(u)
  BY DEF GetAddr, tables
<1>4. nNodes \in Nat /\ nNodes <= len
  <2>1. GetAddrMaxPct \in 0 .. 100 /\ GetAddrMax \in Nat
    BY AddrManAssumption
  <2> DEFINE p == GetAddrMaxPct * len
  <2>2. p \in Nat /\ p <= 100 * len
    <3> HIDE DEF len
    <3> QED
      BY <1>2, <2>1
  <2> HIDE DEF p, len
  <2>3. p \div 100 \in Nat /\ p \div 100 <= len
    BY <1>2, <2>2
  <2>4. share \in Nat /\ share <= len
    BY <2>3 DEF p
  <2> HIDE DEF share
  <2> QED
    BY <1>2, <2>1, <2>4
<1> HIDE DEF nNodes
<1>5. Reordered(tables, u) /\ RandomIsRight(u)
  BY <1>1, <1>3, <1>4, ShuffledIsRight
<1>6. AddrIsRight(u) /\ TriedIn(u) = TriedIn(tables)
  BY <1>1, <1>5, ReorderedIsRight DEF AddrIsRight
<1>7. Keeps(tables, u)
  BY <1>6 DEF Keeps, TriedIn
<1> QED
  BY <1>3, <1>6, <1>7 DEF Goes

\* It is as long as S is large.
LEMMA EnumerationLength ==
  ASSUME NEW s, NEW S, Enumerates(s, S), IsFiniteSet(S)
  PROVE  Len(s) = Cardinality(S)
<1>1. Len(s) \in Nat /\ s \in [1 .. Len(s) -> S] /\ DOMAIN s = 1 .. Len(s)
  BY DEF Enumerates
<1>2. s \in Injection(1 .. Len(s), S)
  BY <1>1 DEF Enumerates, Injection, IsInjective
<1>3. s \in Surjection(1 .. Len(s), S)
  BY <1>1 DEF Enumerates, Surjection, ToSet
<1>4. ExistsBijection(1 .. Len(s), S)
  BY <1>2, <1>3 DEF ExistsBijection, Bijection
<1> QED
  BY <1>1, <1>4, FS_CountingElements

\* The orders that a restart may read entries in are such sequences.
LEMMA OrderEnumerates ==
  ASSUME NEW S, IsFiniteSet(S), NEW s \in SetToSeqs(S)
  PROVE  Enumerates(s, S)
<1> DEFINE n == Cardinality(S)
<1>1. n \in Nat
  BY FS_CardinalityType
<1>2. s \in [1 .. n -> S] /\ \A i, j \in 1 .. n : i # j => s[i] # s[j]
  BY DEF SetToSeqs
<1>3. s \in Injection(1 .. n, S)
  BY <1>2 DEF Injection, IsInjective
<1>4. IsFiniteSet(1 .. n) /\ Cardinality(1 .. n) = n
  BY <1>1, FS_Interval
<1>5. s \in Surjection(1 .. n, S)
  BY <1>3, <1>4, FS_Injection
<1>6. s \in Seq(S) /\ DOMAIN s = 1 .. n
  BY <1>1, <1>2
<1>7. ToSet(s) = S
  BY <1>5, <1>6 DEF ToSet, Surjection
<1> QED
  BY <1>3, <1>6, <1>7 DEF Enumerates, Injection, IsInjective

\* One after the other.
LEMMA JoinedEnumerates ==
  ASSUME NEW p, NEW q, NEW S, NEW T, Enumerates(p, S), Enumerates(q, T), S \cap T = {}
  PROVE  Enumerates(p \o q, S \cup T) /\ Len(p \o q) = Len(p) + Len(q)
<1> DEFINE r == p \o q
<1>1. p \in Seq(S \cup T) /\ q \in Seq(S \cup T) /\ Len(p) \in Nat /\ Len(q) \in Nat
      /\ DOMAIN p = 1 .. Len(p) /\ DOMAIN q = 1 .. Len(q)
  BY DEF Enumerates
<1>2. /\ r \in Seq(S \cup T) /\ Len(r) = Len(p) + Len(q) /\ DOMAIN r = 1 .. Len(p) + Len(q)
      /\ \A i \in 1 .. Len(p) + Len(q) : r[i] = IF i <= Len(p) THEN p[i] ELSE q[i - Len(p)]
  BY <1>1
<1> HIDE DEF r
<1>3. /\ ToSet(p) = S /\ ToSet(q) = T
      /\ \A i, j \in 1 .. Len(p) : p[i] = p[j] => i = j
      /\ \A i, j \in 1 .. Len(q) : q[i] = q[j] => i = j
  BY <1>1 DEF Enumerates, IsInjective
<1>4. (\A i \in 1 .. Len(p) : p[i] \in S) /\ (\A i \in 1 .. Len(q) : q[i] \in T)
  BY <1>1, <1>3 DEF ToSet
<1>5. ASSUME NEW i \in 1 .. Len(p) + Len(q)
      PROVE  (i \in 1 .. Len(p) /\ r[i] = p[i]) \/ (i - Len(p) \in 1 .. Len(q) /\ r[i] = q[i - Len(p)])
  BY <1>1, <1>2
<1>6. ToSet(r) = S \cup T
  <2>1. ToSet(r) \subseteq S \cup T
    BY <1>2, <1>4, <1>5 DEF ToSet
  <2>2. ASSUME NEW x \in S PROVE x \in ToSet(r)
    <3>1. PICK i \in 1 .. Len(p) : p[i] = x
      BY <1>1, <1>3 DEF ToSet
    <3>2. i \in 1 .. Len(p) + Len(q) /\ r[i] = x
      BY <1>1, <1>2, <3>1
    <3> QED
      BY <1>2, <3>2 DEF ToSet
  <2>3. ASSUME NEW x \in T PROVE x \in ToSet(r)
    <3>1. PICK i \in 1 .. Len(q) : q[i] = x
      BY <1>1, <1>3 DEF ToSet
    <3>2. i + Len(p) \in 1 .. Len(p) + Len(q) /\ ~(i + Len(p) <= Len(p)) /\ (i + Len(p)) - Len(p) = i
      BY <1>1
    <3>3. r[i + Len(p)] = x
      BY <1>2, <3>1, <3>2
    <3> QED
      BY <1>2, <3>2, <3>3 DEF ToSet
  <2> QED
    BY <2>1, <2>2, <2>3
<1>7. IsInjective(r)
  <2> SUFFICES ASSUME NEW i \in 1 .. Len(p) + Len(q), NEW j \in 1 .. Len(p) + Len(q), r[i] = r[j] PROVE i = j
    BY <1>2 DEF IsInjective
  <2>1. CASE i \in 1 .. Len(p) /\ r[i] = p[i]
    <3>1. CASE j \in 1 .. Len(p) /\ r[j] = p[j]
      BY <1>3, <2>1, <3>1
    <3>2. CASE j - Len(p) \in 1 .. Len(q) /\ r[j] = q[j - Len(p)]
      BY <1>4, <2>1, <3>2
    <3> QED
      BY <1>5, <3>1, <3>2
  <2>2. CASE i - Len(p) \in 1 .. Len(q) /\ r[i] = q[i - Len(p)]
    <3>1. CASE j \in 1 .. Len(p) /\ r[j] = p[j]
      BY <1>4, <2>2, <3>1
    <3>2. CASE j - Len(p) \in 1 .. Len(q) /\ r[j] = q[j - Len(p)]
      <4>1. i - Len(p) = j - Len(p)
        BY <1>3, <2>2, <3>2
      <4> QED
        BY <1>1, <4>1
    <3> QED
      BY <1>5, <3>1, <3>2
  <2> QED
    BY <1>5, <2>1, <2>2
<1> QED
  BY <1>2, <1>6, <1>7 DEF Enumerates, r

\* What Those leaves is each member of both sets once.
LEMMA ThoseEnumerate ==
  ASSUME NEW s, NEW S, Enumerates(s, S), NEW T
  PROVE  Enumerates(Those(s, T), S \cap T)
<1> DEFINE n == Len(s)
           V == Seq(S)
           Take(r, i) == IF s[i] \in T THEN Append(r, s[i]) ELSE r
           after == CHOOSE f : f = [i \in 0 .. n |-> IF i = 0 THEN << >> ELSE Take(f[i - 1], i)]
           Seen(i) == {s[j] : j \in 1 .. i} \cap T
<1>1. Those(s, T) = after[n]
  BY DEF Those
<1>2. n \in Nat /\ DOMAIN s = 1 .. n /\ << >> \in V
      /\ \A i \in 1 .. n : s[i] \in S /\ \A j \in 1 .. n : s[i] = s[j] => i = j
  BY DEF Enumerates, IsInjective
<1>3. Seen(n) = S \cap T /\ Seen(0) = {}
  <2>1. {s[j] : j \in 1 .. n} = S
    BY <1>2 DEF Enumerates, ToSet
  <2> QED
    BY <2>1
<1>4. \A r \in V : \A i \in 1 .. n : Take(r, i) \in V
  BY <1>2
<1> HIDE DEF Take, V, n, Seen
<1>5. \E f : f = [i \in 0 .. n |-> IF i = 0 THEN << >> ELSE Take(f[i - 1], i)]
  <2> DEFINE Advance == [i \in 1 .. n |-> [r \in V |-> Take(r, i)]]
  <2>1. Advance \in [1 .. n -> [V -> V]]
    BY <1>4
  <2>2. \A i \in 1 .. n : \A r \in V : Advance[i][r] = Take(r, i)
    OBVIOUS
  <2> HIDE DEF Advance
  <2>3. PICK base : base = << >>
    OBVIOUS
  <2>4. base \in V
    BY <1>2, <2>3
  <2>5. PICK f : Iterates(f, n, V, base, Advance)
    BY <1>2, <2>1, <2>4, Recursion
  <2>6. f = [i \in 0 .. n |-> IF i = 0 THEN << >> ELSE Take(f[i - 1], i)]
    BY <1>2, <2>2, <2>3, <2>5 DEF Iterates
  <2> QED
    BY <2>6
<1>6. after = [i \in 0 .. n |-> IF i = 0 THEN << >> ELSE Take(after[i - 1], i)]
  BY <1>5
<1> HIDE DEF after
<1>7. after[0] = << >> /\ \A i \in 1 .. n : after[i] = Take(after[i - 1], i)
  <2>1. ASSUME NEW i \in 0 .. n PROVE after[i] = IF i = 0 THEN << >> ELSE Take(after[i - 1], i)
    BY <1>6, Zenon
  <2>2. 0 \in 0 .. n /\ \A i \in 1 .. n : i \in 0 .. n /\ i # 0
    BY <1>2
  <2> QED
    BY <2>1, <2>2, Zenon
<1>8. n \in {i \in 0 .. n : after[i] \in V /\ Enumerates(after[i], Seen(i))}
  <2> DEFINE G == {i \in 0 .. n : after[i] \in V /\ Enumerates(after[i], Seen(i))}
  <2>1. 0 \in G
    <3>1. Enumerates(<< >>, {})
      BY DEF Enumerates, IsInjective, ToSet
    <3>2. Enumerates(after[0], Seen(0)) /\ after[0] \in V /\ 0 \in 0 .. n
      <4>1. after[0] = << >> /\ Seen(0) = {}
        BY <1>3, <1>7
      <4>2. << >> \in V /\ 0 \in 0 .. n
        BY <1>2
      <4> QED
        BY <3>1, <4>1, <4>2
    <3> QED
      BY <3>2
  <2>2. ASSUME NEW i \in 1 .. n, i - 1 \in G PROVE i \in G
    <3>1. after[i - 1] \in V /\ Enumerates(after[i - 1], Seen(i - 1)) /\ i \in 0 .. n
      BY <1>2, <2>2
    <3>2. s[i] \in S /\ s[i] \notin {s[j] : j \in 1 .. i - 1} /\ s[i] \notin Seen(i - 1)
      BY <1>2 DEF Seen
    <3>3. {s[j] : j \in 1 .. i} = {s[j] : j \in 1 .. i - 1} \cup {s[i]}
      <4>1. 1 .. i = (1 .. i - 1) \cup {i}
        BY <1>2
      <4> QED
        BY <4>1
    <3>4. CASE s[i] \in T
      <4>1. after[i] = Append(after[i - 1], s[i]) /\ Seen(i) = Seen(i - 1) \cup {s[i]}
        BY <1>7, <3>3, <3>4 DEF Take, Seen
      <4>2. after[i] \in Seq(S) /\ Enumerates(after[i], Seen(i))
        BY <3>1, <3>2, <4>1, AppendedEnumerates DEF V
      <4> QED
        BY <3>1, <4>2 DEF V
    <3>5. CASE s[i] \notin T
      <4>1. after[i] = after[i - 1] /\ Seen(i) = Seen(i - 1)
        BY <1>7, <3>3, <3>5 DEF Take, Seen
      <4> QED
        BY <3>1, <4>1
    <3> QED
      BY <3>4, <3>5
  <2> HIDE DEF G
  <2>3. 0 .. n \subseteq G
    BY <1>2, <2>1, <2>2, UpTo
  <2>4. n \in G
    BY <1>2, <2>3
  <2> QED
    BY <2>4 DEF G
<1> QED
  BY <1>1, <1>3, <1>8

\* An entry as it is written.
Blank(e) == [e EXCEPT !.nRefCount = 0, !.fInTried = FALSE, !.nRandomPos = 0]

\* f is the entry w with other values of the members that are kept in memory only.
Filled(w, f, n, k, p) == f = [w EXCEPT !.nRefCount = n, !.fInTried = k, !.nRandomPos = p]

\* Only the three members differ.
LEMMA EntryFilled ==
  ASSUME NEW w, NEW x, NEW y, NEW z, NEW m, NEW j, NEW q, NEW n, NEW k, NEW p, NEW f,
         w = [port |-> x, source |-> y, nLastSuccess |-> z, nRefCount |-> m, fInTried |-> j, nRandomPos |-> q],
         Filled(w, f, n, k, p)
  PROVE  f = [port |-> x, source |-> y, nLastSuccess |-> z, nRefCount |-> n, fInTried |-> k, nRandomPos |-> p]
  BY DEF Filled

\* What is left out of the file is put back when it is read.
LEMMA EntryRestored ==
  ASSUME NEW e \in AddrInfo, NEW w, w = Blank(e), NEW p \in Nat, NEW f, Filled(w, f, e.nRefCount, e.fInTried, p)
  PROVE  f = [e EXCEPT !.nRandomPos = p] /\ [f EXCEPT !.nRandomPos = 0] = [e EXCEPT !.nRandomPos = 0]
<1>1. PICK x, y, z, m, j, q : e = [port |-> x, source |-> y, nLastSuccess |-> z, nRefCount |-> m,
                                   fInTried |-> j, nRandomPos |-> q]
  BY DEF AddrInfo
<1>2. w = [port |-> x, source |-> y, nLastSuccess |-> z, nRefCount |-> 0, fInTried |-> FALSE, nRandomPos |-> 0]
  <2>1. PICK n, k, r : n = 0 /\ k = FALSE /\ r = 0
    OBVIOUS
  <2>2. Filled(e, w, n, k, r)
    BY <2>1 DEF Blank, Filled
  <2>3. w = [port |-> x, source |-> y, nLastSuccess |-> z, nRefCount |-> n, fInTried |-> k, nRandomPos |-> r]
    BY <1>1, <2>2, EntryFilled
  <2> QED
    BY <2>1, <2>3
<1>3. e.nRefCount = m /\ e.fInTried = j
  BY <1>1
<1>4. f = [port |-> x, source |-> y, nLastSuccess |-> z, nRefCount |-> m, fInTried |-> j, nRandomPos |-> p]
  <2>1. PICK n, k, r : n = 0 /\ k = FALSE /\ r = 0
    OBVIOUS
  <2>2. w = [port |-> x, source |-> y, nLastSuccess |-> z, nRefCount |-> n, fInTried |-> k, nRandomPos |-> r]
    BY <1>2, <2>1
  <2>3. Filled(w, f, m, j, p)
    BY <1>3
  <2> QED
    BY <2>2, <2>3, EntryFilled
<1>5. f = [e EXCEPT !.nRandomPos = p]
  BY <1>1, <1>4
<1>6. [f EXCEPT !.nRandomPos = 0] = [e EXCEPT !.nRandomPos = 0]
  BY <1>1, <1>4
<1> QED
  BY <1>5, <1>6

\* The file: both kinds of entries, blank, and the new buckets.
LEMMA SerializedIs ==
  ASSUME NEW t, AddrIsRight(t), NEW file, file = Serialized(t)
  PROVE  /\ DOMAIN file.new = Entries(t) \ TriedIn(t) /\ DOMAIN file.tried = TriedIn(t)
         /\ file.vvNew = t.vvNew
         /\ \A a \in Entries(t) \ TriedIn(t) : file.new[a] = Blank(t.mapInfo[a])
         /\ \A a \in TriedIn(t) : file.tried[a] = Blank(t.mapInfo[a])
<1>1. \A a \in Entries(t) : (t.mapInfo[a].nRefCount > 0) <=> ~t.mapInfo[a].fInTried
  <2> SUFFICES ASSUME NEW a \in Entries(t)
               PROVE  (t.mapInfo[a].nRefCount > 0) <=> ~t.mapInfo[a].fInTried
    OBVIOUS
  <2>1. IF t.mapInfo[a].fInTried THEN t.mapInfo[a].nRefCount = 0 /\ t.mapInfo[a].nLastSuccess > 0
        ELSE t.mapInfo[a].nRefCount \in 1 .. NewBucketsPerAddress
    BY DEF AddrIsRight, Owes, KindsAreRight
  <2> QED
    BY <2>1, Sizes
<1>2. {a \in DOMAIN t.mapInfo : t.mapInfo[a].nRefCount > 0} = Entries(t) \ TriedIn(t)
  BY <1>1 DEF Entries, TriedIn
<1>3. {a \in DOMAIN t.mapInfo : t.mapInfo[a].fInTried} = TriedIn(t)
  BY DEF Entries, TriedIn
<1>4. file = [new |-> [a \in Entries(t) \ TriedIn(t) |-> Blank(t.mapInfo[a])],
              tried |-> [a \in TriedIn(t) |-> Blank(t.mapInfo[a])], vvNew |-> t.vvNew]
  BY <1>2, <1>3 DEF Serialized, Blank
<1> QED
  BY <1>4

\* r is t in another order, also in the tried buckets.
Restored(t, r) ==
    /\ r \in Tables /\ RandomIsRight(r) /\ Entries(r) = Entries(t) /\ r.vvNew = t.vvNew
    /\ r.nNew = t.nNew /\ r.nTried = t.nTried
    /\ \A b \in TriedBucket : /\ ToSet(r.vvTried[b]) = ToSet(t.vvTried[b]) /\ IsInjective(r.vvTried[b])
                              /\ Len(r.vvTried[b]) <= TriedBucketSize
    /\ \A a \in Entries(t) :
          /\ r.mapInfo[a].port = t.mapInfo[a].port /\ r.mapInfo[a].source = t.mapInfo[a].source
          /\ r.mapInfo[a].nLastSuccess = t.mapInfo[a].nLastSuccess
          /\ r.mapInfo[a].nRefCount = t.mapInfo[a].nRefCount
          /\ r.mapInfo[a].fInTried = t.mapInfo[a].fInTried
          /\ [r.mapInfo[a] EXCEPT !.nRandomPos = 0] = [t.mapInfo[a] EXCEPT !.nRandomPos = 0]

\* The order matters to nothing else.
LEMMA RestoredIsRight ==
  ASSUME NEW t, AddrIsRight(t), NEW r, Restored(t, r)
  PROVE  AddrIsRight(r)
<1>1. /\ r \in Tables /\ RandomIsRight(r) /\ Entries(r) = Entries(t) /\ r.vvNew = t.vvNew
      /\ r.nNew = t.nNew /\ r.nTried = t.nTried
  BY DEF Restored
<1>2. \A a \in Entries(t) :
          /\ r.mapInfo[a].port = t.mapInfo[a].port
          /\ r.mapInfo[a].nLastSuccess = t.mapInfo[a].nLastSuccess
          /\ r.mapInfo[a].nRefCount = t.mapInfo[a].nRefCount
          /\ r.mapInfo[a].fInTried = t.mapInfo[a].fInTried
  BY DEF Restored
<1>3. CountsAreRight(t) /\ ReferencesAreRight(t, NoAddr) /\ KindsAreRight(t) /\ NewIsRight(t) /\ TriedIsRight(t)
  BY DEF AddrIsRight, Owes
<1>4. TriedIn(r) = TriedIn(t)
  BY <1>1, <1>2 DEF TriedIn
<1>5. CountsAreRight(r)
  BY <1>1, <1>3, <1>4 DEF CountsAreRight
<1>6. ReferencesAreRight(r, NoAddr)
  <2>1. \A a : BucketsOf(r, a) = BucketsOf(t, a)
    BY <1>1 DEF BucketsOf
  <2> QED
    BY <1>1, <1>2, <1>3, <2>1 DEF ReferencesAreRight
<1>7. KindsAreRight(r) /\ NewIsRight(r)
  BY <1>1, <1>2, <1>3 DEF KindsAreRight, NewIsRight
<1>8. TriedIsRight(r)
  <2>1. \A b : Belongs(r, b) = Belongs(t, b)
    BY <1>2, <1>4 DEF Belongs, TriedIn
  <2>2. \A b \in TriedBucket : /\ ToSet(r.vvTried[b]) = ToSet(t.vvTried[b]) /\ IsInjective(r.vvTried[b])
                               /\ Len(r.vvTried[b]) <= TriedBucketSize
    BY DEF Restored
  <2> QED
    BY <1>3, <2>1, <2>2 DEF TriedIsRight
<1> QED
  BY <1>1, <1>5, <1>6, <1>7, <1>8 DEF AddrIsRight, Owes

\* Every tried entry finds its place again.
LEMMA BucketRestored ==
  ASSUME NEW t, AddrIsRight(t), NEW file, file = Serialized(t), NEW order \in SetToSeqs(TriedIn(t)),
         NEW b \in TriedBucket, NEW s,
         s = Those(order, {a \in DOMAIN file.tried : GetTriedBucket[a][file.tried[a].port] = b})
  PROVE  Enumerates(s, Belongs(t, b)) /\ Len(s) \in Nat /\ Len(s) <= TriedBucketSize
<1> DEFINE T == {a \in DOMAIN file.tried : GetTriedBucket[a][file.tried[a].port] = b}
<1>1. t \in Tables /\ CountsAreRight(t) /\ TriedIsRight(t)
  BY DEF AddrIsRight, Owes
<1>2. TriedIn(t) \subseteq Entries(t) /\ IsFiniteSet(TriedIn(t))
  <2>1. TriedIn(t) \in SUBSET Entries(t) /\ IsFiniteSet(Entries(t))
    BY <1>1 DEF CountsAreRight, TriedIn
  <2> QED
    BY <2>1, FS_Subset
<1>3. Enumerates(order, TriedIn(t))
  BY <1>2, OrderEnumerates
<1>4. T = Belongs(t, b)
  <2>1. DOMAIN file.tried = TriedIn(t) /\ \A a \in TriedIn(t) : file.tried[a] = Blank(t.mapInfo[a])
    BY SerializedIs
  <2>2. \A a \in TriedIn(t) : file.tried[a].port = t.mapInfo[a].port
    <3> SUFFICES ASSUME NEW a \in TriedIn(t) PROVE file.tried[a].port = t.mapInfo[a].port
      OBVIOUS
    <3>1. t.mapInfo[a] \in AddrInfo
      BY <1>1, <1>2, EntryTypes
    <3> QED
      BY <2>1, <3>1 DEF Blank, AddrInfo
  <2> QED
    BY <2>1, <2>2 DEF Belongs
<1> HIDE DEF T
<1>5. s = Those(order, T)
  BY DEF T
<1>6. Belongs(t, b) \subseteq TriedIn(t)
  BY DEF Belongs
<1>7. Enumerates(s, Belongs(t, b))
  <2>1. Enumerates(s, TriedIn(t) \cap T)
    BY <1>3, <1>5, ThoseEnumerate
  <2>2. TriedIn(t) \cap T = Belongs(t, b)
    BY <1>4, <1>6
  <2> QED
    BY <2>1, <2>2
<1>8. Len(s) = Cardinality(Belongs(t, b)) /\ IsFiniteSet(Belongs(t, b))
  <2>1. IsFiniteSet(Belongs(t, b))
    BY <1>2, <1>6, FS_Subset
  <2> QED
    BY <1>7, <2>1, EnumerationLength
<1>9. Len(t.vvTried[b]) = Cardinality(Belongs(t, b)) /\ Len(t.vvTried[b]) <= TriedBucketSize
  <2>1. /\ ToSet(t.vvTried[b]) = Belongs(t, b) /\ IsInjective(t.vvTried[b])
        /\ Len(t.vvTried[b]) <= TriedBucketSize
    BY <1>1 DEF TriedIsRight
  <2>2. t.vvTried[b] \in Seq(NetAddr)
    BY <1>1, EntryTypes
  <2>3. t.vvTried[b] \in Seq(Belongs(t, b))
    <3>1. \A i \in 1 .. Len(t.vvTried[b]) : t.vvTried[b][i] \in Belongs(t, b)
      BY <2>1, <2>2 DEF ToSet
    <3> QED
      BY <2>2, <3>1
  <2>4. Enumerates(t.vvTried[b], Belongs(t, b))
    BY <2>1, <2>3 DEF Enumerates
  <2> QED
    BY <1>8, <2>1, <2>4, EnumerationLength
<1> QED
  BY <1>7, <1>8, <1>9, FS_CardinalityType

\* What is read back is what was written, in the order in which it is read.
LEMMA RestoreIs ==
  ASSUME NEW t, AddrIsRight(t), NEW newOrder \in SetToSeqs(Entries(t) \ TriedIn(t)),
         NEW triedOrder \in SetToSeqs(TriedIn(t)), NEW file, file = Serialized(t),
         NEW r, r = Restore(file, newOrder, triedOrder)
  PROVE  Restored(t, r)
<1> DEFINE InBucket(b) == Those(triedOrder, {a \in DOMAIN file.tried : GetTriedBucket[a][file.tried[a].port] = b})
           tried == [b \in TriedBucket |->
                        SubSeq(InBucket(b), 1, IF Len(InBucket(b)) < TriedBucketSize
                                               THEN Len(InBucket(b)) ELSE TriedBucketSize)]
           kept == Those(triedOrder, UNION {ToSet(tried[b]) : b \in TriedBucket})
           order == newOrder \o kept
           Position(a) == CHOOSE i \in DOMAIN order : order[i] = a
           Old(a) == IF a \in DOMAIN file.new THEN file.new[a] ELSE file.tried[a]
           Count(a) == Cardinality({b \in NewBucket : a \in file.vvNew[b]})
           info == [a \in ToSet(order) |->
                        [Old(a) EXCEPT !.nRefCount = Count(a), !.fInTried = a \notin DOMAIN file.new,
                                       !.nRandomPos = Position(a)]]
           N == Entries(t) \ TriedIn(t)
           T == TriedIn(t)
<1>1. r = [mapInfo |-> info, vRandom |-> order, vvNew |-> file.vvNew, vvTried |-> tried,
           nNew |-> Cardinality(DOMAIN file.new), nTried |-> Len(kept)]
  BY Zenon DEF Restore
<1>2. /\ DOMAIN file.new = N /\ DOMAIN file.tried = T /\ file.vvNew = t.vvNew
      /\ \A a \in N : file.new[a] = Blank(t.mapInfo[a])
      /\ \A a \in T : file.tried[a] = Blank(t.mapInfo[a])
  BY SerializedIs
<1>3. t \in Tables /\ CountsAreRight(t) /\ ReferencesAreRight(t, NoAddr) /\ KindsAreRight(t) /\ TriedIsRight(t)
  BY DEF AddrIsRight, Owes
<1>4. /\ Entries(t) \subseteq NetAddr /\ \A a \in Entries(t) : t.mapInfo[a] \in AddrInfo
      /\ t.vvNew \in [NewBucket -> SUBSET NetAddr] /\ NoAddr \notin Entries(t)
      /\ t.nNew \in Nat /\ t.nTried \in Nat
  BY <1>3, EntryTypes
<1>5. /\ T \subseteq Entries(t) /\ N \cap T = {} /\ N \cup T = Entries(t)
      /\ IsFiniteSet(T) /\ IsFiniteSet(N)
  <2>1. T \subseteq Entries(t)
    BY DEF TriedIn
  <2>2. IsFiniteSet(Entries(t))
    BY <1>3 DEF CountsAreRight
  <2> QED
    BY <2>1, <2>2, FS_Subset
<1> HIDE DEF N, T
<1>6. Enumerates(newOrder, N) /\ Enumerates(triedOrder, T)
  BY <1>5, OrderEnumerates DEF N, T
<1>7. \A b \in TriedBucket : /\ tried[b] = InBucket(b) /\ Enumerates(InBucket(b), Belongs(t, b))
                             /\ Len(InBucket(b)) <= TriedBucketSize
  <2> SUFFICES ASSUME NEW b \in TriedBucket
               PROVE  /\ tried[b] = InBucket(b) /\ Enumerates(InBucket(b), Belongs(t, b))
                      /\ Len(InBucket(b)) <= TriedBucketSize
    OBVIOUS
  <2>1. Enumerates(InBucket(b), Belongs(t, b)) /\ Len(InBucket(b)) \in Nat /\ Len(InBucket(b)) <= TriedBucketSize
    BY BucketRestored
  <2>2. tried[b] = SubSeq(InBucket(b), 1, IF Len(InBucket(b)) < TriedBucketSize
                                          THEN Len(InBucket(b)) ELSE TriedBucketSize)
    OBVIOUS
  <2> HIDE DEF InBucket, tried
  <2>3. tried[b] = SubSeq(InBucket(b), 1, Len(InBucket(b)))
    BY <2>1, <2>2, Sizes
  <2>4. InBucket(b) \in Seq(Belongs(t, b))
    BY <2>1 DEF Enumerates
  <2>5. SubSeq(InBucket(b), 1, Len(InBucket(b))) = InBucket(b)
    BY <2>4
  <2> QED
    BY <2>1, <2>3, <2>5
<1>8. tried \in [TriedBucket -> Seq(NetAddr)]
  <2>1. \A b \in TriedBucket : tried[b] \in Seq(NetAddr)
    <3> SUFFICES ASSUME NEW b \in TriedBucket PROVE tried[b] \in Seq(NetAddr)
      OBVIOUS
    <3>1. tried[b] \in Seq(Belongs(t, b)) /\ Belongs(t, b) \subseteq NetAddr
      BY <1>4, <1>5, <1>7, Zenon DEF Enumerates, Belongs, T
    <3> HIDE DEF tried, InBucket
    <3> QED
      BY <3>1
  <2> HIDE DEF InBucket
  <2> QED
    BY <2>1
<1> HIDE DEF tried, InBucket
<1>9. Enumerates(kept, T)
  <2> DEFINE all == UNION {ToSet(tried[b]) : b \in TriedBucket}
  <2>1. T \cap all = T
    <3> SUFFICES ASSUME NEW a \in T PROVE a \in all
      OBVIOUS
    <3>1. PICK b \in TriedBucket : a \in Belongs(t, b)
      <4>1. a \in NetAddr /\ t.mapInfo[a] \in AddrInfo
        BY <1>4, <1>5
      <4>2. GetTriedBucket[a][t.mapInfo[a].port] \in TriedBucket
        <5>1. t.mapInfo[a].port \in Port
          BY <4>1, EntryMembers
        <5> QED
          BY <4>1, <5>1, AddrManAssumption
      <4> QED
        BY <4>2 DEF Belongs, T
    <3>2. a \in ToSet(tried[b])
      BY <1>7, <3>1 DEF Enumerates
    <3> QED
      BY <3>2
  <2> HIDE DEF all
  <2>2. Enumerates(Those(triedOrder, all), T \cap all)
    BY <1>6, ThoseEnumerate
  <2> QED
    BY <2>1, <2>2 DEF all
<1> HIDE DEF kept
<1>10. Enumerates(order, Entries(t))
  BY <1>5, <1>6, <1>9, JoinedEnumerates
<1> HIDE DEF order
<1>11. Cardinality(N) = t.nNew /\ Len(kept) = t.nTried
  <2>1. Len(kept) = Cardinality(T)
    BY <1>5, <1>9, EnumerationLength
  <2> QED
    BY <1>3, <2>1 DEF CountsAreRight, N, T
<1>12. /\ order \in Seq(NetAddr) /\ Len(order) \in Nat /\ ToSet(order) = Entries(t) /\ DOMAIN order = 1 .. Len(order)
       /\ \A i \in 1 .. Len(order) : order[i] \in Entries(t) /\ \A j \in 1 .. Len(order) : order[i] = order[j] => i = j
  BY <1>4, <1>10 DEF Enumerates, IsInjective
<1>13. \A a \in Entries(t) : Position(a) \in 1 .. Len(order) /\ order[Position(a)] = a
  <2> SUFFICES ASSUME NEW a \in Entries(t) PROVE Position(a) \in DOMAIN order /\ order[Position(a)] = a
    BY <1>12
  <2>1. \E i \in DOMAIN order : order[i] = a
    BY <1>12 DEF ToSet
  <2> QED
    BY <2>1
<1> HIDE DEF Position
<1>14. \A a \in Entries(t) : /\ Old(a) = Blank(t.mapInfo[a]) /\ Count(a) = t.mapInfo[a].nRefCount
                             /\ (a \notin DOMAIN file.new) = t.mapInfo[a].fInTried
  <2> SUFFICES ASSUME NEW a \in Entries(t)
               PROVE  /\ Old(a) = Blank(t.mapInfo[a]) /\ Count(a) = t.mapInfo[a].nRefCount
                      /\ (a \notin DOMAIN file.new) = t.mapInfo[a].fInTried
    OBVIOUS
  <2>1. Old(a) = Blank(t.mapInfo[a])
    BY <1>2, <1>5
  <2>2. Count(a) = t.mapInfo[a].nRefCount
    <3>1. a # NoAddr /\ t.mapInfo[a].nRefCount \in Nat
      BY <1>4, EntryMembers
    <3>2. Count(a) = Cardinality(BucketsOf(t, a))
      BY <1>2 DEF BucketsOf
    <3>3. Cardinality(BucketsOf(t, a)) \in Nat
      BY <1>3, BucketsAreFinite
    <3>4. t.mapInfo[a].nRefCount = Cardinality(BucketsOf(t, a)) + 0
      BY <1>3, <3>1 DEF ReferencesAreRight
    <3> QED
      BY <3>2, <3>3, <3>4
  <2>3. (a \notin DOMAIN file.new) <=> t.mapInfo[a].fInTried
    BY <1>2 DEF N, TriedIn
  <2>4. t.mapInfo[a].fInTried \in BOOLEAN
    BY <1>4, EntryMembers
  <2> QED
    BY <2>1, <2>2, <2>3, <2>4
<1>15. \A a \in Entries(t) : Filled(Old(a), info[a], Count(a), a \notin DOMAIN file.new, Position(a))
  BY <1>12 DEF Filled
<1>16. DOMAIN info = Entries(t)
  BY <1>12
<1>17. info = [a \in Entries(t) |-> info[a]]
  BY <1>12
<1> HIDE DEF info, Old, Count
<1>18. \A a \in Entries(t) : /\ info[a] = [t.mapInfo[a] EXCEPT !.nRandomPos = Position(a)]
                             /\ [info[a] EXCEPT !.nRandomPos = 0] = [t.mapInfo[a] EXCEPT !.nRandomPos = 0]
  <2> SUFFICES ASSUME NEW a \in Entries(t)
               PROVE  /\ info[a] = [t.mapInfo[a] EXCEPT !.nRandomPos = Position(a)]
                      /\ [info[a] EXCEPT !.nRandomPos = 0] = [t.mapInfo[a] EXCEPT !.nRandomPos = 0]
    OBVIOUS
  <2>1. /\ Old(a) = Blank(t.mapInfo[a]) /\ Count(a) = t.mapInfo[a].nRefCount
        /\ (a \notin DOMAIN file.new) = t.mapInfo[a].fInTried
    BY <1>14
  <2>2. Filled(Old(a), info[a], t.mapInfo[a].nRefCount, t.mapInfo[a].fInTried, Position(a))
    BY <1>15, <2>1
  <2>3. Position(a) \in Nat /\ t.mapInfo[a] \in AddrInfo
    BY <1>4, <1>12, <1>13
  <2> QED
    BY <2>1, <2>2, <2>3, EntryRestored
<1>19. \A a \in Entries(t) :
          /\ info[a] \in AddrInfo /\ info[a].nRandomPos = Position(a)
          /\ info[a].port = t.mapInfo[a].port /\ info[a].source = t.mapInfo[a].source
          /\ info[a].nLastSuccess = t.mapInfo[a].nLastSuccess
          /\ info[a].nRefCount = t.mapInfo[a].nRefCount /\ info[a].fInTried = t.mapInfo[a].fInTried
  <2> SUFFICES ASSUME NEW a \in Entries(t)
               PROVE  /\ info[a] \in AddrInfo /\ info[a].nRandomPos = Position(a)
                      /\ info[a].port = t.mapInfo[a].port /\ info[a].source = t.mapInfo[a].source
                      /\ info[a].nLastSuccess = t.mapInfo[a].nLastSuccess
                      /\ info[a].nRefCount = t.mapInfo[a].nRefCount /\ info[a].fInTried = t.mapInfo[a].fInTried
    OBVIOUS
  <2>1. Position(a) \in Nat /\ t.mapInfo[a] \in AddrInfo
    BY <1>4, <1>12, <1>13
  <2>2. info[a] = [t.mapInfo[a] EXCEPT !.nRandomPos = Position(a)]
    BY <1>18
  <2> QED
    BY <2>1, <2>2, EntryMoved
<1>20. info \in [Entries(t) -> AddrInfo]
  BY <1>17, <1>19
<1>21. /\ r = [mapInfo |-> info, vRandom |-> order, vvNew |-> t.vvNew, vvTried |-> tried,
               nNew |-> t.nNew, nTried |-> t.nTried]
  BY <1>1, <1>2, <1>11
<1>22. r \in Tables /\ Entries(r) = Entries(t)
  BY <1>4, <1>8, <1>12, <1>20, <1>21, TablesAre
<1>23. /\ r.mapInfo = info /\ r.vRandom = order /\ r.vvNew = t.vvNew /\ r.vvTried = tried
       /\ r.nNew = t.nNew /\ r.nTried = t.nTried
  BY <1>21
<1>24. RandomIsRight(r)
  <2>1. ASSUME NEW i \in 1 .. Len(order) PROVE order[i] \in Entries(t) /\ info[order[i]].nRandomPos = i
    BY <1>12, <1>13, <1>19
  <2> QED
    BY <1>13, <1>19, <1>22, <1>23, <2>1 DEF RandomIsRight
<1>25. \A b \in TriedBucket : /\ ToSet(r.vvTried[b]) = ToSet(t.vvTried[b]) /\ IsInjective(r.vvTried[b])
                              /\ Len(r.vvTried[b]) <= TriedBucketSize
  BY <1>3, <1>7, <1>23 DEF TriedIsRight, Enumerates
<1> QED
  BY <1>18, <1>19, <1>22, <1>23, <1>24, <1>25 DEF Restored

\* A restart changes the order only.
LEMMA RestartGoes ==
  ASSUME AddrIsRight(tables), RestartAddrMan
  PROVE  \E u : Become(u) /\ AddrIsRight(u)
<1> DEFINE file == Serialized(tables)
<1>1. DOMAIN file.new = Entries(tables) \ TriedIn(tables) /\ DOMAIN file.tried = TriedIn(tables)
  BY SerializedIs
<1>2. PICK newOrder \in SetToSeqs(Entries(tables) \ TriedIn(tables)), triedOrder \in SetToSeqs(TriedIn(tables)) :
          Become(Restore(file, newOrder, triedOrder))
  BY <1>1 DEF RestartAddrMan
<1> HIDE DEF file
<1>3. Restored(tables, Restore(file, newOrder, triedOrder))
  BY RestoreIs DEF file
<1>4. AddrIsRight(Restore(file, newOrder, triedOrder))
  BY <1>3, RestoredIsRight
<1> QED
  BY <1>2, <1>4

\* The inductive invariant.
AddrInv == AddrIsRight(tables)

\* A CAddrMan that has just been constructed.
LEMMA AddrInvInit == AddrManInit => AddrInv
<1> SUFFICES ASSUME AddrManInit PROVE AddrIsRight(tables)
  BY DEF AddrInv
<1> DEFINE new == [b \in NewBucket |-> {}]
           tried == [b \in TriedBucket |-> << >>]
           info == << >>
<1>1. tables = [mapInfo |-> info, vRandom |-> << >>, vvNew |-> new, vvTried |-> tried, nNew |-> 0, nTried |-> 0]
  BY DEF AddrManInit, EmptyTables, tables
<1>2. info \in [{} -> AddrInfo] /\ DOMAIN info = {}
  OBVIOUS
<1>3. new \in [NewBucket -> SUBSET NetAddr] /\ tried \in [TriedBucket -> Seq(NetAddr)]
  OBVIOUS
<1>4. /\ tables.mapInfo = info /\ tables.vRandom = << >> /\ tables.vvNew = new /\ tables.vvTried = tried
      /\ tables.nNew = 0 /\ tables.nTried = 0
  BY <1>1
<1> HIDE DEF info
<1>5. PICK none, empty, n : none = {} /\ empty = << >> /\ n = 0
  OBVIOUS
<1>6. none \in SUBSET NetAddr /\ empty \in Seq(NetAddr) /\ n \in Nat /\ info \in [none -> AddrInfo]
  BY <1>2, <1>5
<1> HIDE DEF new, tried
<1>7. tables = [mapInfo |-> info, vRandom |-> empty, vvNew |-> new, vvTried |-> tried, nNew |-> n, nTried |-> n]
  BY <1>1, <1>5
<1>8. tables \in Tables /\ Entries(tables) = none
  BY <1>3, <1>6, <1>7, TablesAre, SMTT(20)
<1>9. Entries(tables) = {} /\ TriedIn(tables) = {}
  BY <1>5, <1>8 DEF TriedIn
<1>10. RandomIsRight(tables)
  <2>1. Len(tables.vRandom) = 0
    BY <1>4
  <2> QED
    BY <1>9, <2>1 DEF RandomIsRight
<1>11. CountsAreRight(tables)
  <2>1. IsFiniteSet({}) /\ Cardinality({}) = 0
    BY FS_EmptySet
  <2>2. Entries(tables) \ TriedIn(tables) = {}
    BY <1>9
  <2> QED
    BY <1>4, <1>9, <2>1, <2>2 DEF CountsAreRight
<1>12. ReferencesAreRight(tables, NoAddr) /\ KindsAreRight(tables)
  BY <1>9 DEF ReferencesAreRight, KindsAreRight
<1>13. NewIsRight(tables)
  <2>1. \A b \in NewBucket : tables.vvNew[b] = {}
    BY <1>4 DEF new
  <2>2. Cardinality({}) = 0
    BY FS_EmptySet
  <2> QED
    BY <2>1, <2>2, Sizes DEF NewIsRight
<1>14. TriedIsRight(tables)
  <2>1. \A b \in TriedBucket : tables.vvTried[b] = << >>
    BY <1>4 DEF tried
  <2>2. ToSet(<< >>) = {} /\ IsInjective(<< >>) /\ Len(<< >>) = 0
    BY DEF ToSet, IsInjective
  <2>3. \A b : Belongs(tables, b) = {}
    BY <1>9 DEF Belongs
  <2>4. TriedBucketSize \in Nat
    BY Sizes
  <2> QED
    BY <2>1, <2>2, <2>3, <2>4 DEF TriedIsRight
<1> QED
  BY <1>8, <1>10, <1>11, <1>12, <1>13, <1>14 DEF AddrIsRight, Owes

\* Every step but a restart keeps what was connected to.
LEMMA AddrManGoes ==
  ASSUME AddrInv, AddrManNext, ~RestartAddrMan
  PROVE  \E u : Become(u) /\ Goes(tables, u)
<1>1. AddrIsRight(tables)
  BY DEF AddrInv
<1>2. CASE \E a \in NetAddr, source \in Source : AddKnown(a, source)
  BY <1>1, <1>2, AddKnownGoes
<1>3. CASE \E a \in NetAddr, source \in Source, port \in Port : AddUnknown(a, port, source)
  BY <1>1, <1>3, AddUnknownGoes
<1>4. CASE \E a \in NetAddr, port \in Port, nTime \in 1 .. MaxTime : Good(a, port, nTime)
  BY <1>1, <1>4, GoodGoes
<1>5. CASE GetAddr
  BY <1>1, <1>5, GetAddrGoes
<1> QED
  BY <1>2, <1>3, <1>4, <1>5 DEF AddrManNext

\* Each operation and each restart leaves tables that are right.
LEMMA AddrInvStep == AddrInv /\ [AddrManNext]_addrVars => AddrInv'
<1>1. ASSUME AddrInv, AddrManNext PROVE \E u : Become(u) /\ AddrIsRight(u)
  <2>1. CASE RestartAddrMan
    BY <1>1, <2>1, RestartGoes DEF AddrInv
  <2>2. CASE ~RestartAddrMan
    BY <1>1, <2>2, AddrManGoes DEF Goes
  <2> QED
    BY <2>1, <2>2
<1>2. ASSUME AddrInv, AddrManNext PROVE AddrInv'
  <2>1. PICK u : Become(u) /\ AddrIsRight(u)
    BY <1>1, <1>2
  <2>2. tables' = u
    <3>1. u \in Tables
      BY <2>1 DEF AddrIsRight, Owes
    <3> QED
      BY <2>1, <3>1, Becomes
  <2> QED
    BY <2>1, <2>2 DEF AddrInv
<1>3. ASSUME AddrInv, UNCHANGED addrVars PROVE AddrInv'
  <2>1. tables' = tables
    BY <1>3 DEF addrVars, tables
  <2> QED
    BY <1>3, <2>1 DEF AddrInv
<1> QED
  BY <1>2, <1>3

\* The names of the properties for the parts of the tables.
LEMMA AddrNames ==
  /\ tables.mapInfo = mapInfo /\ tables.vRandom = vRandom /\ tables.vvNew = vvNew
  /\ tables.vvTried = vvTried /\ tables.nNew = nNew /\ tables.nTried = nTried
  /\ Entries(tables) = Known /\ TriedIn(tables) = Tried
  BY DEF tables, Entries, Known, TriedIn, Tried

\* Tables that are right pass Check_, are within their bounds and survive a dump.
LEMMA AddrInvIsSound == AddrInv => TablesAreSound
<1> SUFFICES ASSUME AddrIsRight(tables) PROVE TablesAreSound
  BY DEF AddrInv
<1>1. /\ tables \in Tables /\ RandomIsRight(tables) /\ CountsAreRight(tables)
      /\ ReferencesAreRight(tables, NoAddr) /\ KindsAreRight(tables)
      /\ NewIsRight(tables) /\ TriedIsRight(tables)
  BY DEF AddrIsRight, Owes
<1>2. AddrManTypeOK /\ NoAddr \notin Known /\ \A a \in Known : mapInfo[a] \in AddrInfo
  BY <1>1, EntryTypes, AddrNames DEF AddrManTypeOK
<1>3. CheckPasses
  <2>1. Len(vRandom) = nNew + nTried
    BY <1>1, RandomLength, AddrNames
  <2>2. nTried = Cardinality(Tried) /\ nNew = Cardinality(Known \ Tried)
    BY <1>1, AddrNames DEF CountsAreRight
  <2>3. ASSUME NEW a \in Known
        PROVE  /\ mapInfo[a].nRandomPos \in DOMAIN vRandom /\ vRandom[mapInfo[a].nRandomPos] = a
               /\ mapInfo[a].nRefCount = Cardinality({b \in NewBucket : a \in vvNew[b]})
               /\ IF mapInfo[a].fInTried
                  THEN mapInfo[a].nRefCount = 0 /\ mapInfo[a].nLastSuccess > 0
                  ELSE mapInfo[a].nRefCount \in 1 .. NewBucketsPerAddress
    <3>1. mapInfo[a].nRandomPos \in DOMAIN vRandom /\ vRandom[mapInfo[a].nRandomPos] = a
      <4>1. vRandom \in Seq(NetAddr)
        BY <1>2 DEF AddrManTypeOK
      <4> QED
        BY <1>1, <4>1, AddrNames DEF RandomIsRight
    <3>2. mapInfo[a].nRefCount = Cardinality({b \in NewBucket : a \in vvNew[b]})
      <4>1. BucketsOf(tables, a) = {b \in NewBucket : a \in vvNew[b]}
        BY AddrNames DEF BucketsOf
      <4>2. Cardinality(BucketsOf(tables, a)) \in Nat
        BY <1>1, BucketsAreFinite
      <4>3. mapInfo[a].nRefCount = Cardinality(BucketsOf(tables, a)) + 0
        BY <1>1, <1>2, AddrNames DEF ReferencesAreRight
      <4> QED
        BY <4>1, <4>2, <4>3
    <3>3. IF mapInfo[a].fInTried
          THEN mapInfo[a].nRefCount = 0 /\ mapInfo[a].nLastSuccess > 0
          ELSE mapInfo[a].nRefCount \in 1 .. NewBucketsPerAddress
      BY <1>1, AddrNames DEF KindsAreRight
    <3> QED
      BY <3>1, <3>2, <3>3
  <2>4. \A b \in NewBucket : vvNew[b] \subseteq Known
    BY <1>1, AddrNames DEF NewIsRight
  <2>5. \A b \in TriedBucket :
          /\ ToSet(vvTried[b]) = {a \in Tried : GetTriedBucket[a][mapInfo[a].port] = b}
          /\ IsInjective(vvTried[b])
    <3>1. \A b : Belongs(tables, b) = {a \in Tried : GetTriedBucket[a][mapInfo[a].port] = b}
      BY AddrNames DEF Belongs
    <3> QED
      BY <1>1, <3>1, AddrNames DEF TriedIsRight
  <2> QED
    BY <2>1, <2>2, <2>3, <2>4, <2>5 DEF CheckPasses
<1>4. BucketsAreBounded
  BY <1>1, AddrNames DEF BucketsAreBounded, NewIsRight, TriedIsRight
<1>5. DumpLosesNothing
  <2>1. ASSUME NEW t, Restored(tables, t)
        PROVE  /\ t.vvNew = vvNew
               /\ \A b \in TriedBucket : ToSet(t.vvTried[b]) = ToSet(vvTried[b])
               /\ t.nNew = nNew /\ t.nTried = nTried
               /\ DOMAIN t.mapInfo = Known
               /\ \A a \in Known :
                     [t.mapInfo[a] EXCEPT !.nRandomPos = 0] = [mapInfo[a] EXCEPT !.nRandomPos = 0]
    <3>1. DOMAIN t.mapInfo = Entries(t)
      BY DEF Entries
    <3> QED
      BY <2>1, <3>1, AddrNames DEF Restored
  <2>2. ASSUME NEW newOrder \in SetToSeqs(Known \ Tried), NEW triedOrder \in SetToSeqs(Tried)
        PROVE  Restored(tables, Restore(Serialized(tables), newOrder, triedOrder))
    <3>1. newOrder \in SetToSeqs(Entries(tables) \ TriedIn(tables)) /\ triedOrder \in SetToSeqs(TriedIn(tables))
      BY AddrNames
    <3> QED
      BY <3>1, RestoreIs
  <2> QED
    BY <2>1, <2>2 DEF DumpLosesNothing
<1> QED
  BY <1>2, <1>3, <1>4, <1>5 DEF TablesAreSound

\* For any addresses, sources, buckets and sizes of them, and whatever is drawn: after
\* each operation of CAddrMan the two kinds of buckets, the counts and the random order
\* are one table and within their bounds, and peers.dat can be read back without a loss.
THEOREM TablesStaySound == AddrManSpec => []TablesAreSound
<1>1. AddrManInit => AddrInv
  BY AddrInvInit
<1>2. AddrInv /\ [AddrManNext]_addrVars => AddrInv'
  BY AddrInvStep
<1>3. AddrInv => TablesAreSound
  BY AddrInvIsSound
<1> QED
  BY <1>1, <1>2, <1>3, PTL DEF AddrManSpec

\* No operation of CAddrMan forgets an entry that was connected to: it stays a tried
\* one or enters a new bucket in the same step.
THEOREM TriedAreKept == AddrManSpec => TriedAreNotDeleted
<1>1. AddrManInit => AddrInv
  BY AddrInvInit
<1>2. AddrInv /\ [AddrManNext]_addrVars => AddrInv'
  BY AddrInvStep
<1>3. AddrInv /\ [AddrManNext]_addrVars =>
        [RestartAddrMan \/ (Tried \subseteq Known' /\ \A a \in Tried : a \notin Tried' => \E b \in NewBucket : a \in vvNew'[b])]_addrVars
  <2> SUFFICES ASSUME AddrInv, AddrManNext, ~RestartAddrMan
               PROVE  Tried \subseteq Known' /\ \A a \in Tried : a \notin Tried' => \E b \in NewBucket : a \in vvNew'[b]
    OBVIOUS
  <2>1. PICK u : Become(u) /\ Goes(tables, u)
    BY AddrManGoes
  <2>2. Entries(u) = Known' /\ TriedIn(u) = Tried' /\ u.vvNew = vvNew'
    BY <2>1 DEF Become, Entries, TriedIn, Known, Tried
  <2> QED
    BY <2>1, <2>2, AddrNames DEF Goes, Keeps
<1> QED
  BY <1>1, <1>2, <1>3, PTL DEF AddrManSpec, TriedAreNotDeleted

=============================================================================
