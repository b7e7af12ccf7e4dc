---------------------------- MODULE TxIndexProofs ----------------------------
(***************************************************************************)
(* The block tree of ChainData: Chain, Height and ChainTrust are given by  *)
(* what AddToBlockIndex computes for one block from its parent; what holds *)
(* along a whole chain follows by looking at a lowest block for which it   *)
(* fails.  And the transaction index over it: ConnectBlock takes the index *)
(* of a sound chain to the index of the chain with one block more, which   *)
(* is sound again; DisconnectBlock takes it back.                          *)
(***************************************************************************)
EXTENDS TxIndex, Iteration, TLAPS

\* A nonempty set of blocks has a lowest block.
LEMMA LowestBlock ==
  ASSUME NEW S, S \subseteq Block, S # {}
  PROVE  \E b \in S : \A c \in S : Height[b] <= Height[c]
<1> DEFINE T == {Height[b] : b \in S}
<1>1. T \subseteq Nat /\ T # {}
  BY BlockAssumption
<1>2. PICK x \in T : \A y \in T : x <= y
  BY <1>1, LeastNatural
<1> QED
  BY <1>2

\* The genesis block and the block itself are on its chain.
LEMMA ChainEnds ==
  ASSUME NEW g \in Block
  PROVE  g \in Chain[g] /\ Genesis \in Chain[g] /\ Chain[g] \subseteq Block
<1>1. \A b \in Block : b \in Chain[b] /\ Chain[b] \subseteq Block
  BY BlockAssumption
<1> DEFINE S == {b \in Block : Genesis \notin Chain[b]}
<1>2. CASE S # {}
  <2>1. PICK b \in S : \A c \in S : Height[b] <= Height[c]
    BY <1>2, LowestBlock
  <2>2. b # Genesis /\ Prev[b] \in Block /\ Height[Prev[b]] < Height[b]
    BY <2>1, BlockAssumption
  <2>3. Genesis \in Chain[Prev[b]]
    BY <2>1, <2>2, BlockAssumption
  <2> QED
    BY <2>1, <2>2, <2>3, BlockAssumption
<1> QED
  BY <1>1, <1>2

\* Ancestors are lower and have less trust, and their chains are part of it.
LEMMA Ancestors ==
  ASSUME NEW g \in Block, NEW a \in Chain[g]
  PROVE  /\ Chain[a] \subseteq Chain[g]
         /\ a # g => Height[a] < Height[g] /\ ChainTrust[a] < ChainTrust[g]
<1> DEFINE P(b) == \A x \in Chain[b] :
                     /\ Chain[x] \subseteq Chain[b]
                     /\ x # b => Height[x] < Height[b] /\ ChainTrust[x] < ChainTrust[b]
           S == {b \in Block : ~P(b)}
<1>1. CASE S # {}
  <2>1. PICK b \in S : \A c \in S : Height[b] <= Height[c]
    BY <1>1, LowestBlock
  <2>2. b \in Block \ {Genesis}
    BY <2>1, BlockAssumption
  <2> HIDE DEF P, S
  <2>3. Prev[b] \in Block /\ Height[Prev[b]] < Height[b] /\ Chain[b] = Chain[Prev[b]] \cup {b}
        /\ ChainTrust[Prev[b]] < ChainTrust[b]
    BY <2>2, BlockAssumption
  <2> USE DEF P, S
  <2>4. P(Prev[b])
    <3>1. Prev[b] \notin S
      BY <2>1, <2>3, BlockAssumption
    <3> QED
      BY <3>1, <2>3
  <2>5. P(b)
    <3> SUFFICES ASSUME NEW x \in Chain[b]
                 PROVE  /\ Chain[x] \subseteq Chain[b]
                        /\ x # b => Height[x] < Height[b] /\ ChainTrust[x] < ChainTrust[b]
      OBVIOUS
    <3>1. CASE x = b
      BY <3>1
    <3>2. CASE x # b
      <4>1. x \in Chain[Prev[b]] /\ x \in Block /\ b \in Block
        BY <2>3, <3>2, <2>1, BlockAssumption
      <4>2. CASE x = Prev[b]
        BY <4>2, <2>3
      <4>3. CASE x # Prev[b]
        <5>1. Height[x] < Height[Prev[b]] /\ ChainTrust[x] < ChainTrust[Prev[b]]
              /\ Chain[x] \subseteq Chain[Prev[b]]
          BY <2>4, <4>1, <4>3
        <5> QED
          BY <5>1, <4>1, <2>3, BlockAssumption
      <4> QED
        BY <4>2, <4>3
    <3> QED
      BY <3>1, <3>2
  <2> QED
    BY <2>1, <2>5
<1> QED
  BY <1>1

\* A set of blocks that contains the parents of its blocks contains their chains.
LEMMA ClosedUnderPrev ==
  ASSUME NEW S, S \subseteq Block,
         \A b \in S \ {Genesis} : Prev[b] \in S,
         NEW g \in S
  PROVE  Chain[g] \subseteq S
<1> DEFINE B == {b \in S : ~(Chain[b] \subseteq S)}
<1>1. CASE B # {}
  <2>1. PICK b \in B : \A c \in B : Height[b] <= Height[c]
    BY <1>1, LowestBlock
  <2>2. b # Genesis
    BY <2>1, BlockAssumption
  <2>3. Prev[b] \in S /\ Height[Prev[b]] < Height[b] /\ Chain[b] = Chain[Prev[b]] \cup {b}
    BY <2>1, <2>2, BlockAssumption
  <2>4. Prev[b] \notin B
    BY <2>1, <2>3, BlockAssumption
  <2> QED
    BY <2>1, <2>3, <2>4
<1> QED
  BY <1>1

\* The parent of an ancestor is an ancestor.
LEMMA ParentOnChain ==
  ASSUME NEW g \in Block, NEW a \in Chain[g], a # Genesis
  PROVE  Prev[a] \in Chain[g]
<1>1. a \in Block /\ Prev[a] \in Block /\ Chain[a] = Chain[Prev[a]] \cup {a}
  BY ChainEnds, BlockAssumption
<1>2. Prev[a] \in Chain[a]
  BY <1>1, ChainEnds
<1> QED
  BY <1>2, Ancestors

\* A chain has one block of each height, and every one but the last has a child on it.
LEMMA OneBlockPerHeight ==
  ASSUME NEW g \in Block, NEW a \in Chain[g], NEW b \in Chain[g], Height[a] = Height[b]
  PROVE  a = b
<1> DEFINE P(t) == \A x, y \in Chain[t] : Height[x] = Height[y] => x = y
           S == {t \in Block : ~P(t)}
<1>1. CASE S # {}
  <2>1. PICK t \in S : \A c \in S : Height[t] <= Height[c]
    BY <1>1, LowestBlock
  <2>2. t # Genesis
    BY <2>1, BlockAssumption
  <2>3. Prev[t] \in Block /\ Height[Prev[t]] < Height[t] /\ Chain[t] = Chain[Prev[t]] \cup {t}
    BY <2>1, <2>2, BlockAssumption
  <2>4. P(Prev[t])
    <3>1. Prev[t] \notin S
      BY <2>1, <2>3, BlockAssumption
    <3> QED
      BY <3>1, <2>3
  <2>5. \A x \in Chain[Prev[t]] : Height[x] < Height[t]
    <3> TAKE x \in Chain[Prev[t]]
    <3>1. x \in Block /\ t \in Block
      BY <2>1, <2>3, ChainEnds
    <3>2. Height[x] <= Height[Prev[t]]
      BY <2>3, <3>1, Ancestors, BlockAssumption
    <3> QED
      BY <2>3, <3>1, <3>2, BlockAssumption
  <2> QED
    BY <2>1, <2>3, <2>4, <2>5, BlockAssumption
<1> QED
  BY <1>1

LEMMA ChildOnChain ==
  ASSUME NEW g \in Block, NEW a \in Chain[g], a # g
  PROVE  \E b \in Chain[g] : Prev[b] = a /\ b # Genesis
<1> DEFINE P(t) == \A x \in Chain[t] : x # t => \E b \in Chain[t] : Prev[b] = x /\ b # Genesis
           S == {t \in Block : ~P(t)}
<1>1. CASE S # {}
  <2>1. PICK t \in S : \A c \in S : Height[t] <= Height[c]
    BY <1>1, LowestBlock
  <2>2. t # Genesis
    BY <2>1, BlockAssumption
  <2>3. Prev[t] \in Block /\ Height[Prev[t]] < Height[t] /\ Chain[t] = Chain[Prev[t]] \cup {t}
    BY <2>1, <2>2, BlockAssumption
  <2>4. P(Prev[t])
    <3>1. Prev[t] \notin S
      BY <2>1, <2>3, BlockAssumption
    <3> QED
      BY <3>1, <2>3
  <2> QED
    BY <2>1, <2>2, <2>3, <2>4
<1> QED
  BY <1>1

LEMMA OneChildOnChain ==
  ASSUME NEW g \in Block, NEW a \in Chain[g] \ {Genesis}, NEW b \in Chain[g] \ {Genesis},
         Prev[a] = Prev[b]
  PROVE  a = b
<1>1. a \in Block /\ b \in Block
  BY ChainEnds
<1>2. Height[a] = Height[b]
  BY <1>1, BlockAssumption
<1> QED
  BY <1>2, OneBlockPerHeight

\* Of two blocks of a chain the lower one is on the chain of the other.
LEMMA ChainIsLinear ==
  ASSUME NEW g \in Block, NEW a \in Chain[g], NEW b \in Chain[g], Height[a] <= Height[b]
  PROVE  a \in Chain[b]
<1> DEFINE P(t) == \A x, y \in Chain[t] : Height[x] <= Height[y] => x \in Chain[y]
           S == {t \in Block : ~P(t)}
<1>1. CASE S # {}
  <2>1. PICK t \in S : \A c \in S : Height[t] <= Height[c]
    BY <1>1, LowestBlock
  <2>2. t # Genesis
    BY <2>1, BlockAssumption, ChainEnds
  <2>3. Prev[t] \in Block /\ Height[Prev[t]] < Height[t] /\ Chain[t] = Chain[Prev[t]] \cup {t}
    BY <2>1, <2>2, BlockAssumption
  <2>4. P(Prev[t])
    <3>1. Prev[t] \notin S
      BY <2>1, <2>3, BlockAssumption
    <3> QED
      BY <3>1, <2>3
  <2>5. P(t)
    <3> SUFFICES ASSUME NEW x \in Chain[t], NEW y \in Chain[t], Height[x] <= Height[y]
                 PROVE  x \in Chain[y]
      OBVIOUS
    <3>1. CASE y = t
      BY <3>1
    <3>2. CASE y # t /\ x # t
      BY <3>2, <2>3, <2>4
    <3>3. CASE y # t /\ x = t
      <4>1. Height[y] < Height[t] /\ y \in Block /\ t \in Block
        BY <3>3, <2>1, Ancestors, ChainEnds
      <4> QED
        BY <4>1, <3>3, BlockAssumption
    <3> QED
      BY <3>1, <3>2, <3>3
  <2> QED
    BY <2>1, <2>5
<1> QED
  BY <1>1

-----------------------------------------------------------------------------
\* The coinbases of the chain that ends in tip begin with their heights.
HeightInCoinbases(tip) == \A a \in Chain[tip] : CoinbaseHeight[Vtx[a][1]] = Height[a]

\* What a sound chain says of whole blocks.
LEMMA SoundBlocks ==
  ASSUME NEW tip \in Block, SoundChain(tip)
  PROVE  /\ \A a, c \in Chain[tip] : \A t \in Txs(a) : t \in Txs(c) => a = c
         /\ \A a, c \in Chain[tip] : \A o \in Spends(a) : o \in Spends(c) => a = c
         /\ \A a \in Chain[tip] : \A o \in Spends(a) :
               o \in OutPoint /\ \E c \in Chain[a] : o[1] \in Txs(c)
<1>1. ASSUME NEW a \in Chain[tip], NEW c \in Chain[tip], NEW t \in Txs(a), t \in Txs(c)
      PROVE  a = c
  <2>1. PICK i \in DOMAIN Vtx[a] : Vtx[a][i] = t
    BY DEF Txs
  <2>2. PICK j \in DOMAIN Vtx[c] : Vtx[c][j] = t
    BY <1>1 DEF Txs
  <2>3. <<a, i>> \in Places(tip) /\ <<c, j>> \in Places(tip)
    BY <2>1, <2>2 DEF Places
  <2>4. TxAt(<<a, i>>) = t /\ TxAt(<<c, j>>) = t
    BY <2>1, <2>2 DEF TxAt
  <2> QED
    BY <2>3, <2>4 DEF SoundChain
<1>2. ASSUME NEW a \in Chain[tip], NEW c \in Chain[tip], NEW o \in Spends(a), o \in Spends(c)
      PROVE  a = c
  <2>1. PICK i \in DOMAIN Vtx[a] : o \in Vin[Vtx[a][i]]
    BY DEF Txs, Spends
  <2>2. PICK j \in DOMAIN Vtx[c] : o \in Vin[Vtx[c][j]]
    BY <1>2 DEF Txs, Spends
  <2>3. <<a, i>> \in Places(tip) /\ <<c, j>> \in Places(tip)
    BY <2>1, <2>2 DEF Places
  <2>4. o \in Vin[TxAt(<<a, i>>)] /\ o \in Vin[TxAt(<<c, j>>)]
    BY <2>1, <2>2 DEF TxAt
  <2>5. <<a, i>> = <<c, j>>
    BY <2>3, <2>4 DEF SoundChain
  <2> QED
    BY <2>5
<1>3. ASSUME NEW a \in Chain[tip], NEW o \in Spends(a)
      PROVE  o \in OutPoint /\ \E c \in Chain[a] : o[1] \in Txs(c)
  <2>1. PICK i \in DOMAIN Vtx[a] : o \in Vin[Vtx[a][i]]
    BY DEF Txs, Spends
  <2>2. <<a, i>> \in Places(tip) /\ o \in Vin[TxAt(<<a, i>>)]
    BY <2>1 DEF Places, TxAt
  <2>3. PICK q \in Places(tip) : TxAt(q) = o[1] /\ Before(q, <<a, i>>)
    BY <2>2 DEF SoundChain
  <2>4. PICK c \in Chain[tip] : \E j \in DOMAIN Vtx[c] : q = <<c, j>>
    BY <2>3 DEF Places
  <2>5. o[1] \in Txs(c)
    BY <2>3, <2>4 DEF TxAt, Txs
  <2>6. a \in Block /\ c \in Block /\ (Height[c] < Height[a] \/ c = a)
    BY <2>3, <2>4, ChainEnds DEF Before
  <2>7. c \in Chain[a]
    BY <2>6, ChainEnds, ChainIsLinear, BlockAssumption
  <2> QED
    BY <2>2, <2>5, <2>7 DEF SoundChain
<1> QED
  BY <1>1, <1>2, <1>3

\* The index of a sound chain points at the one block there is to point at.
LEMMA IndexOfSoundChain ==
  ASSUME NEW tip \in Block, SoundChain(tip)
  PROVE  /\ \A a \in Chain[tip] : \A t \in Txs(a) : BlockOf(t, tip) = a
         /\ \A t : (\A a \in Chain[tip] : t \notin Txs(a)) => BlockOf(t, tip) = NoBlock
         /\ \A t : BlockOf(t, tip) # NoBlock =>
               BlockOf(t, tip) \in Chain[tip] /\ t \in Txs(BlockOf(t, tip))
         /\ \A a \in Chain[tip] : \A o \in Spends(a) : SpenderOf(o, tip) = a
         /\ \A o : (\A a \in Chain[tip] : o \notin Spends(a)) => SpenderOf(o, tip) = NoBlock
<1>1. /\ \A a, c \in Chain[tip] : \A t \in Txs(a) : t \in Txs(c) => a = c
      /\ \A a, c \in Chain[tip] : \A o \in Spends(a) : o \in Spends(c) => a = c
  BY SoundBlocks
<1>2. ASSUME NEW a \in Chain[tip], NEW t \in Txs(a)
      PROVE  BlockOf(t, tip) = a
  <2>1. BlockOf(t, tip) \in Chain[tip] /\ t \in Txs(BlockOf(t, tip))
    BY DEF BlockOf
  <2> QED
    BY <1>1, <2>1
<1>3. ASSUME NEW a \in Chain[tip], NEW o \in Spends(a)
      PROVE  SpenderOf(o, tip) = a
  <2>1. SpenderOf(o, tip) \in Chain[tip] /\ o \in Spends(SpenderOf(o, tip))
    BY DEF SpenderOf
  <2> QED
    BY <1>1, <2>1
<1>4. ASSUME NEW t, BlockOf(t, tip) # NoBlock
      PROVE  BlockOf(t, tip) \in Chain[tip] /\ t \in Txs(BlockOf(t, tip))
  BY <1>4 DEF BlockOf
<1>5. ASSUME NEW t, \A a \in Chain[tip] : t \notin Txs(a)
      PROVE  BlockOf(t, tip) = NoBlock
  BY <1>5 DEF BlockOf
<1>6. ASSUME NEW o, \A a \in Chain[tip] : o \notin Spends(a)
      PROVE  SpenderOf(o, tip) = NoBlock
  BY <1>6 DEF SpenderOf
<1> QED
  BY <1>2, <1>3, <1>4, <1>5, <1>6

-----------------------------------------------------------------------------
(***************************************************************************)
(* A block that connects repeats no transaction of its chain.  Were one    *)
(* repeated, take the first in the block: it is no coinbase, because the   *)
(* height differs; its input is spent already, so the transaction it       *)
(* spends must come earlier in this block, and is repeated as well.        *)
(***************************************************************************)
LEMMA ConnectsRepeatsNothing ==
  ASSUME NEW b \in Block \ {Genesis}, NEW tip,
         SoundChain(Prev[b]), HeightInCoinbases(b),
         Connects(b, IndexOf(Prev[b]), tip)
  PROVE  \A t \in Txs(b) : \A a \in Chain[Prev[b]] : t \notin Txs(a)
<1> DEFINE p == Prev[b]
           D == {i \in DOMAIN Vtx[b] : \E a \in Chain[p] : Vtx[b][i] \in Txs(a)}
<1>1. p \in Block /\ Chain[b] = Chain[p] \cup {b} /\ Chain[p] \subseteq Block
  BY BlockAssumption
<1>2. Vtx[b] \in Seq(Tx) /\ DOMAIN Vtx[b] \subseteq Nat
  BY TxAssumption
<1>3. CASE D # {}
  <2>1. PICK i \in D : \A j \in D : i <= j
    BY <1>2, <1>3, LeastNatural
  <2>2. PICK a \in Chain[p] : Vtx[b][i] \in Txs(a)
    BY <2>1
  <2>3. PICK k \in DOMAIN Vtx[a] : Vtx[a][k] = Vtx[b][i]
    BY <2>2 DEF Txs
  <2>4. a \in Block /\ Vtx[b][i] \in Tx
    BY <1>1, <1>2, <2>1
  <2>5. CASE Vtx[b][i] \in Coinbase
    <3>1. i = 1 /\ k = 1
      BY <2>1, <2>3, <2>4, <2>5, TxAssumption
    <3>2. Height[a] = Height[b]
      BY <1>1, <2>2, <2>3, <3>1, ChainEnds DEF HeightInCoinbases
    <3>3. a = b
      BY <1>1, <3>2, OneBlockPerHeight, ChainEnds
    <3>4. Height[b] = Height[p] + 1 /\ Height[p] \in Nat
      BY <1>1, BlockAssumption
    <3>5. Height[b] <= Height[p]
      BY <1>1, <2>2, <3>3, <3>4, Ancestors
    <3> QED
      BY <3>4, <3>5
  <2>6. CASE Vtx[b][i] \notin Coinbase
    <3>1. PICK o : o \in Vin[Vtx[b][i]]
      BY <2>4, <2>6, TxAssumption
    <3>2. o \in Spends(a)
      BY <2>3, <3>1 DEF Spends, Txs
    <3>3. o \in OutPoint /\ \E c \in Chain[a] : o[1] \in Txs(c)
      BY <1>1, <2>2, <3>2, SoundBlocks
    <3>4. IndexOf(p).spent[o] # NoBlock
      <4>1. SpenderOf(o, p) = a
        BY <1>1, <2>2, <3>2, IndexOfSoundChain
      <4> QED
        BY <2>4, <3>3, <4>1, BlockAssumption DEF IndexOf
    <3>5. InputConnects(b, i, o, IndexOf(p))
      BY <2>1, <3>1 DEF Connects
    <3>6. PICK j \in 1 .. i - 1 : o[1] = Vtx[b][j]
      BY <3>4, <3>5 DEF InputConnects
    <3>7. j \in DOMAIN Vtx[b] /\ j < i
      BY <1>2, <2>1, <3>6
    <3>8. PICK c \in Chain[a] : o[1] \in Txs(c)
      BY <3>3
    <3>9. c \in Chain[p]
      BY <1>1, <2>2, <3>8, Ancestors
    <3>10. j \in D
      BY <3>6, <3>7, <3>8, <3>9
    <3> QED
      BY <1>2, <2>1, <3>7, <3>10
  <2> QED
    BY <2>5, <2>6
<1>4. CASE D = {}
  BY <1>4 DEF Txs
<1> QED
  BY <1>3, <1>4

\* Nor does it spend what its chain has spent, or what was not created before.
LEMMA ConnectsSpendsOnce ==
  ASSUME NEW b \in Block \ {Genesis}, NEW tip,
         SoundChain(Prev[b]), HeightInCoinbases(b),
         Connects(b, IndexOf(Prev[b]), tip)
  PROVE  /\ \A o \in Spends(b) : \A a \in Chain[Prev[b]] : o \notin Spends(a)
         /\ \A i \in DOMAIN Vtx[b] : \A o \in Vin[Vtx[b][i]] :
               /\ o \in OutPoint
               /\ \/ \E j \in DOMAIN Vtx[b] : j < i /\ Vtx[b][j] = o[1]
                  \/ \E a \in Chain[Prev[b]] : o[1] \in Txs(a)
<1> DEFINE p == Prev[b]
<1>1. p \in Block /\ Chain[p] \subseteq Block
  BY BlockAssumption
<1>2. Vtx[b] \in Seq(Tx) /\ DOMAIN Vtx[b] \subseteq Nat
  BY TxAssumption
<1>3. \A i \in DOMAIN Vtx[b] : \A o \in Vin[Vtx[b][i]] : InputConnects(b, i, o, IndexOf(p))
  BY DEF Connects
<1>4. ASSUME NEW i \in DOMAIN Vtx[b], NEW o \in Vin[Vtx[b][i]]
      PROVE  \/ \E j \in DOMAIN Vtx[b] : j < i /\ Vtx[b][j] = o[1]
             \/ IndexOf(p).pos[o[1]] # NoBlock /\ IndexOf(p).spent[o] = NoBlock
  BY <1>2, <1>3 DEF InputConnects
<1>5. ASSUME NEW i \in DOMAIN Vtx[b], NEW o \in Vin[Vtx[b][i]]
      PROVE  o \in OutPoint /\ o[1] \in Tx
  <2>1. Vtx[b][i] \in Tx
    BY <1>2
  <2> QED
    BY <1>3, <2>1, TxAssumption DEF InputConnects
<1>6. ASSUME NEW i \in DOMAIN Vtx[b], NEW o \in Vin[Vtx[b][i]], NEW a \in Chain[p], o \in Spends(a)
      PROVE  FALSE
  <2>1. SpenderOf(o, p) = a /\ a \in Block
    BY <1>1, <1>6, IndexOfSoundChain
  <2>2. IndexOf(p).spent[o] # NoBlock
    BY <1>5, <2>1, BlockAssumption DEF IndexOf
  <2>3. o[1] \in Txs(b)
    BY <1>4, <2>2 DEF Txs
  <2>4. PICK c \in Chain[a] : o[1] \in Txs(c)
    BY <1>1, <1>6, SoundBlocks
  <2>5. c \in Chain[p]
    BY <1>1, <2>4, Ancestors
  <2> QED
    BY <2>3, <2>4, <2>5, ConnectsRepeatsNothing
<1>7. ASSUME NEW i \in DOMAIN Vtx[b], NEW o \in Vin[Vtx[b][i]], IndexOf(p).pos[o[1]] # NoBlock
      PROVE  \E a \in Chain[p] : o[1] \in Txs(a)
  <2>1. BlockOf(o[1], p) # NoBlock
    BY <1>5, <1>7 DEF IndexOf
  <2> QED
    BY <1>1, <2>1, IndexOfSoundChain
<1>8. \A o \in Spends(b) : \A a \in Chain[p] : o \notin Spends(a)
  BY <1>6 DEF Spends, Txs
<1> QED
  BY <1>4, <1>5, <1>7, <1>8

\* A block that connects to a sound chain makes a sound chain.
LEMMA ConnectKeepsChainSound ==
  ASSUME NEW b \in Block \ {Genesis}, NEW tip,
         SoundChain(Prev[b]), HeightInCoinbases(b),
         Connects(b, IndexOf(Prev[b]), tip)
  PROVE  SoundChain(b)
<1> DEFINE pr == Prev[b]
<1>1. pr \in Block /\ Chain[b] = Chain[pr] \cup {b} /\ Chain[pr] \subseteq Block
  BY BlockAssumption
<1>2. Vtx[b] \in Seq(Tx) /\ DOMAIN Vtx[b] = 1 .. Len(Vtx[b]) /\ Len(Vtx[b]) \in Nat
  BY TxAssumption
<1>3. \A q \in Places(b) : q \in Places(pr) \/ \E i \in DOMAIN Vtx[b] : q = <<b, i>>
  BY <1>1 DEF Places
<1>4. Places(pr) \subseteq Places(b)
  BY <1>1 DEF Places
<1>5. \A q \in Places(pr) : \E a \in Chain[pr] : /\ TxAt(q) \in Txs(a)
                                               /\ Vin[TxAt(q)] \subseteq Spends(a)
  BY DEF Places, TxAt, Txs, Spends
<1>6. \A i \in DOMAIN Vtx[b] : /\ TxAt(<<b, i>>) = Vtx[b][i]
                               /\ Vtx[b][i] \in Txs(b)
                               /\ Vin[Vtx[b][i]] \subseteq Spends(b)
  BY DEF TxAt, Txs, Spends
<1>7. ASSUME NEW q \in Places(pr), NEW i \in DOMAIN Vtx[b]
      PROVE  TxAt(q) # Vtx[b][i] /\ Vin[TxAt(q)] \cap Vin[Vtx[b][i]] = {}
  <2>1. PICK a \in Chain[pr] : TxAt(q) \in Txs(a) /\ Vin[TxAt(q)] \subseteq Spends(a)
    BY <1>5
  <2>2. Vtx[b][i] \notin Txs(a)
    BY <1>6, <2>1, ConnectsRepeatsNothing
  <2>3. \A o \in Spends(b) : o \notin Spends(a)
    BY <2>1, ConnectsSpendsOnce
  <2> QED
    BY <1>6, <2>1, <2>2, <2>3
<1>8. ASSUME NEW i \in DOMAIN Vtx[b], NEW j \in DOMAIN Vtx[b], j < i
      PROVE  Vtx[b][i] # Vtx[b][j] /\ Vin[Vtx[b][i]] \cap Vin[Vtx[b][j]] = {}
  <2>1. j \in 1 .. i - 1
    BY <1>2, <1>8
  <2>2. \A o \in Vin[Vtx[b][i]] : o \notin Vin[Vtx[b][j]]
    BY <2>1 DEF Connects, InputConnects
  <2>3. i # j
    BY <1>2, <1>8
  <2> QED
    BY <2>2, <2>3, TxAssumption
<1>9. ASSUME NEW q \in Places(b), NEW r \in Places(b), q # r
      PROVE  TxAt(q) # TxAt(r) /\ Vin[TxAt(q)] \cap Vin[TxAt(r)] = {}
  <2>1. CASE q \in Places(pr) /\ r \in Places(pr)
    BY <1>9, <2>1 DEF SoundChain
  <2>2. CASE q \in Places(pr) /\ r \notin Places(pr)
    BY <1>3, <1>6, <1>7, <2>2
  <2>3. CASE q \notin Places(pr) /\ r \in Places(pr)
    <3>1. PICK i \in DOMAIN Vtx[b] : q = <<b, i>>
      BY <1>3, <2>3
    <3>2. TxAt(r) # Vtx[b][i] /\ Vin[TxAt(r)] \cap Vin[Vtx[b][i]] = {}
      BY <1>7, <2>3
    <3> QED
      BY <1>6, <3>1, <3>2
  <2>4. CASE q \notin Places(pr) /\ r \notin Places(pr)
    <3>1. PICK i \in DOMAIN Vtx[b] : q = <<b, i>>
      BY <1>3, <2>4
    <3>2. PICK j \in DOMAIN Vtx[b] : r = <<b, j>>
      BY <1>3, <2>4
    <3>3. i < j \/ j < i
      BY <1>2, <1>9, <3>1, <3>2
    <3> QED
      BY <1>6, <1>8, <3>1, <3>2, <3>3
  <2> QED
    BY <2>1, <2>2, <2>3, <2>4
<1>10. ASSUME NEW q \in Places(b), NEW o \in Vin[TxAt(q)]
       PROVE  o \in OutPoint /\ \E r \in Places(b) : TxAt(r) = o[1] /\ Before(r, q)
  <2>1. CASE q \in Places(pr)
    BY <1>4, <2>1 DEF SoundChain
  <2>2. CASE q \notin Places(pr)
    <3>1. PICK i \in DOMAIN Vtx[b] : q = <<b, i>>
      BY <1>3, <2>2
    <3>2. o \in Vin[Vtx[b][i]]
      BY <1>6, <3>1
    <3>3. o \in OutPoint
      BY <3>2, ConnectsSpendsOnce
    <3>4. CASE \E j \in DOMAIN Vtx[b] : j < i /\ Vtx[b][j] = o[1]
      <4>1. PICK j \in DOMAIN Vtx[b] : j < i /\ Vtx[b][j] = o[1]
        BY <3>4
      <4>2. <<b, j>> \in Places(b) /\ TxAt(<<b, j>>) = o[1] /\ Before(<<b, j>>, q)
        BY <1>1, <3>1, <4>1 DEF Places, TxAt, Before
      <4> QED
        BY <3>3, <4>2
    <3>5. CASE \E a \in Chain[pr] : o[1] \in Txs(a)
      <4>1. PICK a \in Chain[pr] : o[1] \in Txs(a)
        BY <3>5
      <4>2. PICK j \in DOMAIN Vtx[a] : Vtx[a][j] = o[1]
        BY <4>1 DEF Txs
      <4>3. <<a, j>> \in Places(b) /\ TxAt(<<a, j>>) = o[1]
        BY <1>1, <4>2 DEF Places, TxAt
      <4>4. Height[a] < Height[b]
        <5>1. Height[b] = Height[pr] + 1 /\ Height[pr] \in Nat /\ Height[a] \in Nat
          BY <1>1, BlockAssumption
        <5>2. Height[a] <= Height[pr]
          BY <1>1, <5>1, Ancestors
        <5> QED
          BY <5>1, <5>2
      <4> QED
        BY <3>1, <3>3, <4>3, <4>4 DEF Before
    <3> QED
      BY <3>2, <3>4, <3>5, ConnectsSpendsOnce
  <2> QED
    BY <2>1, <2>2
<1> QED
  BY <1>9, <1>10 DEF SoundChain

\* Every part of a sound chain is sound.
LEMMA ParentChainIsSound ==
  ASSUME NEW b \in Block \ {Genesis}, SoundChain(b)
  PROVE  SoundChain(Prev[b])
<1> DEFINE pr == Prev[b]
<1>1. pr \in Block /\ Chain[b] = Chain[pr] \cup {b} /\ Chain[pr] \subseteq Block
  BY BlockAssumption
<1>2. Places(pr) \subseteq Places(b)
  BY <1>1 DEF Places
<1>3. ASSUME NEW q \in Places(pr), NEW o \in Vin[TxAt(q)]
      PROVE  o \in OutPoint /\ \E r \in Places(pr) : TxAt(r) = o[1] /\ Before(r, q)
  <2>1. PICK r \in Places(b) : TxAt(r) = o[1] /\ Before(r, q)
    BY <1>2 DEF SoundChain
  <2>2. PICK a \in Chain[pr] : q \in {a} \X DOMAIN Vtx[a]
    BY DEF Places
  <2>3. PICK c \in Chain[b] : r \in {c} \X DOMAIN Vtx[c]
    BY <2>1 DEF Places
  <2>4. c # b
    <3>1. Height[a] <= Height[pr] /\ Height[b] = Height[pr] + 1
          /\ Height[pr] \in Nat /\ Height[a] \in Nat
      BY <1>1, <2>2, Ancestors, BlockAssumption
    <3>2. c = a \/ Height[c] < Height[a]
      BY <2>1, <2>2, <2>3 DEF Before
    <3> QED
      BY <3>1, <3>2
  <2>5. r \in Places(pr)
    BY <1>1, <2>3, <2>4 DEF Places
  <2> QED
    BY <1>2, <2>1, <2>5 DEF SoundChain
<1> QED
  BY <1>2, <1>3 DEF SoundChain

(***************************************************************************)
(* ConnectBlock takes the index of the parent's chain to the index of the  *)
(* block's chain.                                                          *)
(***************************************************************************)
THEOREM ConnectBlockIsCorrect ==
  ASSUME NEW b \in Block \ {Genesis}, NEW tip,
         SoundChain(Prev[b]), HeightInCoinbases(b),
         Connects(b, IndexOf(Prev[b]), tip)
  PROVE  SoundChain(b) /\ ConnectBlock(b, IndexOf(Prev[b])) = IndexOf(b)
<1> DEFINE pr == Prev[b]
<1>1. pr \in Block /\ Chain[b] = Chain[pr] \cup {b} /\ b \in Block
  BY BlockAssumption
<1>2. SoundChain(b)
  BY ConnectKeepsChainSound
<1>3. ASSUME NEW t \in Tx
      PROVE  BlockOf(t, b) = IF t \in Txs(b) THEN b ELSE BlockOf(t, pr)
  <2>1. CASE t \in Txs(b)
    BY <1>1, <1>2, <2>1, IndexOfSoundChain
  <2>2. CASE t \notin Txs(b) /\ \E a \in Chain[pr] : t \in Txs(a)
    <3>1. PICK a \in Chain[pr] : t \in Txs(a)
      BY <2>2
    <3>2. BlockOf(t, pr) = a
      BY <1>1, <3>1, IndexOfSoundChain
    <3>3. BlockOf(t, b) = a
      BY <1>1, <1>2, <3>1, IndexOfSoundChain
    <3> QED
      BY <2>2, <3>2, <3>3
  <2>3. CASE t \notin Txs(b) /\ \A a \in Chain[pr] : t \notin Txs(a)
    BY <1>1, <2>3 DEF BlockOf
  <2> QED
    BY <2>1, <2>2, <2>3
<1>4. ASSUME NEW o \in OutPoint
      PROVE  SpenderOf(o, b) = IF o \in Spends(b) THEN b
                               ELSE IF o[1] \in Txs(b) THEN NoBlock ELSE SpenderOf(o, pr)
  <2>1. CASE o \in Spends(b)
    BY <1>1, <1>2, <2>1, IndexOfSoundChain
  <2>2. CASE o \notin Spends(b) /\ \E a \in Chain[pr] : o \in Spends(a)
    <3>1. PICK a \in Chain[pr] : o \in Spends(a)
      BY <2>2
    <3>2. SpenderOf(o, pr) = a
      BY <1>1, <3>1, IndexOfSoundChain
    <3>3. SpenderOf(o, b) = a
      BY <1>1, <1>2, <3>1, IndexOfSoundChain
    <3>4. PICK c \in Chain[a] : o[1] \in Txs(c)
      BY <1>1, <3>1, SoundBlocks
    <3>5. c \in Chain[pr]
      BY <1>1, <3>1, <3>4, Ancestors
    <3>6. o[1] \notin Txs(b)
      BY <3>4, <3>5, ConnectsRepeatsNothing
    <3> QED
      BY <2>2, <3>2, <3>3, <3>6
  <2>3. CASE o \notin Spends(b) /\ \A a \in Chain[pr] : o \notin Spends(a)
    BY <1>1, <2>3 DEF SpenderOf
  <2> QED
    BY <2>1, <2>2, <2>3
<1>5. ConnectBlock(b, IndexOf(pr)) = IndexOf(b)
  BY <1>3, <1>4 DEF ConnectBlock, IndexOf
<1> QED
  BY <1>2, <1>5

(***************************************************************************)
(* DisconnectBlock takes the index of a sound chain back to the index of   *)
(* the parent's chain.                                                     *)
(***************************************************************************)
THEOREM DisconnectBlockIsCorrect ==
  ASSUME NEW b \in Block \ {Genesis}, SoundChain(b)
  PROVE  /\ SoundChain(Prev[b])
         /\ DisconnectBlock(b, IndexOf(b)) = IndexOf(Prev[b])
<1> DEFINE pr == Prev[b]
<1>1. /\ pr \in Block /\ b \in Block /\ Chain[b] = Chain[pr] \cup {b}
      /\ \A a \in Chain[pr] : a # b
  <2>1. pr \in Block /\ b \in Block /\ Chain[b] = Chain[pr] \cup {b}
        /\ Height[b] = Height[pr] + 1 /\ Height[pr] \in Nat
    BY BlockAssumption
  <2>2. \A a \in Chain[pr] : Height[a] <= Height[pr]
    BY <2>1, Ancestors, ChainEnds, BlockAssumption
  <2> QED
    BY <2>1, <2>2
<1>2. SoundChain(pr)
  BY ParentChainIsSound
<1>3. ASSUME NEW t \in Tx
      PROVE  BlockOf(t, pr) = IF t \in Txs(b) THEN NoBlock ELSE BlockOf(t, b)
  <2>1. CASE t \in Txs(b)
    <3>1. \A a \in Chain[pr] : t \notin Txs(a)
      BY <1>1, <2>1, SoundBlocks, ChainEnds
    <3> QED
      BY <2>1, <3>1 DEF BlockOf
  <2>2. CASE t \notin Txs(b) /\ \E a \in Chain[pr] : t \in Txs(a)
    <3>1. PICK a \in Chain[pr] : t \in Txs(a)
      BY <2>2
    <3>2. BlockOf(t, pr) = a
      BY <1>1, <1>2, <3>1, IndexOfSoundChain
    <3>3. BlockOf(t, b) = a
      BY <1>1, <3>1, IndexOfSoundChain
    <3> QED
      BY <2>2, <3>2, <3>3
  <2>3. CASE t \notin Txs(b) /\ \A a \in Chain[pr] : t \notin Txs(a)
    BY <1>1, <2>3 DEF BlockOf
  <2> QED
    BY <2>1, <2>2, <2>3
<1>4. ASSUME NEW o \in OutPoint
      PROVE  SpenderOf(o, pr) = IF o \in Spends(b) \/ o[1] \in Txs(b)
                                THEN NoBlock ELSE SpenderOf(o, b)
  <2>1. CASE o \in Spends(b)
    <3>1. \A a \in Chain[pr] : o \notin Spends(a)
      BY <1>1, <2>1, SoundBlocks, ChainEnds
    <3> QED
      BY <2>1, <3>1 DEF SpenderOf
  <2>2. CASE o \notin Spends(b) /\ \E a \in Chain[pr] : o \in Spends(a)
    <3>1. PICK a \in Chain[pr] : o \in Spends(a)
      BY <2>2
    <3>2. SpenderOf(o, pr) = a
      BY <1>1, <1>2, <3>1, IndexOfSoundChain
    <3>3. SpenderOf(o, b) = a
      BY <1>1, <3>1, IndexOfSoundChain
    <3>4. PICK c \in Chain[a] : o[1] \in Txs(c)
      BY <1>1, <1>2, <3>1, SoundBlocks
    <3>5. c \in Chain[pr]
      BY <1>1, <3>1, <3>4, Ancestors
    <3>6. o[1] \notin Txs(b)
      BY <1>1, <3>4, <3>5, SoundBlocks, ChainEnds
    <3> QED
      BY <2>2, <3>2, <3>3, <3>6
  <2>3. CASE o \notin Spends(b) /\ \A a \in Chain[pr] : o \notin Spends(a)
    BY <1>1, <2>3 DEF SpenderOf
  <2> QED
    BY <2>1, <2>2, <2>3
<1>5. DisconnectBlock(b, IndexOf(b)) = IndexOf(pr)
  BY <1>3, <1>4 DEF DisconnectBlock, IndexOf
<1> QED
  BY <1>2, <1>5

\* DisconnectBlock is never refused on the index of a sound chain.
THEOREM DisconnectBlockSucceeds ==
  ASSUME NEW b \in Block, SoundChain(b)
  PROVE  Disconnects(b, IndexOf(b))
<1>1. b \in Chain[b] /\ Chain[b] \subseteq Block
  BY ChainEnds
<1>2. Vtx[b] \in Seq(Tx) /\ DOMAIN Vtx[b] = 1 .. Len(Vtx[b]) /\ Len(Vtx[b]) \in Nat
  BY TxAssumption
<1> SUFFICES ASSUME NEW i \in DOMAIN Vtx[b], NEW o \in Vin[Vtx[b][i]]
             PROVE  /\ o \in OutPoint
                    /\ IndexOf(b).pos[o[1]] # NoBlock
                    /\ \A j \in i + 1 .. Len(Vtx[b]) : Vtx[b][j] # o[1]
  BY DEF Disconnects
<1>3. <<b, i>> \in Places(b) /\ o \in Vin[TxAt(<<b, i>>)]
  BY <1>1 DEF Places, TxAt
<1>4. PICK r \in Places(b) : TxAt(r) = o[1] /\ Before(r, <<b, i>>)
  BY <1>3 DEF SoundChain
<1>5. o \in OutPoint /\ o[1] \in Tx
  <2>1. Vtx[b][i] \in Tx
    BY <1>2
  <2> QED
    BY <1>3, <2>1, TxAssumption DEF SoundChain
<1>6. PICK a \in Chain[b] : \E k \in DOMAIN Vtx[a] : r = <<a, k>>
  BY <1>4 DEF Places
<1>7. o[1] \in Txs(a)
  BY <1>4, <1>6 DEF TxAt, Txs
<1>8. IndexOf(b).pos[o[1]] # NoBlock
  <2>1. BlockOf(o[1], b) = a
    BY <1>6, <1>7, IndexOfSoundChain
  <2> QED
    BY <1>1, <1>5, <1>6, <2>1, BlockAssumption DEF IndexOf
<1>9. ASSUME NEW j \in i + 1 .. Len(Vtx[b]), Vtx[b][j] = o[1]
      PROVE  FALSE
  <2>1. j \in DOMAIN Vtx[b] /\ i < j
    BY <1>2
  <2>2. <<b, j>> \in Places(b) /\ TxAt(<<b, j>>) = o[1]
    BY <1>1, <1>9, <2>1 DEF Places, TxAt
  <2>3. r = <<b, j>>
    BY <1>4, <2>2 DEF SoundChain
  <2> QED
    BY <1>2, <1>4, <2>1, <2>3, BlockAssumption DEF Before
<1> QED
  BY <1>5, <1>8, <1>9

\* The chain of the genesis block is sound and has the index LoadBlockIndex makes.
LEMMA GenesisIndex ==
  SoundChain(Genesis) /\ ConnectBlock(Genesis, NoIndex) = IndexOf(Genesis)
<1>1. /\ Genesis \in Block /\ Chain[Genesis] = {Genesis} /\ Vtx[Genesis] \in Seq(Tx)
      /\ DOMAIN Vtx[Genesis] = {1}
  BY BlockAssumption, TxAssumption
<1>2. Vtx[Genesis][1] \in Tx /\ Vin[Vtx[Genesis][1]] = {}
  BY <1>1, TxAssumption
<1>3. Places(Genesis) = {<<Genesis, 1>>} /\ TxAt(<<Genesis, 1>>) = Vtx[Genesis][1]
  BY <1>1 DEF Places, TxAt
<1>4. Txs(Genesis) = {Vtx[Genesis][1]} /\ Spends(Genesis) = {}
  BY <1>1, <1>2 DEF Txs, Spends
<1>5. SoundChain(Genesis)
  BY <1>2, <1>3 DEF SoundChain
<1>6. \A t \in Tx : BlockOf(t, Genesis) = IF t \in Txs(Genesis) THEN Genesis ELSE NoBlock
  BY <1>1, <1>5, IndexOfSoundChain
<1>7. \A o \in OutPoint : SpenderOf(o, Genesis) = NoBlock
  BY <1>1, <1>4 DEF SpenderOf
<1>8. ConnectBlock(Genesis, NoIndex) = IndexOf(Genesis)
  BY <1>4, <1>6, <1>7 DEF ConnectBlock, NoIndex, IndexOf
<1> QED
  BY <1>5, <1>8

=============================================================================
