----------------------------- MODULE BlockRules -----------------------------
(***************************************************************************)
(* The rules a block is made and judged by: its target and its time, the   *)
(* reward, the stake modifier, what CheckBlock and AcceptBlock ask of it,  *)
(* and when its transactions are final.  A part for each; they share no    *)
(* state.                                                                  *)
(***************************************************************************)
EXTENDS Integers, Sequences, FiniteSets, FiniteSetsExt, Functions, SequencesExt

-----------------------------------------------------------------------------
(***************************************************************************)
(* How hard the next block is and when it may say it was made: the target  *)
(* that GetNextTargetRequired asks of a chain of proof-of-work and         *)
(* proof-of-stake blocks, the bound ComputeMaxBits puts on blocks that do  *)
(* not extend the best chain, the rules for nTime in CheckBlock and        *)
(* AcceptBlock, and the times CreateNewBlock gives to the node's own       *)
(* blocks.                                                                 *)
(*                                                                         *)
(* Targets have fewer bits than the compact form keeps.                    *)
(***************************************************************************)
CONSTANTS
    TargetLimit,    \* bnProofOfWorkLimit, bnProofOfStakeLimit: [Kind -> Nat]
    TargetTimespan, \* nWorkTargetTimespan, nStakeTargetTimespan
    TargetSpacing,  \* nWorkTargetSpacing, nStakeTargetSpacing
    Window,         \* the blocks GetNextTargetRequiredV2 goes back, 120 in the code
    MedianTimeSpan, \* nMedianTimeSpan
    MaxClockDrift,  \* nMaxClockDrift
    Day,            \* 24 * 60 * 60
    NextBlocks,     \* NextBlocks[h]: the kinds and distances in time from the parent at height h
    MaxHeight,      \* bound on the length of the chain
    Clock           \* the times GetAdjustedTime() may be, 0 among them

VARIABLES
    index,          \* the chain: index[1] is the genesis block
    now             \* GetAdjustedTime()

retargetVars == <<index, now>>

Kind == {"work", "stake"}

RetargetInit ==
    /\ index = <<[time |-> 0, kind |-> "work", bits |-> TargetLimit["work"]]>>
    /\ now = 0

Best == Len(index)

-----------------------------------------------------------------------------
(***************************************************************************)
(* The target.                                                             *)
(***************************************************************************)
\* GetLastBlockIndex stops at blocks of the kind and at the genesis block.
Kin(kind) == {i \in 1 .. Best : i = 1 \/ index[i].kind = kind}

\* The n-th largest member of a set of numbers.
NthBack(set, n) == CHOOSE i \in set : Cardinality({j \in set : j >= i}) = n

\* Altered: the spacing is that of one block.
Moved_OneBlock(bits, actual, n) ==
    LET interval == TargetTimespan \div TargetSpacing
    IN  (bits * ((interval - 1) * TargetSpacing + 2 * actual)) \div ((interval + 1) * TargetSpacing)

\* bnNew after an interval that took actual and should have taken n blocks.
Moved(bits, actual, n) ==
    LET interval == TargetTimespan \div TargetSpacing
        expected == TargetSpacing * n
    IN  (bits * ((interval - 1) * expected + 2 * actual)) \div ((interval + 1) * expected)

Spaced(from, to) == IF index[to].time < index[from].time THEN 1 ELSE index[to].time - index[from].time

GetNextTargetRequired(kind) ==
    LET kin == Kin(kind)
        past == kin \ {Max(kin)}
        n == Min({Window, Cardinality(past)})
        moved == Moved(index[Max(kin)].bits, Spaced(NthBack(past, n), Max(kin)), n)
    IN  IF Cardinality(kin) < 3 \/ moved = 0 THEN TargetLimit[kind]
        ELSE Min({moved, TargetLimit[kind]})

\* ComputeMaxBits: doubled once, and once more for each day that has begun.
RECURSIVE Doubled(_, _, _)
Doubled(limit, bits, time) ==
    IF time > 0 /\ bits < limit THEN Doubled(limit, bits * 2, time - Day) ELSE Min({bits, limit})

ComputeMaxBits(kind, base, time) == Doubled(TargetLimit[kind], base * 2, time)

-----------------------------------------------------------------------------
(***************************************************************************)
(* The time.                                                               *)
(***************************************************************************)
\* The middle of the times of the last blocks up to i, the upper one of two.
LastTimes(i) == [j \in Max({1, i - MedianTimeSpan + 1}) .. i |-> index[j].time]

GetMedianTimePast(i) ==
    LET times == LastTimes(i)
        half == Cardinality(DOMAIN times) \div 2
    IN  CHOOSE t \in Range(times) :
            /\ Quantify(DOMAIN times, LAMBDA j : times[j] < t) <= half
            /\ Quantify(DOMAIN times, LAMBDA j : times[j] <= t) > half

\* CheckBlock and AcceptBlock.
TimeIsRight(time) ==
    /\ time <= now + MaxClockDrift
    /\ time > GetMedianTimePast(Best)
    /\ time + MaxClockDrift >= index[Best].time

\* What CreateNewBlock writes into a proof-of-work block with transactions up to txTime.
WorkTime(txTime) ==
    Max({GetMedianTimePast(Best) + 1, txTime, index[Best].time - MaxClockDrift, now})

\* The coinstakes CreateNewBlock takes, and the time of their blocks.
StakeIsTaken(time) == time >= Max({GetMedianTimePast(Best) + 1, index[Best].time - MaxClockDrift})
StakeTime(time) == Max({GetMedianTimePast(Best) + 1, time, index[Best].time - MaxClockDrift})

-----------------------------------------------------------------------------
AcceptBlock(kind, gap) ==
    LET time == index[Best].time + gap
    IN  /\ TimeIsRight(time)
        /\ index' = Append(index, [time |-> time, kind |-> kind, bits |-> GetNextTargetRequired(kind)])
        /\ UNCHANGED now

TimePasses ==
    /\ now' \in {t \in Clock : t > now}
    /\ UNCHANGED index

RetargetNext ==
    \/ Best <= MaxHeight /\ \E next \in NextBlocks[Best] : AcceptBlock(next[1], next[2])
    \/ TimePasses

RetargetSpec == RetargetInit /\ [][RetargetNext]_retargetVars

-----------------------------------------------------------------------------
\* Times that no block beyond the clock's drift and no target beyond its limit gets into.
RetargetTypeOK ==
    /\ \A i \in 1 .. Best :
        /\ index[i].kind \in Kind /\ index[i].time \in Nat
        /\ index[i].bits \in 1 .. TargetLimit[index[i].kind]
        /\ index[i].time <= now + MaxClockDrift
    /\ now \in Clock

(***************************************************************************)
(* The target follows the spacing: blocks of a kind that came as fast as   *)
(* they should, or faster, do not make the next one easier, and slow ones  *)
(* do not make it harder, wherever in a mixed chain they are and however   *)
(* their times go back (GetNextTargetRequiredV2).                          *)
(***************************************************************************)
TargetFollowsSpacing ==
    \A kind \in Kind :
        LET past == {i \in 1 .. Best : i = 1 \/ index[i].kind = kind}
            last == Max(past)
            from == {i \in past : Cardinality({j \in past : j >= i}) = Min({Window + 1, Cardinality(past)})}
            first == Max(from)
            steps == Cardinality(past \cap (first + 1) .. last)
            onTime == index[last].time - index[first].time <= steps * TargetSpacing
            next == GetNextTargetRequired(kind)
        IN  Cardinality(past) >= 3 =>
                IF onTime THEN next <= index[last].bits
                ELSE next >= index[last].bits

(***************************************************************************)
(* The median of the past, which a block must be later than, only rises    *)
(* along a chain, though the times of the blocks may fall (AcceptBlock).   *)
(***************************************************************************)
MedianOnlyRises == \A i \in 1 .. Best - 1 : GetMedianTimePast(i) <= GetMedianTimePast(i + 1)

(***************************************************************************)
(* What the node makes itself is in time: CreateNewBlock gives its blocks  *)
(* times that CheckBlock and AcceptBlock let pass, whatever the times of   *)
(* the last blocks, and leaves a coinstake the time it was signed with.    *)
(* Only when the median has reached the limit of the drift must the node   *)
(* wait.                                                                   *)
(***************************************************************************)
OwnBlocksAreInTime ==
    GetMedianTimePast(Best) < now + MaxClockDrift =>
        /\ \A txTime \in 0 .. now : TimeIsRight(WorkTime(txTime))
        /\ \A time \in 0 .. now : StakeIsTaken(time) => StakeTime(time) = time /\ TimeIsRight(time)

\* The rules for target and time together.
NextBlockIsFair == RetargetTypeOK /\ TargetFollowsSpacing /\ MedianOnlyRises /\ OwnBlocksAreInTime

(***************************************************************************)
(* "minimum amount of work that could possibly be required nTime after     *)
(* minimum proof-of-work required was nBase": the target a chain asks for  *)
(* is one that ComputeMaxBits admits, from any earlier block on; ProcessBlock *)
(* takes a block beyond it for spam.                                       *)
(***************************************************************************)
MaxBitsAdmitRequired ==
    \A i \in 2 .. Best, j \in 2 .. Best :
        i < j /\ index[i].kind = index[j].kind =>
            index[j].bits <= ComputeMaxBits(index[j].kind, index[i].bits, index[j].time - index[i].time)

-----------------------------------------------------------------------------
(***************************************************************************)
(* What a block may create: GetProofOfWorkReward and GetProofOfStakeReward *)
(* over nPOWHeight and nMoneySupply, on several nodes that make blocks and *)
(* get those of the others in any order that respects the parents.  The    *)
(* rewards read pindexBest, which while a block is connected is the best   *)
(* block so far and not always the parent.  The trust of a block is its    *)
(* height; fees go from the outputs of a block to its coinbase and leave   *)
(* the supply as it is.                                                    *)
(***************************************************************************)
CONSTANTS
    Miner,          \* the nodes
    FirstReward, EarlyReward, LateReward,   \* 35000000, 0.15 and 3.3 coins in the code
    EarlyUntil,     \* the last nPOWHeight of EarlyReward, 518400 in the code
    StakeReward,    \* what the age of a coinstake's coins earns
    MaxMoney,       \* MAX_MONEY
    MaxMade         \* bound on the blocks made

VARIABLES
    made,           \* all blocks; made[1] is the genesis block
    known,          \* mapBlockIndex of each node
    best,           \* pindexBest
    refused,        \* history: blocks their makers could not connect
    astray          \* history: a best block decided otherwise than the parent would

rewardVars == <<made, known, best, refused, astray>>

RewardsInit ==
    /\ made = <<[prev |-> 0, kind |-> "work", height |-> 0, pow |-> 0, mint |-> 0, supply |-> 0]>>
    /\ known = [n \in Miner |-> {1}]
    /\ best = [n \in Miner |-> 1]
    /\ refused = {} /\ astray = FALSE

-----------------------------------------------------------------------------
\* Altered: supply is not looked at.
GetProofOfWorkReward_NoCap(pow, top) ==
    IF pow <= 1 THEN FirstReward ELSE IF pow <= EarlyUntil THEN EarlyReward ELSE LateReward

\* The rewards on top of a best block.
GetProofOfWorkReward(pow, top) ==
    IF made[top].supply > MaxMoney THEN 0
    ELSE IF pow <= 1 THEN FirstReward ELSE IF pow <= EarlyUntil THEN EarlyReward ELSE LateReward

GetProofOfStakeReward(top) == IF made[top].supply < MaxMoney THEN StakeReward ELSE 0

\* nPOWHeight of a block on top of prev: AddToBlockIndex counts the parent's kind.
PowHeight(prev) == IF made[prev].kind = "work" THEN made[prev].pow + 1 ELSE made[prev].pow

\* ConnectBlock and ConnectInputs, while top is the best block.
Allowed(b, top) ==
    made[b].mint <= IF made[b].kind = "work" THEN GetProofOfWorkReward(made[b].pow, top)
                    ELSE GetProofOfStakeReward(top)

\* The best block decides what the parent would.
Straight(b, top) == Allowed(b, top) = Allowed(b, made[b].prev)

RECURSIVE BackTo(_, _)
BackTo(b, blocks) == IF b \in blocks THEN {} ELSE {b} \cup BackTo(made[b].prev, blocks)

\* The blocks to connect when b becomes the best of a node.
Path(n, b) == BackTo(b, BackTo(best[n], {1}) \cup {1})

\* AddToBlockIndex and SetBestChain at node n, of a block that extends what it knows.
Process(n, b) ==
    LET wins == made[b].height > made[best[n]].height
        connects == wins /\ \A x \in Path(n, b) : Allowed(x, best[n])
    IN  /\ known' = [known EXCEPT ![n] = @ \cup {b}]
        /\ best' = IF connects THEN [best EXCEPT ![n] = b] ELSE best
        /\ astray' = (astray \/ (wins /\ \E x \in Path(n, b) : ~Straight(x, best[n])))
        /\ refused' = IF wins /\ ~connects /\ made[b].prev = best[n] THEN refused \cup {b} ELSE refused

-----------------------------------------------------------------------------
\* What CreateNewBlock puts into a block on top of the best one.
Minted(n, kind) ==
    IF kind = "work" THEN GetProofOfWorkReward(made[best[n]].pow + 1, best[n])
    ELSE GetProofOfStakeReward(best[n])

Template(n, kind) ==
    LET prev == made[best[n]]
    IN  [prev |-> best[n], kind |-> kind, height |-> prev.height + 1, pow |-> PowHeight(best[n]),
         mint |-> Minted(n, kind), supply |-> prev.supply + Minted(n, kind)]

CreateNewBlock(n, kind) ==
    /\ Len(made) <= MaxMade
    /\ made' = Append(made, Template(n, kind))
    /\ UNCHANGED <<known, best, refused, astray>>

\* CheckWork refuses what is stale; so the block meets the best block it was made on.
Unprocessed == {b \in 1 .. Len(made) : \A n \in Miner : b \notin known[n]}

CheckWork(n, b) ==
    /\ b \in Unprocessed /\ made[b].prev = best[n]
    /\ Process(n, b) /\ UNCHANGED made

ProcessBlock(n, b) ==
    /\ Unprocessed = {} /\ b \notin known[n] /\ made[b].prev \in known[n]
    /\ Process(n, b) /\ UNCHANGED made

RewardsNext ==
    \E n \in Miner :
        \/ \E kind \in {"work", "stake"} : Unprocessed = {} /\ CreateNewBlock(n, kind)
        \/ \E b \in 1 .. Len(made) : CheckWork(n, b) \/ ProcessBlock(n, b)

RewardsSpec == RewardsInit /\ [][RewardsNext]_rewardVars

-----------------------------------------------------------------------------
(***************************************************************************)
(* No own block is wasted for its reward: what CreateNewBlock claims is    *)
(* what ConnectBlock allows.  The exception is a proof-of-work block on a  *)
(* proof-of-stake block where the reward changes: the miner counts one     *)
(* proof-of-work block too many (main.cpp:4374), and all of its blocks are *)
(* refused until somebody else makes a proof-of-work block.                *)
(***************************************************************************)
OwnBlocksConnect ==
    \A b \in refused :
        /\ made[b].kind = "work" /\ made[made[b].prev].kind = "stake"
        /\ made[b].pow = EarlyUntil

(***************************************************************************)
(* Nodes that know the same blocks are on the same chain, in whatever      *)
(* order the blocks came, when one chain is longer than the others; but    *)
(* not after the supply of another branch decided over a block, which      *)
(* happens when one branch has passed MAX_MONEY and another has not.       *)
(***************************************************************************)
NodesAgree ==
    \A m, n \in Miner :
        known[m] = known[n] /\ ~astray /\ refused = {}
            => made[best[m]].height = made[best[n]].height

(***************************************************************************)
(* The supply ends: it passes MAX_MONEY by less than the reward that took  *)
(* it there, as long as no other branch's supply decided.                  *)
(***************************************************************************)
SupplyIsBounded ==
    ~astray => \A n \in Miner :
        LET top == made[best[n]]
        IN  /\ top.supply > MaxMoney => top.mint = 0 \/ made[top.prev].supply <= MaxMoney
            /\ top.supply <= MaxMoney + FirstReward

RewardsAreRight == OwnBlocksConnect /\ NodesAgree /\ SupplyIsBounded

-----------------------------------------------------------------------------
(***************************************************************************)
(* The stake modifier along the best chain (kernel.cpp): when a block gets *)
(* a new one, how its bits are taken from the blocks of the past, and      *)
(* which one the kernel of a coin is hashed with.  Hashes are constants;   *)
(* a modifier has as many bits as there are rounds, 64 in the code.        *)
(***************************************************************************)
CONSTANTS
    Rounds,             \* the rounds of the selection
    ModifierInterval,   \* nModifierInterval
    IntervalRatio,      \* MODIFIER_INTERVAL_RATIO
    StakeMinAge,        \* nStakeMinAge
    BlockHash,          \* the hash of the n-th block, as a number: [Nat -> Nat]
    SelectionHash(_, _), \* the hash of a block's proof with the modifier before
    TimeGaps,           \* what block times may differ by from their parents'
    MaxBlocks           \* bound on the length of the chain

VARIABLE chain          \* the best chain, chain[1] the genesis block

modifierVars == chain

ModifierInit ==
    chain = <<[time |-> 0, stake |-> FALSE, bit |-> 0, generated |-> TRUE, modifier |-> 0]>>

Tip == Len(chain)

-----------------------------------------------------------------------------
(***************************************************************************)
(* ComputeNextStakeModifier, as its loops go.                              *)
(***************************************************************************)
\* GetStakeModifierSelectionIntervalSection
Section(n) ==
    (ModifierInterval * (Rounds - 1)) \div (Rounds - 1 + (Rounds - 1 - n) * (IntervalRatio - 1))

\* GetStakeModifierSelectionInterval
SelectionInterval == FoldLeft(LAMBDA sum, n : sum + Section(n - 1), 0, [n \in 1 .. Rounds |-> n])

\* GetLastStakeModifier: the block that generated the modifier of block i.
Generator(i) == CHOOSE j \in 1 .. i : chain[j].generated /\ \A k \in j + 1 .. i : ~chain[k].generated

Bucket(i) == chain[i].time \div ModifierInterval

SelectionStart(i) == Bucket(i) * ModifierInterval - SelectionInterval

\* The walk back ends at the first block that is too old.
Candidates(i) == {j \in 1 .. i : \A k \in j .. i : chain[k].time >= SelectionStart(i)}

SortedByTimestamp(i) ==
    SetToSortSeq(Candidates(i), LAMBDA j, k :
        chain[j].time < chain[k].time \/ (chain[j].time = chain[k].time /\ BlockHash[j] < BlockHash[k]))

\* A proof of stake shifted by 32 bits is less than any hash of a proof-of-work block.
Precedes(j, k, modifier) ==
    \/ chain[j].stake /\ ~chain[k].stake
    \/ chain[j].stake = chain[k].stake /\ SelectionHash(j, modifier) < SelectionHash(k, modifier)

\* Altered: a block may be selected in every round.
SelectBlock_Again(sorted, chosen, stop, modifier) ==
    LET visit(found, j) ==
            IF found.ended \/ (found.block # 0 /\ chain[j].time > stop) THEN [found EXCEPT !.ended = TRUE]
            ELSE IF found.block = 0 \/ Precedes(j, found.block, modifier) THEN [found EXCEPT !.block = j]
            ELSE found
    IN  FoldLeft(visit, [block |-> 0, ended |-> FALSE], sorted).block

\* SelectBlockFromCandidates: 0 is no block.
SelectBlock(sorted, chosen, stop, modifier) ==
    LET visit(found, j) ==
            IF found.ended \/ (found.block # 0 /\ chain[j].time > stop) THEN [found EXCEPT !.ended = TRUE]
            ELSE IF j \in chosen THEN found
            ELSE IF found.block = 0 \/ Precedes(j, found.block, modifier) THEN [found EXCEPT !.block = j]
            ELSE found
    IN  FoldLeft(visit, [block |-> 0, ended |-> FALSE], sorted).block

\* The rounds, with the modifier so far, what is selected and where the section ends.
Selection(i) ==
    LET sorted == SortedByTimestamp(i)
        last == chain[Generator(i)].modifier
        round(s, n) ==
            LET stop == s.stop + Section(n - 1)
                block == SelectBlock(sorted, ToSet(s.chosen), stop, last)
            IN  [stop |-> stop, chosen |-> Append(s.chosen, block),
                 modifier |-> s.modifier + chain[block].bit * 2^(n - 1)]
    IN  FoldLeft(round, [stop |-> SelectionStart(i), chosen |-> <<>>, modifier |-> 0],
                 [n \in 1 .. (IF Len(sorted) < Rounds THEN Len(sorted) ELSE Rounds) |-> n])

\* A new modifier is due when the parent is in a later interval than the last generator.
IsDue(i) == Bucket(Generator(i)) < Bucket(i)

AddBlock(gap, stake, bit) ==
    /\ Tip < MaxBlocks
    /\ chain' = Append(chain,
         [time |-> chain[Tip].time + gap, stake |-> stake, bit |-> bit, generated |-> IsDue(Tip),
          modifier |-> IF IsDue(Tip) THEN Selection(Tip).modifier ELSE chain[Generator(Tip)].modifier])

ModifierNext == \E gap \in TimeGaps, stake \in BOOLEAN, bit \in {0, 1} : AddBlock(gap, stake, bit)

ModifierSpec == ModifierInit /\ [][ModifierNext]_modifierVars

-----------------------------------------------------------------------------
(***************************************************************************)
(* GetKernelStakeModifier of a coin in block f: the first generator that   *)
(* is later by a selection interval; 0 when the chain does not reach it.   *)
(***************************************************************************)
LateEnough(f, j) == chain[j].generated /\ chain[j].time >= chain[f].time + SelectionInterval

KernelGenerator(f) ==
    LET late == {j \in f + 1 .. Tip : LateEnough(f, j)}
    IN  IF late = {} THEN 0 ELSE CHOOSE j \in late : \A k \in late : j <= k

-----------------------------------------------------------------------------
(***************************************************************************)
(* The bits come from where kernel.cpp says they do: every round takes a   *)
(* block that no other round has taken, out of those up to the end of its  *)
(* section the one whose hash comes first, and when there is none the      *)
(* oldest of the rest; a proof-of-stake block before any other.            *)
(***************************************************************************)
SelectionIsSound ==
    IsDue(Tip) =>
        LET chosen == Selection(Tip).chosen
            last == chain[Generator(Tip)].modifier
            section[n \in 0 .. Rounds] == IF n = 0 THEN SelectionStart(Tip) ELSE section[n - 1] + Section(n - 1)
        IN  \A n \in 1 .. Len(chosen) :
                LET rest == Candidates(Tip) \ {chosen[m] : m \in 1 .. n - 1}
                    within == {j \in rest : chain[j].time <= section[n]}
                IN  /\ chosen[n] \in rest
                    /\ IF within # {} THEN chosen[n] \in within /\ \A j \in within : ~Precedes(j, chosen[n], last)
                       ELSE \A j \in rest : chain[chosen[n]].time <= chain[j].time

(***************************************************************************)
(* "Stake modifier is recomputed at a fixed time interval instead of every *)
(* block": no two blocks in a row of one interval generate one; while      *)
(* block times do not go back there is one generator an interval.          *)
(***************************************************************************)
OneModifierPerInterval ==
    \A i, j \in 2 .. Tip :
        i < j /\ chain[i].generated /\ chain[j].generated =>
            /\ j > i + 1 \/ Bucket(i) < Bucket(i + 1) \/ Bucket(i) < Bucket(i - 1)
            /\ (\A k \in 2 .. j : chain[k].time >= chain[k - 1].time) => Bucket(i) < Bucket(j)

(***************************************************************************)
(* A coin that is old enough to stake has a modifier to be hashed with, as *)
(* long as times do not go back and blocks come within an interval of each *)
(* other: StakeMinAge leaves room for the selection interval and two more  *)
(* (CheckStakeKernelHash, "reached best block").  And none has a           *)
(* modifier before its selection interval has passed.                      *)
(***************************************************************************)
AgedCoinsHaveModifier ==
    \A f \in 1 .. Tip :
        /\ chain[Tip].time < chain[f].time + SelectionInterval
             /\ (\A k \in f + 1 .. Tip : chain[k].time >= chain[k - 1].time)
           => KernelGenerator(f) = 0
        /\ chain[Tip].time >= chain[f].time + StakeMinAge
             /\ (\A k \in f + 1 .. Tip : chain[k].time - chain[k - 1].time \in 0 .. ModifierInterval)
           => KernelGenerator(f) # 0

ModifierIsRight == SelectionIsSound /\ OneModifierPerInterval /\ AgedCoinsHaveModifier

-----------------------------------------------------------------------------
(***************************************************************************)
(* What CBlock::CheckBlock asks of a block by itself: the form of its      *)
(* transactions, the Merkle tree over them and the signature.  A block is  *)
(* filled, sealed and signed by its maker, and may come to the node with   *)
(* transactions more or less.  A hash is the value it hashes.              *)
(***************************************************************************)
CONSTANTS
    BlockTx,     \* the transactions: [id, vin (prevouts, 0 is null), vout, nTime]
    MoneyLimit,
    MaxSealed,   \* bound on the transactions the maker puts into a block
    BlockTimes,
    WalletKeys   \* the keys of the maker's wallet

VARIABLES vtx, nBlockTime, hashMerkleRoot, vchBlockSig,
          sealed \* vtx when the maker sealed it, <<>> before (history)

blockVars == <<vtx, nBlockTime, hashMerkleRoot, vchBlockSig, sealed>>

\* An output is [value, form, key]; the form is what Solver makes of the script, "strange"
\* when it makes nothing of it.
IsEmpty(o) == o.value = 0 /\ o.form = "empty"
IsCoinBase(tx) == Len(tx.vin) = 1 /\ tx.vin[1] = 0 /\ tx.vout # <<>>
IsCoinStake(tx) == tx.vin # <<>> /\ tx.vin[1] # 0 /\ Len(tx.vout) >= 2 /\ IsEmpty(tx.vout[1])
IsProofOfStake(txs) == Len(txs) > 1 /\ IsCoinStake(txs[2])

MoneyRange(v) == v \in 0 .. MoneyLimit
ValueTo(tx, i) == FoldLeft(+, 0, [j \in 1 .. i |-> tx.vout[j].value])

CheckTransaction_NoTotal(tx) ==
    /\ tx.vin # <<>> /\ tx.vout # <<>>
    /\ \A i \in DOMAIN tx.vout :
        /\ IsEmpty(tx.vout[i]) => IsCoinBase(tx) \/ IsCoinStake(tx)
        /\ MoneyRange(tx.vout[i].value)
    /\ \A i, j \in DOMAIN tx.vin : tx.vin[i] = tx.vin[j] => i = j
    /\ ~IsCoinBase(tx) => \A i \in DOMAIN tx.vin : tx.vin[i] # 0

CheckTransaction(tx) ==
    /\ tx.vin # <<>> /\ tx.vout # <<>>
    /\ \A i \in DOMAIN tx.vout :
        /\ IsEmpty(tx.vout[i]) => IsCoinBase(tx) \/ IsCoinStake(tx)
        /\ MoneyRange(tx.vout[i].value) /\ MoneyRange(ValueTo(tx, i))
    /\ \A i, j \in DOMAIN tx.vin : tx.vin[i] = tx.vin[j] => i = j
    /\ ~IsCoinBase(tx) => \A i \in DOMAIN tx.vin : tx.vin[i] # 0

\* CTransaction::GetValueOut throws when a value or a sum is out of range.
ValueOutThrows(tx) ==
    \E i \in DOMAIN tx.vout : ~MoneyRange(tx.vout[i].value) \/ ~MoneyRange(ValueTo(tx, i))

-----------------------------------------------------------------------------
\* A hash is a tuple: of the id of a transaction, or of the two hashes it was made from.
TxHash(tx) == <<tx.id>>
NoHash == <<>>

\* BuildMerkleTree: the last hash of an odd level is hashed with itself.
NextLevel(level) ==
    [k \in 1 .. (Len(level) + 1) \div 2 |->
        <<level[2 * k - 1], level[IF 2 * k <= Len(level) THEN 2 * k ELSE Len(level)]>>]

\* The levels of vMerkleTree, the transactions first.
MerkleTree(txs) ==
    FoldLeft(LAMBDA tree, tx : IF Len(Last(tree)) > 1 THEN Append(tree, NextLevel(Last(tree))) ELSE tree,
             <<[i \in DOMAIN txs |-> TxHash(txs[i])]>>, txs)

BuildMerkleTree(txs) == IF txs = <<>> THEN NoHash ELSE Last(MerkleTree(txs))[1]

\* nIndex ^ 1, at most the last of the level; indices count from 0 as in the code.
Sibling_Unbounded(n, size) == IF n % 2 = 0 THEN n + 1 ELSE n - 1
Sibling(n, size) ==
    LET other == IF n % 2 = 0 THEN n + 1 ELSE n - 1 IN IF other < size THEN other ELSE size - 1

At(level, n) == IF n < Len(level) THEN level[n + 1] ELSE NoHash

GetMerkleBranch(txs, nIndex) ==
    LET tree == MerkleTree(txs) IN
    [l \in 1 .. Len(tree) - 1 |->
        At(tree[l], Sibling(nIndex \div 2 ^ (l - 1), Len(tree[l])))]

CheckMerkleBranch(hash, branch, nIndex) ==
    FoldLeft(LAMBDA h, l : IF (nIndex \div 2 ^ (l - 1)) % 2 = 1 THEN <<branch[l], h>> ELSE <<h, branch[l]>>,
             hash, [l \in DOMAIN branch |-> l])

-----------------------------------------------------------------------------
\* The outputs that may name the key of the block.
SigningOutputs(txs) == IF IsProofOfStake(txs) THEN <<txs[2].vout[2]>> ELSE txs[1].vout

\* SignBlock passes over what it cannot use - the first output it has the key of will do.
SignBlock(txs, hash) ==
    LET outs == SigningOutputs(txs)
        mine == {i \in DOMAIN outs : outs[i].form = "pubkey" /\ outs[i].key \in WalletKeys}
    IN  IF mine = {} THEN <<>>
        ELSE <<outs[CHOOSE i \in mine : \A j \in mine : i <= j].key, hash>>

\* CheckBlockSignature gives up at an output that Solver makes nothing of.
CheckBlockSignature_First(txs, hash, sig) ==
    LET outs == SigningOutputs(txs) IN
    outs[1].form = "pubkey" /\ sig = <<outs[1].key, hash>>

CheckBlockSignature(txs, hash, sig) ==
    LET outs == SigningOutputs(txs) IN
    \E i \in DOMAIN outs :
        /\ outs[i].form = "pubkey" /\ sig = <<outs[i].key, hash>>
        /\ \A j \in 1 .. i - 1 : outs[j].form # "strange"

Unique(txs) == Cardinality({txs[i].id : i \in DOMAIN txs}) = Len(txs)

\* CheckBlock but for the size, the proof of work and the node's clock.
FormIsRight(txs, time) ==
    /\ txs # <<>> /\ IsCoinBase(txs[1])
    /\ \A i \in 2 .. Len(txs) : ~IsCoinBase(txs[i])
    /\ IsProofOfStake(txs) =>
        /\ Len(txs[1].vout) = 1 /\ IsEmpty(txs[1].vout[1])
        /\ time = txs[2].nTime
    /\ \A i \in DOMAIN txs : CheckTransaction(txs[i]) /\ txs[i].nTime <= time

CheckBlock_Doubles(txs, time, root, sig) ==
    /\ FormIsRight(txs, time)
    /\ root = BuildMerkleTree(txs)
    /\ CheckBlockSignature(txs, <<root, time>>, sig)

CheckBlock(txs, time, root, sig) ==
    /\ FormIsRight(txs, time)
    /\ Unique(txs)
    /\ root = BuildMerkleTree(txs)
    /\ CheckBlockSignature(txs, <<root, time>>, sig)

-----------------------------------------------------------------------------
BlockInit ==
    /\ vtx = <<>> /\ nBlockTime \in BlockTimes
    /\ hashMerkleRoot = NoHash /\ vchBlockSig = <<>> /\ sealed = <<>>

\* The maker fills the block ...
AddTransaction(tx) ==
    /\ sealed = <<>> /\ Len(vtx) < MaxSealed
    /\ vtx = <<>> <=> IsCoinBase(tx)
    /\ vtx' = Append(vtx, tx)
    /\ UNCHANGED <<nBlockTime, hashMerkleRoot, vchBlockSig, sealed>>

\* ... and seals and signs it.
Seal ==
    /\ sealed = <<>> /\ FormIsRight(vtx, nBlockTime) /\ Unique(vtx)
    /\ sealed' = vtx
    /\ hashMerkleRoot' = BuildMerkleTree(vtx)
    /\ vchBlockSig' = SignBlock(vtx, <<BuildMerkleTree(vtx), nBlockTime>>)
    /\ UNCHANGED <<vtx, nBlockTime>>

\* The list of transactions on its way to the node, one more or one less than it was.
Alter ==
    /\ sealed # <<>> /\ vtx = sealed
    /\ \/ \E tx \in BlockTx : vtx' = Append(vtx, tx)
       \/ vtx' = Front(vtx)
       \/ \E i \in DOMAIN vtx, tx \in BlockTx : vtx' = [vtx EXCEPT ![i] = tx]
    /\ UNCHANGED <<nBlockTime, hashMerkleRoot, vchBlockSig, sealed>>

BlockNext == Seal \/ Alter \/ \E tx \in BlockTx : AddTransaction(tx)

-----------------------------------------------------------------------------
\* A block that CheckBlock takes holds the transactions its maker put into it: an odd level
\* of the tree repeats its last hash, so the root alone does not tell (main.h:990,
\* main.cpp:2224-2235).
BlockIsWhole ==
    sealed # <<>> /\ CheckBlock(vtx, nBlockTime, hashMerkleRoot, vchBlockSig) => vtx = sealed

\* The branch of each transaction leads to the root (main.h:1008-1037).
BranchesLead ==
    \A i \in DOMAIN vtx :
        CheckMerkleBranch(TxHash(vtx[i]), GetMerkleBranch(vtx, i - 1), i - 1) = BuildMerkleTree(vtx)

\* A transaction that CheckTransaction takes never makes GetValueOut throw: an exception in
\* ConnectInputs would leave the reorganization with nothing to undo it.
ValuesAreSafe == \A tx \in BlockTx : CheckTransaction(tx) => ~ValueOutThrows(tx)

\* What SignBlock signs passes CheckBlockSignature, when Solver knows the outputs.
SignedBlockPasses(solved) ==
    sealed # <<>> /\ vchBlockSig # <<>>
    /\ (solved => \A i \in DOMAIN SigningOutputs(sealed) : SigningOutputs(sealed)[i].form # "strange")
    => CheckBlock(sealed, nBlockTime, hashMerkleRoot, vchBlockSig)

BlockChecksAreRight == BlockIsWhole /\ BranchesLead /\ ValuesAreSafe /\ SignedBlockPasses(TRUE)

\* Without the exception: what the code does not keep (main.cpp:2523, main.cpp:2599).
EverySignedBlockPasses == SignedBlockPasses(FALSE)

-----------------------------------------------------------------------------
(***************************************************************************)
(* Transactions with a lock time, from the memory pool into a template and *)
(* from the template into a block.  CreateNewBlock asks IsFinal with the   *)
(* best height and the time it is, AcceptBlock with the height and the     *)
(* time of the block.                                                      *)
(***************************************************************************)
CONSTANTS
    LockTx,         \* [nLockTime, nTime, final]: final when every input has the last nSequence
    Threshold,      \* LOCKTIME_THRESHOLD: below it nLockTime is a height
    MaxSearch,      \* seconds that the kernel search goes back, nMaxStakeSearchInterval
    MaxLockHeight, MaxLockTime  \* bounds on the best height and the clock

VARIABLES
    nBestHeight,
    bestTime, \* GetMedianTimePast of the best block
    adjustedTime,
    pblock    \* the template: [height, nTime, vtx, stake, back], or NoBlockYet

finalityVars == <<nBestHeight, bestTime, adjustedTime, pblock>>

NoBlockYet == [height |-> 0, nTime |-> 0, vtx |-> {}, stake |-> FALSE, back |-> 0]

Larger(a, b) == IF a > b THEN a ELSE b

IsFinal(tx, height, time) ==
    \/ tx.nLockTime = 0
    \/ tx.nLockTime < (IF tx.nLockTime < Threshold THEN height ELSE time)
    \/ tx.final

FinalityInit ==
    /\ nBestHeight = 1 /\ bestTime = Threshold /\ adjustedTime = Threshold
    /\ pblock = NoBlockYet

\* The transactions CreateNewBlock takes by their times; latest is 0 or the time of the coinstake.
Ripe_Anything(latest) == {tx \in LockTx : tx.nTime <= adjustedTime}

Ripe(latest) ==
    {tx \in LockTx : /\ IsFinal(tx, nBestHeight, adjustedTime)
                     /\ tx.nTime <= adjustedTime /\ (latest = 0 \/ tx.nTime <= latest)}

\* UpdateTime keeps the time of a proof-of-work template up with the clock; without a
\* coinstake the block is later than all it holds and than the median of the last blocks.
CreateWork ==
    pblock' = [height |-> nBestHeight + 1, vtx |-> Ripe(0), stake |-> FALSE, back |-> 0,
               nTime |-> Larger(adjustedTime, bestTime + 1)]

\* A kernel found back seconds ago gives the block its time.
CreateStake(back) ==
    LET time == adjustedTime - back IN
    /\ time > bestTime
    /\ pblock' = [height |-> nBestHeight + 1, vtx |-> Ripe(time), stake |-> TRUE, back |-> back,
                  nTime |-> time]

CreateTemplate ==
    /\ CreateWork \/ \E back \in 0 .. MaxSearch : CreateStake(back)
    /\ UNCHANGED <<nBestHeight, bestTime, adjustedTime>>

UpdateTime ==
    /\ pblock # NoBlockYet /\ ~pblock.stake
    /\ pblock' = [pblock EXCEPT !.nTime = Larger(@, adjustedTime)]
    /\ UNCHANGED <<nBestHeight, bestTime, adjustedTime>>

ClockGoesOn ==
    /\ adjustedTime < Threshold + MaxLockTime
    /\ adjustedTime' = adjustedTime + 1
    /\ UNCHANGED <<nBestHeight, bestTime, pblock>>

\* Another block becomes the best one; the template on the last one is dropped.
BestMovesOn ==
    /\ nBestHeight < MaxLockHeight
    /\ nBestHeight' = nBestHeight + 1
    /\ bestTime' \in bestTime + 1 .. adjustedTime + 1
    /\ pblock' = NoBlockYet
    /\ UNCHANGED adjustedTime

FinalityNext == CreateTemplate \/ UpdateTime \/ ClockGoesOn \/ BestMovesOn

-----------------------------------------------------------------------------
\* AcceptBlock refuses a block that holds a transaction that is not final in it.
AllFinal == \A tx \in pblock.vtx : IsFinal(tx, pblock.height, pblock.nTime)

\* A template of this node is never refused for its lock times, unless it is a proof of
\* stake whose kernel was found in the past (main.cpp:4197 against main.cpp:2280).
TemplateIsFinal == pblock.back = 0 => AllFinal

\* A transaction that is final stays so as the chain and the clock go on, so what a template
\* left out waits and is not lost.
StaysFinal ==
    \A tx \in LockTx : IsFinal(tx, nBestHeight, adjustedTime)
        => IsFinal(tx, nBestHeight + 1, adjustedTime + 1)

FinalityIsKept == TemplateIsFinal /\ StaysFinal

\* Without the exception: what the code does not keep.
EveryTemplateIsFinal == AllFinal
=============================================================================
