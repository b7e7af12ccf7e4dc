------------------------------ MODULE ChainData ------------------------------
(***************************************************************************)
(* The immutable data the chain state machine works on.                    *)
(*                                                                         *)
(* A block is named by the hash of its header and a transaction by the     *)
(* hash of its content, so everything a block or a transaction says about  *)
(* itself is a constant function of its name: the parent, the height, the  *)
(* chain trust, the list of transactions, the outputs they spend.  What    *)
(* changes while the node runs (which blocks are indexed, which are        *)
(* connected, what is spent) is the state of module ChainState.            *)
(*                                                                         *)
(* Block is the universe of blocks that pass CBlock::CheckBlock and, for   *)
(* proof-of-stake, CheckProofOfStake; Tx the transactions they contain.    *)
(***************************************************************************)
EXTENDS Integers, Sequences, FiniteSets

CONSTANTS
    Block,          \* hashes of the blocks that may be received
    Genesis,        \* hashGenesisBlock
    NoBlock,        \* uint256(0), a NULL CBlockIndex* or a null CDiskTxPos
    Prev,           \* CBlock::hashPrevBlock
    Height,         \* CBlockIndex::nHeight
    Chain,          \* the block and all its ancestors along pprev
    ChainTrust,     \* CBlockIndex::bnChainTrust
    Tx,             \* hashes of the transactions
    Coinbase,       \* the transactions with IsCoinBase()
    CoinStake,      \* the transactions with IsCoinStake()
    CoinbaseHeight, \* the height pushed at the start of a coinbase's scriptSig
    Vtx,            \* CBlock::vtx
    Vin,            \* the prevouts <<hash, n>> of CTransaction::vin
    VoutSize,       \* CTransaction::vout.size()
    Rejects         \* pairs <<b, tip>>, see ContextAssumption

(***************************************************************************)
(* AddToBlockIndex: the height and the chain trust of a block are those of *)
(* its parent plus one and plus GetBlockTrust(), which is at least one for *)
(* a target that CheckProofOfWork or CheckProofOfStake let through.  Trust *)
(* is a big number, height a 32-bit int no chain gets near to filling.     *)
(***************************************************************************)
ASSUME BlockAssumption ==
    /\ Genesis \in Block
    /\ NoBlock \notin Block
    /\ Prev \in [Block -> Block \cup {NoBlock}]
    /\ Height \in [Block -> Nat]
    /\ Chain \in [Block -> SUBSET Block]
    /\ ChainTrust \in [Block -> Nat]
    /\ Prev[Genesis] = NoBlock
    /\ Height[Genesis] = 0
    /\ Chain[Genesis] = {Genesis}
    /\ \A b \in Block \ {Genesis} :
          /\ Prev[b] \in Block
          /\ Height[b] = Height[Prev[b]] + 1
          /\ ChainTrust[b] > ChainTrust[Prev[b]]
          /\ Chain[b] = Chain[Prev[b]] \cup {b}

(***************************************************************************)
(* CheckBlock: a block's first transaction is a coinbase and no other is,  *)
(* no transaction occurs twice in a block.  CheckTransaction: a coinbase   *)
(* spends nothing, every other transaction spends something and no output  *)
(* twice (so the prevouts are a set).  The genesis block that              *)
(* LoadBlockIndex makes has a coinbase that begins with 0, nothing else.   *)
(***************************************************************************)
ASSUME TxAssumption ==
    /\ Coinbase \subseteq Tx
    /\ CoinStake \subseteq Tx \ Coinbase
    /\ CoinbaseHeight \in [Coinbase -> Nat]
    /\ Vin \in [Tx -> SUBSET (Tx \X Nat)]
    /\ VoutSize \in [Tx -> Nat]
    /\ \A t \in Tx : Vin[t] = {} <=> t \in Coinbase
    /\ Vtx \in [Block -> Seq(Tx)]
    /\ \A b \in Block :
          /\ Vtx[b] # << >>
          /\ \A i \in DOMAIN Vtx[b] : Vtx[b][i] \in Coinbase <=> i = 1
          /\ \A i, j \in DOMAIN Vtx[b] : Vtx[b][i] = Vtx[b][j] => i = j
    /\ Vtx[Genesis] = <<Vtx[Genesis][1]>>
    /\ CoinbaseHeight[Vtx[Genesis][1]] = 0

(***************************************************************************)
(* <<b, tip>> \in Rejects says that the checks of ConnectBlock which do    *)
(* not look at the transaction index refuse b while pindexBest is tip:     *)
(* sigop limit, script and signature checks (skipped while nBestHeight is  *)
(* below the last hardened checkpoint), minimum fee, value in < value out, *)
(* stake reward and coinbase value (bounded by the money supply of         *)
(* pindexBest, whatever chain b is on).                                    *)
(***************************************************************************)
ASSUME ContextAssumption == Rejects \subseteq Block \X Block

\* The transactions of a block and the outputs they spend.
Txs(b) == {Vtx[b][i] : i \in DOMAIN Vtx[b]}
Spends(b) == UNION {Vin[t] : t \in Txs(b)}

\* One entry of a CTxIndex::vSpent vector for every output of a transaction.
OutPoint == UNION {{t} \X (0 .. VoutSize[t] - 1) : t \in Tx}

\* Outputs that must mature before they are spent (ConnectInputs).
Minted == Coinbase \cup CoinStake

=============================================================================
