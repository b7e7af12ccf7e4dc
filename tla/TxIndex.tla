------------------------------- MODULE TxIndex -------------------------------
(***************************************************************************)
(* The transaction index of the block database (CTxDB's "tx" records) and  *)
(* the two operations on it: ConnectBlock and DisconnectBlock.             *)
(*                                                                         *)
(* An index is a record ix: ix.pos[t] is the block the CDiskTxPos of t's   *)
(* CTxIndex points into, NoBlock when there is no record for t, and        *)
(* ix.spent[<<t, n>>] is the block of the transaction that vSpent[n]       *)
(* points to, NoBlock when the entry is null.                              *)
(***************************************************************************)
EXTENDS ChainData

CONSTANT CoinbaseMaturity       \* nCoinbaseMaturity

ASSUME MaturityAssumption == CoinbaseMaturity \in Nat

Index == [pos : [Tx -> Block \cup {NoBlock}], spent : [OutPoint -> Block \cup {NoBlock}]]

NoIndex == [pos |-> [t \in Tx |-> NoBlock], spent |-> [o \in OutPoint |-> NoBlock]]

-----------------------------------------------------------------------------
(***************************************************************************)
(* ConnectInputs walks from b towards the genesis block for less than      *)
(* CoinbaseMaturity steps and refuses a minted output when it meets the    *)
(* block the output is in.                                                 *)
(***************************************************************************)
Immature(b, q) == q \in Chain[b] /\ Height[b] - Height[q] < CoinbaseMaturity

\* Altered: a previous output that the database says is spent is taken again.
InputConnects_SpentAgain(b, i, o, ix) ==
    /\ o \in OutPoint
    /\ ix.pos[o[1]] # NoBlock \/ o[1] \in {Vtx[b][j] : j \in 1 .. i - 1}

(***************************************************************************)
(* FetchInputs and ConnectInputs for input o of the i-th transaction of b: *)
(* the previous transaction is looked up among the queued changes of this  *)
(* block first and then in the database, the output must exist, be mature  *)
(* if it was minted, and not be spent, in the database or by an earlier    *)
(* transaction of the block.                                               *)
(***************************************************************************)
InputConnects(b, i, o, ix) ==
    LET queued == o[1] \in {Vtx[b][j] : j \in 1 .. i - 1}
    IN  /\ o \in OutPoint
        /\ queued \/ (ix.pos[o[1]] # NoBlock /\ ix.spent[o] = NoBlock)
        /\ \A j \in 1 .. i - 1 : o \notin Vin[Vtx[b][j]]
        /\ o[1] \in Minted => ~Immature(b, IF queued THEN b ELSE ix.pos[o[1]])

(***************************************************************************)
(* BIP30: a transaction must not overwrite one that has unspent outputs.   *)
(***************************************************************************)
NoOverwrite(t, ix) ==
    ix.pos[t] # NoBlock => \A n \in 0 .. VoutSize[t] - 1 : ix.spent[<<t, n>>] # NoBlock

\* ConnectBlock succeeds on index ix while the best block in memory is tip.
Connects(b, ix, tip) ==
    /\ <<b, tip>> \notin Rejects
    /\ \A i \in DOMAIN Vtx[b] :
          /\ NoOverwrite(Vtx[b][i], ix)
          /\ \A o \in Vin[Vtx[b][i]] : InputConnects(b, i, o, ix)

\* What ConnectBlock writes: mapQueuedChanges, one new record per transaction.
ConnectBlock(b, ix) ==
    [pos   |-> [t \in Tx |-> IF t \in Txs(b) THEN b ELSE ix.pos[t]],
     spent |-> [o \in OutPoint |-> IF o \in Spends(b) THEN b
                                   ELSE IF o[1] \in Txs(b) THEN NoBlock
                                   ELSE ix.spent[o]]]

(***************************************************************************)
(* DisconnectInputs, for the transactions of b from the last to the first: *)
(* the record of every previous transaction must be there, its entry is    *)
(* set to null, and then the transaction's own record is erased.           *)
(***************************************************************************)
Disconnects(b, ix) ==
    \A i \in DOMAIN Vtx[b] : \A o \in Vin[Vtx[b][i]] :
        /\ o \in OutPoint
        /\ ix.pos[o[1]] # NoBlock
        /\ \A j \in i + 1 .. Len(Vtx[b]) : Vtx[b][j] # o[1]

\* Altered: the vSpent entries of the inputs stay as they are.
DisconnectBlock_KeepsSpent(b, ix) ==
    [ix EXCEPT !.pos = [t \in Tx |-> IF t \in Txs(b) THEN NoBlock ELSE ix.pos[t]]]

DisconnectBlock(b, ix) ==
    [pos   |-> [t \in Tx |-> IF t \in Txs(b) THEN NoBlock ELSE ix.pos[t]],
     spent |-> [o \in OutPoint |-> IF o \in Spends(b) \/ o[1] \in Txs(b)
                                   THEN NoBlock ELSE ix.spent[o]]]

-----------------------------------------------------------------------------
(***************************************************************************)
(* The index a chain ought to have, said without replaying it: every       *)
(* transaction of the chain is recorded in its block and an output is      *)
(* spent by the block of the chain that spends it.                         *)
(***************************************************************************)
BlockOf(t, tip) ==
    IF \E b \in Chain[tip] : t \in Txs(b)
    THEN CHOOSE b \in Chain[tip] : t \in Txs(b) ELSE NoBlock

SpenderOf(o, tip) ==
    IF \E b \in Chain[tip] : o \in Spends(b)
    THEN CHOOSE b \in Chain[tip] : o \in Spends(b) ELSE NoBlock

IndexOf(tip) == [pos   |-> [t \in Tx |-> BlockOf(t, tip)],
                 spent |-> [o \in OutPoint |-> SpenderOf(o, tip)]]

\* The places <<block, i>> of the transactions of the chain that ends in tip.
Places(tip) == UNION {{b} \X DOMAIN Vtx[b] : b \in Chain[tip]}

TxAt(p) == Vtx[p[1]][p[2]]

\* p comes before q in the order the chain is connected.
Before(p, q) == \/ Height[p[1]] < Height[q[1]]
                \/ p[1] = q[1] /\ p[2] < q[2]

(***************************************************************************)
(* A sound chain: no transaction occurs twice in it, no output is spent    *)
(* twice, and what is spent was created earlier on the same chain.         *)
(***************************************************************************)
SoundChain(tip) ==
    /\ \A p, q \in Places(tip) :
          p # q => TxAt(p) # TxAt(q) /\ Vin[TxAt(p)] \cap Vin[TxAt(q)] = {}
    /\ \A p \in Places(tip) : \A o \in Vin[TxAt(p)] :
          o \in OutPoint /\ \E q \in Places(tip) : TxAt(q) = o[1] /\ Before(q, p)

=============================================================================
