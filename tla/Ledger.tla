-------------------------------- MODULE Ledger --------------------------------
(***************************************************************************)
(* What the chain state promises to those who read it (the wallet, the     *)
(* memory pool, the RPC): a ledger that moves from one valid chain to      *)
(* another in single steps, whose spendable outputs are those its chain    *)
(* leaves unspent, and of which everything up to a checkpoint is final.    *)
(* There are no reorganizes here, no database transactions and no crashes: *)
(* module ChainLedger says that ChainState implements this one.            *)
(***************************************************************************)
EXTENDS ChainData

CONSTANT Ordered        \* the blocks the holder of the master key may order

VARIABLES
    tip,        \* the best block
    unspent,    \* the outputs that can be spent
    final,      \* the synchronized checkpoint
    intact      \* nothing has happened after which nothing is promised

ledger == <<tip, unspent, final, intact>>

Created(b) == UNION {{t} \X (0 .. VoutSize[t] - 1) : t \in Txs(b)}

CreatedOn(b) == UNION {Created(a) : a \in Chain[b]}
SpentOn(b)   == UNION {Spends(a) : a \in Chain[b]}
UnspentOn(b) == CreatedOn(b) \ SpentOn(b)

(***************************************************************************)
(* A block spends what its parent's chain leaves unspent or what it        *)
(* creates itself, and creates nothing that exists.                        *)
(***************************************************************************)
Balanced(b) ==
    /\ Spends(b) \subseteq UnspentOn(Prev[b]) \cup Created(b)
    /\ Created(b) \cap CreatedOn(Prev[b]) = {}

Valid(b) == \A a \in Chain[b] \ {Genesis} : Balanced(a)

LedgerInit ==
    /\ tip = Genesis
    /\ unspent = UnspentOn(Genesis)
    /\ final = Genesis
    /\ intact = TRUE

(***************************************************************************)
(* To a valid chain that keeps what is final, and that has more trust or   *)
(* leads to a block that was ordered.                                      *)
(***************************************************************************)
Move(b) ==
    /\ intact
    /\ Valid(b)
    /\ final \in Chain[b]
    /\ ChainTrust[b] > ChainTrust[tip] \/ \E c \in Ordered : b \in Chain[c]
    /\ tip' = b
    /\ unspent' = UnspentOn(b)
    /\ UNCHANGED <<final, intact>>

\* More of the chain becomes final.
Finalize(c) ==
    /\ intact
    /\ c \in Ordered
    /\ final \in Chain[c]
    /\ c \in Chain[tip]
    /\ final' = c
    /\ UNCHANGED <<tip, unspent, intact>>

\* The promise ends for good.
Forfeit == intact' = FALSE

LedgerNext == Forfeit \/ \E b \in Block : Move(b) \/ Finalize(b)

LedgerSpec == LedgerInit /\ [][LedgerNext]_ledger

=============================================================================
