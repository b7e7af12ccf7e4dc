------------------------------ MODULE ChainLedger ------------------------------
(***************************************************************************)
(* ChainState implements Ledger: the ledger is what the committed database *)
(* says, whatever is open, half done or lost in memory.                    *)
(***************************************************************************)
EXTENDS ChainState

\* Outputs with a record in the transaction index that nobody has spent.
Spendable == {o \in OutPoint : dbTx.pos[o[1]] # NoBlock /\ dbTx.spent[o] = NoBlock}

(***************************************************************************)
(* The master key of the first binary may order its checkpoint messages,   *)
(* and AcceptBlock waits for the last hardened checkpoint like for one.    *)
(***************************************************************************)
L == INSTANCE Ledger WITH
        tip     <- dbBest,
        unspent <- Spendable,
        final   <- hashSyncCheckpoint,
        intact  <- ~(desynced \/ rewound),
        Ordered <- SyncCheckpoints[0] \cup {LastHardened}

(***************************************************************************)
(* While the master key stays the same and checkpoints are enforced, every *)
(* behaviour of the node, with crashes and faults at any step, is one of   *)
(* the ledger: commits are its moves, a written checkpoint makes more of   *)
(* the chain final, all else stutters.  The promise ends with a postponed  *)
(* connect that fails or a start that moves the best chain back.           *)
(***************************************************************************)
ImplementsLedger == L!LedgerSpec

=============================================================================
