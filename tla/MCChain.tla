------------------------------- MODULE MCChain -------------------------------
(***************************************************************************)
(* A small block tree for ChainState.                                      *)
(*                                                                         *)
(*   g -- p1 -+- a2 -- a3                                                  *)
(*            +- b2 -+- b3 -- b4                                           *)
(*                   +- x3 -- x4 -- x5                                     *)
(*                                                                         *)
(* Branch a has heavy blocks, so branch b overtakes it two blocks later.   *)
(* x4 cannot be connected: t3 spends what t1 has spent in x3.  The same    *)
(* transaction t1 is in a3, b3 and x3; in b3 and x3 its output is spent    *)
(* within the block.  y3, child of a2, spends an immature coinbase.        *)
(***************************************************************************)
EXTENDS ChainState, TLC

MCParent == "p1" :> "g" @@ "a2" :> "p1" @@ "a3" :> "a2" @@ "b2" :> "p1" @@ "b3" :> "b2"
            @@ "b4" :> "b3" @@ "x3" :> "b2" @@ "x4" :> "x3" @@ "x5" :> "x4" @@ "y3" :> "a2"

MCBlock == DOMAIN MCParent \cup {"g"}

\* Smaller trees, without the blocks listed.  Without b4 the chain with the most
\* trust is not the longest one.
MCSmallBlock == MCBlock \ {"b4", "y3"}
MCHeavyBlock == MCBlock \ {"b4"}

MCPrev == [b \in Block |-> IF b = "g" THEN NoBlock ELSE MCParent[b]]

MCTrust == [b \in Block |-> IF b \in {"a2", "b4"} THEN 2 ELSE 1]

MCHeight == [b \in Block |-> CASE b = "g" -> 0 [] b = "p1" -> 1 [] b \in {"a2", "b2"} -> 2
                               [] b \in {"a3", "b3", "x3", "y3"} -> 3
                               [] b \in {"b4", "x4"} -> 4 [] b = "x5" -> 5]

MCChain[b \in Block] == IF b = "g" THEN {"g"} ELSE MCChain[MCParent[b]] \cup {b}

MCChainTrust[b \in Block] == IF b = "g" THEN 1 ELSE MCChainTrust[MCParent[b]] + MCTrust[b]

\* The coinbase of a block is named after it.
MCTx == Block \cup {"t1", "t2", "t3", "t4"}

MCVtx == [b \in Block |-> CASE b = "a3" -> <<b, "t1">>
                            [] b \in {"b3", "x3"} -> <<b, "t1", "t2">>
                            [] b = "x4" -> <<b, "t3">>
                            [] b = "y3" -> <<b, "t4">>
                            [] OTHER -> <<b>>]

MCVin == [t \in Tx |-> CASE t = "t1" -> {<<"p1", 0>>}
                         [] t = "t2" -> {<<"t1", 0>>}
                         [] t = "t3" -> {<<"p1", 0>>}
                         [] t = "t4" -> {<<"a2", 0>>}
                         [] OTHER -> {}]

MCCoinbase == Block
MCVoutSize == [t \in Tx |-> 1]
MCCoinbaseHeight == [t \in Block |-> Height[t]]
MCNoBlocks == {}
MCSyncCheckpoints == [k \in 0 .. MaxRekeys |-> IF k = 0 THEN {"b2", "a3", "x4"} ELSE {"b3", "x3"}]
MCNoMessages == [k \in 0 .. MaxRekeys |-> {}]
MCGenesisOnly == {"g"}
MCHardened == {"g", "b2"}

=============================================================================
