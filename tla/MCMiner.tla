------------------------------- MODULE MCMiner -------------------------------
(***************************************************************************)
(* A small block tree and transactions for Miner.                          *)
(*                                                                         *)
(*   g -- p1 -+- a2 -- o3                                                  *)
(*            +- b2                                                        *)
(*            +- m2, k2                                                    *)
(*                                                                         *)
(* g has two outputs to spend: t1 (in a2) spends the first, t2 the second  *)
(* and one of t1, t3 (in b2, in no pool) both, and s1 is a coinstake for   *)
(* the second.  Peers send p1, a2 and b2, of which b2 has the most trust,  *)
(* and a checkpoint message for a2.  The node may find m2 with t1 and t2,  *)
(* o3 with s1, and k2 with s1, t1 and t2.                                  *)
(***************************************************************************)
EXTENDS Miner

MCParent == [b \in {"p1", "a2", "b2", "m2", "k2", "o3"} |->
                CASE b = "p1" -> "g" [] b = "o3" -> "a2" [] OTHER -> "p1"]
MCBlock == DOMAIN MCParent \cup {"g"}
MCPrev == [b \in Block |-> IF b = "g" THEN NoBlock ELSE MCParent[b]]
MCTrust == [b \in Block |-> IF b = "b2" THEN 2 ELSE 1]
MCHeight == [b \in Block |-> CASE b = "g" -> 0 [] b = "p1" -> 1 [] b = "o3" -> 3
                               [] OTHER -> 2]
MCChain[b \in Block] == IF b = "g" THEN {"g"} ELSE MCChain[MCParent[b]] \cup {b}
MCChainTrust[b \in Block] == IF b = "g" THEN 1 ELSE MCChainTrust[MCParent[b]] + MCTrust[b]

\* The coinbase of a block is named after it.
MCTx == Block \cup {"t1", "t2", "t3", "s1"}
MCCoinStake == {"s1"}
MCVtx == [b \in Block |-> CASE b = "a2" -> <<b, "t1">>
                            [] b = "b2" -> <<b, "t3">>
                            [] b = "m2" -> <<b, "t1", "t2">>
                            [] b = "o3" -> <<b, "s1">>
                            [] b = "k2" -> <<b, "s1", "t1", "t2">>
                            [] OTHER -> <<b>>]
MCVin == [t \in Tx |-> CASE t = "t1" -> {<<"g", 0>>}
                         [] t = "t2" -> {<<"t1", 0>>, <<"g", 1>>}
                         [] t = "t3" -> {<<"g", 0>>, <<"g", 1>>}
                         [] t = "s1" -> {<<"g", 1>>}
                         [] OTHER -> {}]
MCVoutSize == [t \in Tx |-> 2]
MCCoinbaseHeight == [t \in Block |-> Height[t]]
MCNonStandard == {"t3"}
MCNone == {}
MCMessages == [k \in 0 .. MaxRekeys |-> {"a2"}]
MCOwnBlock == {"m2", "k2", "o3"}
MCGenesisOnly == {"g"}
MCNextTarget == [b \in Block |-> IF b = "g" THEN 0 ELSE 1]

=============================================================================
