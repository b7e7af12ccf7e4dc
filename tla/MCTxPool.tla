------------------------------- MODULE MCTxPool -------------------------------
(***************************************************************************)
(* A small block tree and seven transactions for TxPool.                   *)
(*                                                                         *)
(*   g -- p1 -+- a2 -- a3                                                  *)
(*            +- b2 -- b3 -- b4                                            *)
(*                                                                         *)
(* t1 is in a2 and in b2.  t2 (in a3) and t3 (in b3) both spend its first  *)
(* output.  t4 (in a3) spends one of t2, t5 one of t2 and one of t4, so    *)
(* t5 has two parents.  t6 spends the coinbase of a2, which only branch a  *)
(* has.  t7 spends the output of t2 that t5 spends.  Branch b overtakes    *)
(* branch a at b3.                                                         *)
(***************************************************************************)
EXTENDS TxPool, TLC

MCParent == "p1" :> "g" @@ "a2" :> "p1" @@ "a3" :> "a2" @@ "b2" :> "p1" @@ "b3" :> "b2"
            @@ "b4" :> "b3"
MCBlock == DOMAIN MCParent \cup {"g"}
MCPrev == [b \in Block |-> IF b = "g" THEN NoBlock ELSE MCParent[b]]
MCTrust == [b \in Block |-> IF b = "b3" THEN 2 ELSE 1]
MCHeight == [b \in Block |-> CASE b = "g" -> 0 [] b = "p1" -> 1 [] b \in {"a2", "b2"} -> 2
                               [] b = "b4" -> 4 [] OTHER -> 3]
MCChain[b \in Block] == IF b = "g" THEN {"g"} ELSE MCChain[MCParent[b]] \cup {b}
MCChainTrust[b \in Block] == IF b = "g" THEN 1 ELSE MCChainTrust[MCParent[b]] + MCTrust[b]

\* The coinbase of a block is named after it.
MCUser == {"t1", "t2", "t3", "t4", "t5", "t6", "t7"}
MCTx == Block \cup MCUser
MCVtx == [b \in Block |-> CASE b \in {"a2", "b2"} -> <<b, "t1">>
                            [] b = "a3" -> <<b, "t2", "t4">>
                            [] b = "b3" -> <<b, "t3">>
                            [] OTHER -> <<b>>]
MCVin == [t \in Tx |-> CASE t = "t1" -> {<<"p1", 0>>}
                         [] t \in {"t2", "t3"} -> {<<"t1", 0>>}
                         [] t = "t4" -> {<<"t2", 0>>}
                         [] t = "t5" -> {<<"t2", 1>>, <<"t4", 0>>}
                         [] t = "t7" -> {<<"t2", 1>>}
                         [] t = "t6" -> {<<"a2", 0>>}
                         [] OTHER -> {}]
MCVoutSize == [t \in Tx |-> 2]
MCCoinbaseHeight == [t \in Block |-> Height[t]]
MCNone == {}
MCNoMessages == [k \in 0 .. MaxRekeys |-> {}]
MCGenesisOnly == {"g"}
MCRateLimited == {"t4"}
MCLarge == {"t3"}

=============================================================================
