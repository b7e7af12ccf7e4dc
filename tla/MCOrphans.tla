------------------------------ MODULE MCOrphans ------------------------------
(***************************************************************************)
(* A small block tree for OrphanBlocks.                                    *)
(*                                                                         *)
(*   g -- p1 -+- q2 -- w3                                                  *)
(*            +- r2 -- v3                                                  *)
(*            +- x2 -- x3                                                  *)
(*                                                                         *)
(* q2 and r2 are proof-of-stake blocks with the same proof, the coinbase   *)
(* of p1, w3 is one with another.  v3 has the most trust of the valid      *)
(* chains; x2 has more but spends an output that does not exist.           *)
(***************************************************************************)
EXTENDS OrphanBlocks, TLC

MCParent == "p1" :> "g" @@ "q2" :> "p1" @@ "w3" :> "q2" @@ "r2" :> "p1" @@ "v3" :> "r2"
            @@ "x2" :> "p1" @@ "x3" :> "x2"

MCBlock == {"g", "p1", "q2", "w3", "r2", "v3", "x2", "x3"}
MCTips == {"w3", "v3", "x3"}

MCPrev == [b \in Block |-> IF b = "g" THEN NoBlock ELSE MCParent[b]]
MCTrust == [b \in Block |-> CASE b = "x2" -> 4 [] b = "v3" -> 2 [] OTHER -> 1]
MCHeight == [b \in Block |-> CASE b = "g" -> 0 [] b = "p1" -> 1
                               [] MCParent[b] = "p1" -> 2 [] OTHER -> 3]
MCChain[b \in Block] == IF b = "g" THEN {"g"} ELSE MCChain[MCParent[b]] \cup {b}
MCChainTrust[b \in Block] == IF b = "g" THEN 1 ELSE MCChainTrust[MCParent[b]] + MCTrust[b]

\* The coinbase of a block is named after it; these blocks have a coinstake.
MCKernel == "q2" :> "sq" @@ "r2" :> "sr" @@ "w3" :> "sw"
MCCoinStake == {"sq", "sr", "sw"}
MCTx == Block \cup {"t"} \cup MCCoinStake
MCVtx == [b \in Block |-> CASE b \in DOMAIN MCKernel -> <<b, MCKernel[b]>>
                            [] b = "x2" -> <<b, "t">>
                            [] OTHER -> <<b>>]
MCVin == [t \in Tx |-> CASE t = "sw" -> {<<"p1", 1>>}
                         [] t \in MCCoinStake -> {<<"p1", 0>>}
                         [] t = "t" -> {<<"t", 0>>}
                         [] OTHER -> {}]
MCStake == [b \in Block |-> CASE b = "w3" -> <<<<"p1", 1>>, 1>>
                               [] b \in DOMAIN MCKernel \ {"w3"} -> <<<<"p1", 0>>, 1>>
                               [] OTHER -> NoStake]
MCVoutSize == [t \in Tx |-> 2]
MCCoinbaseHeight == [t \in Block |-> Height[t]]
MCNone == {}
MCEasy == {"x3"}
MCMessages == [k \in 0 .. MaxRekeys |-> {"r2"}]
MCGenesisOnly == {"g"}

=============================================================================
