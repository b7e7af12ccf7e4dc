------------------------------- MODULE MCWallet -------------------------------
(***************************************************************************)
(* A small block tree for Wallet.                                          *)
(*                                                                         *)
(*   g -- p1 -+- a2 -- a3                                                  *)
(*            +- b2 -- b3                                                  *)
(*                                                                         *)
(* t1 is in a2 and in b2 and pays two coins to the wallet.  The wallet     *)
(* mints a3 with its first coin (coinstake s).  t2 sends the second coin   *)
(* and is in b3.  t3 spends both: it is the wallet's own or, sent          *)
(* by a copy of the wallet, comes from a peer.  Branch b overtakes branch  *)
(* a with its third block; a write may fail in the middle of that.         *)
(***************************************************************************)
EXTENDS Wallet, TLC

MCParent == "p1" :> "g" @@ "a2" :> "p1" @@ "a3" :> "a2" @@ "b2" :> "p1" @@ "b3" :> "b2"
MCBlock == DOMAIN MCParent \cup {"g"}
MCPrev == [b \in Block |-> IF b = "g" THEN NoBlock ELSE MCParent[b]]
MCTrust == [b \in Block |-> IF b = "b3" THEN 2 ELSE 1]
MCHeight == [b \in Block |-> CASE b = "g" -> 0 [] b = "p1" -> 1 [] b \in {"a2", "b2"} -> 2
                               [] OTHER -> 3]
MCChain[b \in Block] == IF b = "g" THEN {"g"} ELSE MCChain[MCParent[b]] \cup {b}
MCChainTrust[b \in Block] == IF b = "g" THEN 1 ELSE MCChainTrust[MCParent[b]] + MCTrust[b]

\* The coinbase of a block is named after it.
MCTx == Block \cup {"t1", "t2", "t3", "s"}
MCCoinStake == {"s"}
MCVtx == [b \in Block |-> CASE b \in {"a2", "b2"} -> <<b, "t1">>
                            [] b = "a3" -> <<b, "s">>
                            [] b = "b3" -> <<b, "t2">>
                            [] OTHER -> <<b>>]
MCVin == [t \in Tx |-> CASE t = "t1" -> {<<"p1", 0>>}
                         [] t = "s" -> {<<"t1", 0>>}
                         [] t = "t2" -> {<<"t1", 1>>}
                         [] t = "t3" -> {<<"t1", 0>>, <<"t1", 1>>}
                         [] OTHER -> {}]
MCVoutSize == [t \in Tx |-> IF t \in {"t1", "s"} THEN 2 ELSE 1]
MCMine == {<<"t1", 0>>, <<"t1", 1>>, <<"s", 1>>}
MCCoinbaseHeight == [t \in Block |-> Height[t]]
MCNone == {}
MCNoMessages == [k \in 0 .. MaxRekeys |-> {}]
MCGenesisOnly == {"g"}

=============================================================================
