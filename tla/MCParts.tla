------------------------------- MODULE MCParts -------------------------------
(***************************************************************************)
(* Four parts that share no state, checked by one run: the address         *)
(* manager, the connections, the key pool and the start-up.  The first     *)
(* state chooses the part that moves.  In the tables of AddrMan every      *)
(* address can be in both new buckets; "d" has a tried bucket to itself.   *)
(* The openers of Peers do the same and its addresses are alike.           *)
(***************************************************************************)
EXTENDS AddrMan, Peers, KeyPool, MCStart

VARIABLE part

MCNewBucket == [a \in NetAddr |-> [s \in Source |-> IF (s = "s1") = (a \in {"a", "b", "d"}) THEN 1 ELSE 2]]
MCTriedBucket == [a \in NetAddr |-> [p \in Port |-> IF a = "d" THEN 2 ELSE 1]]
MCSymmetry == Permutations(Opener) \cup Permutations(Addr)

PartsInit ==
    /\ part \in {"addresses", "connections", "keys", "start"}
    /\ AddrManInit /\ PeersInit /\ KeyPoolInit
    /\ StartInit /\ (part # "start" => disk = NoDisk)

PartsNext ==
    /\ UNCHANGED part
    /\ \/ part = "addresses" /\ AddrManNext /\ UNCHANGED <<peersVars, keyVars, startVars>>
       \/ part = "connections" /\ PeersNext /\ UNCHANGED <<addrVars, keyVars, startVars>>
       \/ part = "keys" /\ KeyPoolNext /\ UNCHANGED <<addrVars, peersVars, startVars>>
       \/ part = "start" /\ StartNext /\ UNCHANGED <<addrVars, peersVars, keyVars>>

PartsSpec == PartsInit /\ [][PartsNext]_<<part, addrVars, peersVars, keyVars, startVars>>

=============================================================================
