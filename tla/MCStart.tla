------------------------------- MODULE MCStart -------------------------------
(***************************************************************************)
(* A block tree for StartUp.                                               *)
(*                                                                         *)
(*   g -- p1 -+- a2                                                        *)
(*            +- b2 -- b3 -- b4                                            *)
(***************************************************************************)
EXTENDS StartUp, TLC

MCBlock == {"g", "p1", "a2", "b2", "b3", "b4"}
MCPrev == "g" :> NoBlock @@ "p1" :> "g" @@ "a2" :> "p1" @@ "b2" :> "p1" @@ "b3" :> "b2" @@ "b4" :> "b3"
MCHeight == "g" :> 0 @@ "p1" :> 1 @@ "a2" :> 2 @@ "b2" :> 2 @@ "b3" :> 3 @@ "b4" :> 4
MCChain == LET p1 == {"g", "p1"}  b3 == p1 \cup {"b2", "b3"}  IN
           "g" :> {"g"} @@ "p1" :> p1 @@ "a2" :> p1 \cup {"a2"} @@ "b2" :> p1 \cup {"b2"}
           @@ "b3" :> b3 @@ "b4" :> b3 \cup {"b4"}
MCChainTrust == [b \in Block |-> MCHeight[b] + 1]
MCVtx == [b \in Block |-> <<b>>]
MCNoInputs == [t \in Tx |-> {}]
MCOneOutput == [t \in Tx |-> 1]
MCNone == {}
MCNewBlock == Block \ {"g"}

=============================================================================
