----------------------------- MODULE ChainRpc -----------------------------
(***************************************************************************)
(* The RPC command getblockhash (rpcblockchain.cpp), which finds a block   *)
(* of the best chain by its height, and FindBlockByHeight (main.cpp) with  *)
(* the block it remembers from one call to the next.  The command runs     *)
(* under cs_main, between two operations of ChainState.                    *)
(***************************************************************************)
EXTENDS ChainState

VARIABLES
    pblockindexFBBHLast     \* the static of FindBlockByHeight

rpcVars == <<vars, pblockindexFBBHLast>>

Distance(b, h) == IF Height[b] > h THEN Height[b] - h ELSE h - Height[b]

(***************************************************************************)
(* Where FindBlockByHeight starts: at the nearer end of the best chain, or *)
(* at the remembered block when that is nearer still.                      *)
(***************************************************************************)
StartOfSearch(h) ==
    LET e == IF h < Height[pindexBest] \div 2 THEN Genesis ELSE pindexBest
    IN  IF /\ pblockindexFBBHLast # NoBlock
           /\ Distance(e, h) > Distance(pblockindexFBBHLast, h)
        THEN pblockindexFBBHLast ELSE e

\* Where the walk from b along pprev, or along pnext, ends; nowhere when it meets NULL.
Found(b, h) ==
    {c \in mapBlockIndex :
        /\ Height[c] = h
        /\ c \in Chain[b] \/ (b \in Chain[c] /\ \A d \in Chain[c] \ Chain[b] : pnext[Prev[d]] = d)}

FindBlockByHeight(h) == Found(StartOfSearch(h), h)

\* getblockhash.
GetBlockHash(h) ==
    /\ pc = "idle"
    /\ h <= Height[pindexBest]
    /\ pblockindexFBBHLast' \in FindBlockByHeight(h)
    /\ UNCHANGED vars

\* Altered: the remembered block outlives a change of the best chain.
Forgotten_AtStart == IF pc = "down" THEN NoBlock ELSE pblockindexFBBHLast

\* SetBestChain forgets the remembered block when it sets the new best one.
Forgotten == IF pc = "down" \/ pindexBest' # pindexBest THEN NoBlock ELSE pblockindexFBBHLast

ChainOperation == Next /\ pblockindexFBBHLast' = Forgotten

ChainRpcInit == Init /\ pblockindexFBBHLast = NoBlock

ChainRpcNext == ChainOperation \/ \E h \in 0 .. Cardinality(Block) : GetBlockHash(h)

ChainRpcSpec == ChainRpcInit /\ [][ChainRpcNext]_rpcVars

-----------------------------------------------------------------------------
(***************************************************************************)
(* What the help of getblockhash says, "Returns hash of block in           *)
(* best-block-chain at <index>.": for every height the block it comes to   *)
(* is one of the best chain, and the walk meets no NULL, though it may     *)
(* start at a block an earlier call came to, before any number of          *)
(* reorganizes, rewinds and restarts.                                      *)
(***************************************************************************)
AnswersFromBestChain ==
    pc = "idle" => \A h \in 0 .. Height[pindexBest] :
                       \E b \in Chain[pindexBest] : FindBlockByHeight(h) = {b}

=============================================================================
