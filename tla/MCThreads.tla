------------------------------ MODULE MCThreads ------------------------------
(***************************************************************************)
(* Four parts that share no state, checked by one run: the download of     *)
(* blocks over a connection, the timers of walletpassphrase, the shutdown, *)
(* and the questions for a block by its height, put to the block tree of   *)
(* MCChain.  The first state chooses the part that moves; fairness is      *)
(* asked of that part alone.                                               *)
(*                                                                         *)
(* The chain of Download has six blocks and a branch the node may have     *)
(* started on:                                                             *)
(*                                                                         *)
(*   g -- p1 -+- p2 -- s3 -- p4 -- s5 -- p6                                *)
(*            +- q2                                                        *)
(*                                                                         *)
(* s3 and s5 are proof-of-stake blocks.                                    *)
(***************************************************************************)
EXTENDS MCChain, ChainRpc, Download, WalletLock, Shutdown

VARIABLE part

MCItem == {"g", "p1", "p2", "s3", "p4", "s5", "p6", "q2"}
MCParentOf == "p1" :> "g" @@ "p2" :> "p1" @@ "s3" :> "p2" @@ "p4" :> "s3" @@ "s5" :> "p4"
              @@ "p6" :> "s5" @@ "q2" :> "p1"
MCBranch == LET p1 == {"g", "p1"}  p4 == p1 \cup {"p2", "s3", "p4"}  IN
            "g" :> {"g"} @@ "p1" :> p1 @@ "p2" :> p1 \cup {"p2"} @@ "s3" :> p1 \cup {"p2", "s3"}
            @@ "p4" :> p4 @@ "s5" :> p4 \cup {"s5"} @@ "p6" :> p4 \cup {"s5", "p6"}
            @@ "q2" :> p1 \cup {"q2"}
MCHigh == "g" :> 0 @@ "p1" :> 1 @@ "p2" :> 2 @@ "s3" :> 3 @@ "p4" :> 4 @@ "s5" :> 5 @@ "p6" :> 6
          @@ "q2" :> 2
MCKernelOf == "s3" :> "g" @@ "s5" :> "p2"
MCTime == [b \in MCItem |-> CASE b = "g" -> 0 [] b = "p1" -> 1 [] b \in {"p2", "q2"} -> 2
                              [] b = "s3" -> 3 [] b = "p4" -> 4 [] b = "s5" -> 5
                              [] OTHER -> 6]

MCStarts == {<<"g", "p1">>, <<"g", "p4">>, <<"p1", "s5">>, <<"q2", "p4">>, <<"q2", "s5">>,
             <<"p2", "q2">>}

\* The part that does not move stays in one initial state.
ThreadsInit ==
    /\ part \in {"download", "lock", "shutdown", "heights"}
    /\ DownloadInit /\ (part # "download" => bestItem = "q2" /\ tip = "p4")
    /\ WalletLockInit
    /\ ChainRpcInit
    /\ ShutdownInit /\ (part # "shutdown" => minter = "work")

ThreadsNext ==
    /\ UNCHANGED part
    /\ \/ part = "download" /\ DownloadNext /\ UNCHANGED <<lockVars, stopVars, rpcVars>>
       \/ part = "lock" /\ WalletLockNext /\ UNCHANGED <<downloadVars, stopVars, rpcVars>>
       \/ part = "shutdown" /\ ShutdownNext /\ UNCHANGED <<downloadVars, lockVars, rpcVars>>
       \/ part = "heights" /\ ChainRpcNext /\ UNCHANGED <<downloadVars, lockVars, stopVars>>

\* DownloadFairness, TimersRun and ThreadsRun of the part that moves.
Fairness ==
    /\ []<>(part # "download" \/ ~NodeHasWork) \/ []<><<NodeStep>>_downloadVars
    /\ []<>(part # "download" \/ ~PeerHasWork) \/ []<><<PeerStep>>_downloadVars
    /\ \A t \in Timer : WF_lockVars(part = "lock" /\ TimerStarts(t))
                        /\ WF_lockVars(part = "lock" /\ TimerWakes(t))
    /\ WF_lockVars(part = "lock" /\ Tick)
    /\ WF_lockVars(part = "lock" /\ TopUpBegins) /\ WF_lockVars(part = "lock" /\ TopUpAdds)
    /\ WF_stopVars(part = "shutdown" /\ ShutdownStep)
    /\ SF_stopVars(part = "shutdown" /\ HandlerSleeps)
    /\ \A u \in User : WF_stopVars(part = "shutdown" /\ CloseCDB(u))
    /\ \A c \in Client : SF_stopVars(part = "shutdown" /\ RpcReplies(c))

ThreadsSpec ==
    ThreadsInit /\ [][ThreadsNext]_<<part, downloadVars, lockVars, stopVars, rpcVars>> /\ Fairness

\* What was begun comes to its end: the wallet that walletpassphrase unlocked is locked
\* again, and the shutdown ends the process.
ThreadsEnd == Relocks /\ ShutdownEnds

=============================================================================
