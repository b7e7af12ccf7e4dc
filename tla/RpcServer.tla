----------------------------- MODULE RpcServer ------------------------------
(***************************************************************************)
(* JSON-RPC: the connections of the server (bitcoinrpc.cpp), and the       *)
(* methods that hand out work to miners (rpcmining.cpp).                   *)
(***************************************************************************)
EXTENDS Integers, Sequences, SequencesExt, FiniteSets

-----------------------------------------------------------------------------
(***************************************************************************)
(* The JSON-RPC server as its clients see it: the listener accepts a       *)
(* connection and hands it to a thread of its own, which answers the       *)
(* requests of the connection one after another until one of them, the     *)
(* client or the end of the process closes it.  A client may send its next *)
(* request before it has the answer to the last.                           *)
(***************************************************************************)
CONSTANTS
    Caller,        \* connections
    AllowedCallers,\* the callers ClientAllowed lets in
    Requests,      \* [auth, connection, proto, calls]: what a client may send
    WarningFor,    \* the methods that the safe mode forbids
    MaxSent        \* bound on the requests of a connection

ASSUME RpcAssumption ==
    /\ AllowedCallers \subseteq Caller
    /\ Requests \subseteq [auth : STRING, connection : STRING, proto : Nat, calls : Seq(STRING)]

VARIABLES
    fStopping,     \* fShutdown
    acceptor,      \* async_accept is outstanding: "waiting", "none", or "closed"
    conns,         \* [Caller -> "none", "backlog", "serving", "deleted"]
    nDeleted,      \* [Caller -> deletes of the AcceptedConnection]
    nRpcHandler,   \* vnThreadsRunning[THREAD_RPCHANDLER]
    fRun,          \* [Caller -> the connection goes on after this answer]
    sentReqs,      \* [Caller -> requests sent (history)]
    nServed,       \* [Caller -> requests taken from the stream]
    rpcReplies,    \* [Caller -> answers [status, keepalive, results]]
    executed,      \* [Caller -> [request, calls] that ran (history)]
    hungUp         \* callers that have closed their side

rpcVars == <<fStopping, acceptor, conns, nDeleted, nRpcHandler, fRun, sentReqs, nServed, rpcReplies,
             executed, hungUp>>

RpcInit ==
    /\ fStopping = FALSE /\ acceptor = "waiting"
    /\ conns = [c \in Caller |-> "none"] /\ nDeleted = [c \in Caller |-> 0] /\ nRpcHandler = 0
    /\ fRun = [c \in Caller |-> TRUE]
    /\ sentReqs = [c \in Caller |-> <<>>] /\ nServed = [c \in Caller |-> 0]
    /\ rpcReplies = [c \in Caller |-> <<>>] /\ executed = [c \in Caller |-> <<>>]
    /\ hungUp = {}

-----------------------------------------------------------------------------
(* The clients. *)

CallerConnects(c) ==
    /\ conns[c] = "none" /\ acceptor # "closed"
    /\ conns' = [conns EXCEPT ![c] = "backlog"]
    /\ UNCHANGED <<fStopping, acceptor, nDeleted, nRpcHandler, fRun, sentReqs, nServed, rpcReplies, executed, hungUp>>

\* What a caller from elsewhere sends is never read.
SendRequest(c, r) ==
    /\ c \in AllowedCallers /\ conns[c] \in {"backlog", "serving"} /\ c \notin hungUp /\ Len(sentReqs[c]) < MaxSent
    /\ sentReqs' = [sentReqs EXCEPT ![c] = Append(@, r)]
    /\ UNCHANGED <<fStopping, acceptor, conns, nDeleted, nRpcHandler, fRun, nServed, rpcReplies, executed, hungUp>>

HangUp(c) ==
    /\ c \in AllowedCallers /\ conns[c] \in {"backlog", "serving"} /\ c \notin hungUp
    /\ hungUp' = hungUp \cup {c}
    /\ UNCHANGED <<fStopping, acceptor, conns, nDeleted, nRpcHandler, fRun, sentReqs, nServed, rpcReplies, executed>>

-----------------------------------------------------------------------------
(* The listener. *)

Delete(c) ==
    /\ conns' = [conns EXCEPT ![c] = "deleted"]
    /\ nDeleted' = [nDeleted EXCEPT ![c] = @ + 1]

Refusal == [status |-> 403, keepalive |-> FALSE, results |-> <<>>]

\* RPCAcceptHandler: it listens again first; then an error, a caller from elsewhere and a
\* thread that cannot be created each end the connection.  The thread counts itself.
RelistensAfter_Success(failed) == ~failed
RelistensAfter(failed) == TRUE

RPCAcceptHandler(c, failed) ==
    /\ acceptor = "waiting" /\ conns[c] = "backlog"
    /\ acceptor' = IF RelistensAfter(failed) THEN "waiting" ELSE "none"
    /\ \/ /\ failed
          /\ Delete(c) /\ UNCHANGED <<nRpcHandler, rpcReplies>>
       \/ /\ ~failed /\ c \notin AllowedCallers
          /\ rpcReplies' = [rpcReplies EXCEPT ![c] = <<Refusal>>]
          /\ Delete(c) /\ UNCHANGED nRpcHandler
       \/ /\ ~failed /\ c \in AllowedCallers
          /\ conns' = [conns EXCEPT ![c] = "serving"]
          /\ nRpcHandler' = nRpcHandler + 1
          /\ UNCHANGED <<nDeleted, rpcReplies>>
    /\ UNCHANGED <<fStopping, fRun, sentReqs, nServed, executed, hungUp>>

\* The "stop" command or the user; run_one returns once more, and StopRequests closes the acceptor.
StartStopping ==
    /\ ~fStopping /\ fStopping' = TRUE
    /\ UNCHANGED <<acceptor, conns, nDeleted, nRpcHandler, fRun, sentReqs, nServed, rpcReplies, executed, hungUp>>

StopListening ==
    /\ fStopping /\ acceptor # "closed" /\ acceptor' = "closed"
    /\ UNCHANGED <<fStopping, conns, nDeleted, nRpcHandler, fRun, sentReqs, nServed, rpcReplies, executed, hungUp>>

-----------------------------------------------------------------------------
(* ThreadRPCServer3. *)

\* ReadHTTP: without the header the protocol's version decides.
KeepsAlive(r) == IF r.connection = "none" THEN r.proto >= 1 ELSE r.connection = "keep-alive"

\* HTTPAuthorized.
Authorized(r) == r.auth = "right"

\* CRPCTable::execute with the safe mode, and the status ErrorReply gives the error.
Runs(method) == method \notin WarningFor \cup {"unknown", "malformed"}
StatusOf(method) ==
    CASE method = "unknown" -> 404 [] method = "malformed" -> 400 [] OTHER -> 500

Executed(r) == SelectSeq(r.calls, Runs)

\* The answer: of one call its result or an HTTP error, of a batch (of two calls or more) the
\* results of them all.
AnswerTo(r) ==
    IF r.calls = <<>> THEN [status |-> 500, keepalive |-> FALSE, results |-> <<>>]
    ELSE IF Len(r.calls) = 1 /\ (~Runs(r.calls[1]) \/ r.calls[1] = "fails")
    THEN [status |-> StatusOf(r.calls[1]), keepalive |-> FALSE, results |-> <<r.calls[1]>>]
    ELSE [status |-> 200, keepalive |-> KeepsAlive(r), results |-> r.calls]

Unauthorized == [status |-> 401, keepalive |-> FALSE, results |-> <<>>]

LeaveHandler(c) == Delete(c) /\ nRpcHandler' = nRpcHandler - 1

\* The loop's head.
LeavesAtHead(c) ==
    /\ conns[c] = "serving" /\ (fStopping \/ ~fRun[c])
    /\ LeaveHandler(c)
    /\ UNCHANGED <<fStopping, acceptor, fRun, sentReqs, nServed, rpcReplies, executed, hungUp>>

\* The stream has ended: an empty request, that is one without authorization.
ServeNothing(c) ==
    /\ conns[c] = "serving" /\ fRun[c] /\ c \in hungUp /\ nServed[c] = Len(sentReqs[c])
    /\ LeaveHandler(c)
    /\ UNCHANGED <<fStopping, acceptor, fRun, sentReqs, nServed, rpcReplies, executed, hungUp>>

\* One request; the thread may have looked at fShutdown before it was set.  After an answer
\* that is no success it leaves the loop.
GoesOnAfter_Always(a) == TRUE
GoesOnAfter(a) == a.status = 200

Serve(c) ==
    /\ conns[c] = "serving" /\ fRun[c] /\ nServed[c] < Len(sentReqs[c])
    /\ LET r == sentReqs[c][nServed[c] + 1]
           a == IF Authorized(r) THEN AnswerTo(r) ELSE Unauthorized
       IN
       /\ nServed' = [nServed EXCEPT ![c] = @ + 1]
       /\ rpcReplies' = [rpcReplies EXCEPT ![c] = Append(@, a)]
       /\ executed' = IF ~Authorized(r) THEN executed
                      ELSE [executed EXCEPT ![c] = Append(@, [request |-> nServed[c] + 1,
                                                              calls |-> Executed(r)])]
       /\ IF GoesOnAfter(a)
          THEN /\ fRun' = [fRun EXCEPT ![c] = KeepsAlive(r)]
               /\ UNCHANGED <<conns, nDeleted, nRpcHandler>>
          ELSE /\ LeaveHandler(c) /\ UNCHANGED fRun
    /\ UNCHANGED <<fStopping, acceptor, sentReqs, hungUp>>

RpcNext ==
    \/ \E c \in Caller :
        \/ CallerConnects(c) \/ HangUp(c) \/ LeavesAtHead(c) \/ ServeNothing(c) \/ Serve(c)
        \/ \E r \in Requests : SendRequest(c, r)
        \/ \E failed \in BOOLEAN : RPCAcceptHandler(c, failed)
    \/ StartStopping \/ StopListening

RpcSpec == RpcInit /\ [][RpcNext]_rpcVars

-----------------------------------------------------------------------------
\* An answer that promises to keep the connection is kept to: the server closes it on its own
\* only after an answer that says so, unless the client hung up or the node stops, and after
\* such an answer no request that is already in the stream runs (bitcoinrpc.cpp:985-1008).
KeepAliveIsKept ==
    \A c \in Caller :
        /\ conns[c] = "deleted" /\ rpcReplies[c] # <<>> /\ ~fStopping /\ c \notin hungUp
            => ~Last(rpcReplies[c]).keepalive
        /\ \A i \in 1 .. Len(rpcReplies[c]) - 1 : rpcReplies[c][i].keepalive

\* The answers are to the requests in their order, one to each that was taken; only what an
\* authorized request called ran, each call once.
AnswersMatch ==
    \A c \in AllowedCallers :
        /\ Len(rpcReplies[c]) = nServed[c]
        /\ \A i \in DOMAIN rpcReplies[c] : rpcReplies[c][i].status = 200 =>
             Authorized(sentReqs[c][i]) /\ rpcReplies[c][i].results = sentReqs[c][i].calls
        /\ \A i, j \in DOMAIN executed[c] : i < j => executed[c][i].request < executed[c][j].request
        /\ \A i \in DOMAIN executed[c] : LET r == executed[c][i].request IN
             /\ r \in DOMAIN rpcReplies[c] /\ Authorized(sentReqs[c][r])
             /\ executed[c][i].calls = Executed(sentReqs[c][r])

\* Each connection is deleted once, and the count StopNode waits for is that of the threads.
ConnectionsAreFreed ==
    /\ \A c \in Caller : nDeleted[c] = IF conns[c] = "deleted" THEN 1 ELSE 0
    /\ nRpcHandler = Cardinality({c \in Caller : conns[c] = "serving"})

\* The server keeps listening, whatever happens to a connection.
StillListening == ~fStopping => acceptor = "waiting"

RpcServerIsRight == KeepAliveIsKept /\ AnswersMatch /\ ConnectionsAreFreed /\ StillListening

-----------------------------------------------------------------------------
(***************************************************************************)
(* rpcmining.cpp: the blocks a node hands to outside miners.  "getworkex"  *)
(* keeps its blocks, and the coinbase script each Merkle root belongs to,  *)
(* in statics over its calls; "getblocktemplate" keeps one block;          *)
(* "submitblock" takes a whole block.  A call holds cs_main (bitcoinrpc    *)
(* .cpp:249-254), between calls other threads move the chain and the pool. *)
(***************************************************************************)
CONSTANTS
    Pool,        \* [nTransactionsUpdated -> what CreateNewBlock takes from the pool then]
    Inputs,      \* [transaction -> the transactions it spends outputs of]
    Coinbases,   \* the coinbases that miners send, "ours" pays to a key of the wallet
    MaxTips,     \* bound on the best blocks
    MaxTime,     \* bound on the clock, in steps longer than both waits
    MaxWork      \* bound on the jobs given out

\* A transaction does not spend from itself; "own" is the coinbase that CreateNewBlock makes, "none"
\* stands for a call without one.
ASSUME WorkAssumption ==
    /\ 0 \in DOMAIN Pool /\ DOMAIN Pool \subseteq Nat
    /\ \A n \in DOMAIN Pool : Pool[n] \in Seq(DOMAIN Inputs)
    /\ \A tx \in DOMAIN Inputs : tx \notin Inputs[tx]
    /\ {"own", "none"} \cap Coinbases = {}

VARIABLES
    pindexBest, nTransactionsUpdated, workTime,
    ex,          \* getworkex's statics [pindexPrev, nTransactionsUpdatedLast, nStart, pblock]
    vNewBlock,   \* its blocks; pblock is an index
    mapNewBlock, \* [Merkle root -> <<index, scriptSig>>]
    nExtraNonce, \* its static
    hashPrevBlock,  \* IncrementExtraNonce's static, which the miner threads share
    gbt,         \* getblocktemplate's statics, pblock a sequence of at most one block
    jobs,        \* the jobs the miners have
    method,      \* the one of the two calls that is made: they share nothing
    reply,       \* the last answer
    fault        \* a deleted or null block has been used

exVars == <<ex, vNewBlock, mapNewBlock, nExtraNonce>>
workVars == <<pindexBest, nTransactionsUpdated, workTime, exVars, hashPrevBlock, gbt, jobs, method, reply, fault>>

Deleted == -1
Null == 0
NoReply == [to |-> "nobody"]

\* A block without its header; the coinbase stands for its outputs.
NewBlock == [hashPrevBlock |-> pindexBest, coinbase |-> "own", scriptSig |-> <<>>, vtx |-> Pool[nTransactionsUpdated]]
MerkleRoot(block) == <<block.coinbase, block.scriptSig, block.vtx>>

Renews(statics) ==
    \/ statics.pindexPrev # pindexBest
    \/ nTransactionsUpdated # statics.nTransactionsUpdatedLast /\ workTime > statics.nStart

Renewed(statics, prev, pblock) ==
    [pindexPrev |-> prev, nTransactionsUpdatedLast |-> nTransactionsUpdated, nStart |-> workTime, pblock |-> pblock]

-----------------------------------------------------------------------------
(***************************************************************************)
(* getworkex without a parameter.  CreateNewBlock throws when the wallet   *)
(* cannot write a key; the statics are assigned before it is called.       *)
(***************************************************************************)
NextExtraNonce(prev) == IF hashPrevBlock # prev THEN 1 ELSE nExtraNonce + 1

HandOut(statics, blocks, known) ==
    LET block == [blocks[statics.pblock] EXCEPT !.scriptSig =
                    <<statics.pindexPrev + 1, NextExtraNonce(blocks[statics.pblock].hashPrevBlock)>>]
        root == MerkleRoot(block)
    IN  /\ ex' = statics
        /\ vNewBlock' = [blocks EXCEPT ![statics.pblock] = block]
        /\ mapNewBlock' = [r \in DOMAIN known \cup {root} |->
                            IF r = root THEN <<statics.pblock, block.scriptSig>> ELSE known[r]]
        /\ nExtraNonce' = block.scriptSig[2] /\ hashPrevBlock' = block.hashPrevBlock
        /\ jobs' = jobs \cup {[root |-> root, prev |-> block.hashPrevBlock]}
        /\ UNCHANGED fault

GetWorkEx(created) ==
    LET clears == ex.pindexPrev # pindexBest
        kept == IF clears THEN <<>> ELSE vNewBlock
        known == IF clears THEN [r \in {} |-> <<>>] ELSE mapNewBlock
    IN  /\ nExtraNonce < MaxWork
        /\ IF Renews(ex) /\ created
           THEN HandOut(Renewed(ex, pindexBest, Len(kept) + 1), Append(kept, NewBlock), known)
           ELSE IF Renews(ex)
           THEN /\ ex' = Renewed(ex, pindexBest, IF clears /\ ex.pblock # Null THEN Deleted ELSE ex.pblock)
                /\ vNewBlock' = kept /\ mapNewBlock' = known
                /\ UNCHANGED <<nExtraNonce, hashPrevBlock, jobs, fault>>
           ELSE IF ex.pblock \in {Deleted, Null}
           THEN fault' = TRUE /\ UNCHANGED <<exVars, hashPrevBlock, jobs>>
           ELSE HandOut(ex, vNewBlock, mapNewBlock)
        /\ reply' = NoReply
        /\ UNCHANGED <<pindexBest, nTransactionsUpdated, workTime, gbt>>

\* The block a returned header stands for, with the coinbase that came with it.
Rebuilt_AsIs(root, coinbase) ==
    LET block == vNewBlock[mapNewBlock[root][1]] IN
    IF coinbase = "none" THEN block ELSE [block EXCEPT !.coinbase = coinbase, !.scriptSig = <<>>]
Rebuilt(root, coinbase) ==
    LET block == vNewBlock[mapNewBlock[root][1]] IN
    IF coinbase = "none" THEN [block EXCEPT !.scriptSig = mapNewBlock[root][2]]
    ELSE [block EXCEPT !.coinbase = coinbase, !.scriptSig = <<>>]

\* SignBlock looks for the key of an output of the coinbase.
CanSign(coinbase) == coinbase \in {"own", "ours"}

(***************************************************************************)
(* getworkex with a header, and perhaps a coinbase.  A solution is one of  *)
(* the root the miner hashed; a share is none.  CheckWork refuses a block  *)
(* that is none or whose parent is not the best block.                     *)
(***************************************************************************)
SubmitWorkEx(job, coinbase, solution) ==
    /\ IF job.root \in DOMAIN mapNewBlock
       THEN LET block == Rebuilt(job.root, coinbase)
                hashed == IF coinbase = "none" THEN job.root ELSE <<coinbase, <<>>, job.root[3]>>
                accepted == /\ CanSign(block.coinbase)
                            /\ solution /\ MerkleRoot(block) = hashed
                            /\ block.hashPrevBlock = pindexBest
            IN  /\ vNewBlock' = [vNewBlock EXCEPT ![mapNewBlock[job.root][1]] = block]
                /\ pindexBest' = IF accepted THEN pindexBest + 1 ELSE pindexBest
       ELSE UNCHANGED <<vNewBlock, pindexBest>>
    /\ reply' = NoReply
    /\ UNCHANGED <<nTransactionsUpdated, workTime, ex, mapNewBlock, nExtraNonce, hashPrevBlock, gbt, jobs, fault>>

-----------------------------------------------------------------------------
(***************************************************************************)
(* getblocktemplate: setTxIndex numbers every transaction of the block,    *)
(* the coinbase first, and the answer leaves the coinbase out.             *)
(***************************************************************************)
DependsOf_Listed(vtx, i) == {j - 1 : j \in {j \in 1 .. i : vtx[j] \in Inputs[vtx[i]]}}
DependsOf(vtx, i) == {j \in 1 .. i : vtx[j] \in Inputs[vtx[i]]}

TemplateReply(statics) ==
    LET block == statics.pblock[1] IN
    [to |-> "getblocktemplate", previousblockhash |-> block.hashPrevBlock, height |-> statics.pindexPrev + 1,
     transactions |-> block.vtx, depends |-> [i \in DOMAIN block.vtx |-> DependsOf(block.vtx, i)],
     best |-> pindexBest]

\* What stays when CreateNewBlock throws.
FailedTemplate_KeepsPrev == Renewed(gbt, pindexBest, <<>>)
FailedTemplate == Renewed(gbt, Null, <<>>)

GetBlockTemplate(created) ==
    /\ gbt' = IF ~Renews(gbt) THEN gbt
              ELSE IF created THEN Renewed(gbt, pindexBest, <<NewBlock>>) ELSE FailedTemplate
    /\ IF Renews(gbt) /\ ~created THEN reply' = NoReply /\ UNCHANGED fault
       ELSE IF gbt'.pblock = <<>> THEN fault' = TRUE /\ UNCHANGED reply
       ELSE reply' = TemplateReply(gbt') /\ UNCHANGED fault
    /\ UNCHANGED <<pindexBest, nTransactionsUpdated, workTime, exVars, hashPrevBlock, jobs>>

\* submitblock: a miner's block on the best one, made from a template.
SubmitBlock(coinbase) ==
    /\ reply.to = "getblocktemplate" /\ pindexBest < MaxTips
    /\ pindexBest' = IF CanSign(coinbase) /\ reply.previousblockhash = pindexBest THEN pindexBest + 1 ELSE pindexBest
    /\ reply' = NoReply
    /\ UNCHANGED <<nTransactionsUpdated, workTime, exVars, hashPrevBlock, gbt, jobs, fault>>

-----------------------------------------------------------------------------
NewBest ==
    /\ pindexBest' = pindexBest + 1
    /\ UNCHANGED <<nTransactionsUpdated, workTime, exVars, hashPrevBlock, gbt, jobs, reply, fault>>

NewTransaction ==
    /\ nTransactionsUpdated + 1 \in DOMAIN Pool /\ nTransactionsUpdated' = nTransactionsUpdated + 1
    /\ UNCHANGED <<pindexBest, workTime, exVars, hashPrevBlock, gbt, jobs, reply, fault>>

Waiting ==
    /\ workTime < MaxTime /\ workTime' = workTime + 1
    /\ UNCHANGED <<pindexBest, nTransactionsUpdated, exVars, hashPrevBlock, gbt, jobs, reply, fault>>

\* IncrementExtraNonce in a miner thread, whose block may be on the last best block.
MinerIncrements(prev) ==
    /\ hashPrevBlock' = prev
    /\ UNCHANGED <<pindexBest, nTransactionsUpdated, workTime, exVars, gbt, jobs, reply, fault>>

WorkInit ==
    /\ pindexBest = 1 /\ nTransactionsUpdated = 0 /\ workTime = 1
    /\ ex = [pindexPrev |-> Null, nTransactionsUpdatedLast |-> 0, nStart |-> 0, pblock |-> Null]
    /\ vNewBlock = <<>> /\ mapNewBlock = [r \in {} |-> <<>>] /\ nExtraNonce = 0 /\ hashPrevBlock = Null
    /\ gbt = [pindexPrev |-> Null, nTransactionsUpdatedLast |-> 0, nStart |-> 0, pblock |-> <<>>]
    /\ jobs = {} /\ reply = NoReply /\ fault = FALSE
    /\ method \in {"getworkex", "getblocktemplate"}

WorkNext ==
    /\ ~fault /\ UNCHANGED method
    /\ \/ \E created \in BOOLEAN :
            IF method = "getworkex" THEN GetWorkEx(created) ELSE GetBlockTemplate(created)
       \/ /\ pindexBest < MaxTips
          /\ \/ NewBest
             \/ \E job \in jobs, coinbase \in Coinbases \cup {"none"}, solution \in BOOLEAN :
                    SubmitWorkEx(job, coinbase, solution)
       \/ \E coinbase \in Coinbases : SubmitBlock(coinbase)
       \/ NewTransaction \/ Waiting
       \/ /\ method = "getworkex"
          /\ \E prev \in {pindexBest, pindexBest - 1} : MinerIncrements(prev)

WorkSpec == WorkInit /\ [][WorkNext]_workVars

-----------------------------------------------------------------------------
\* A job on the best block can be handed in until the best block changes, though later calls
\* gave the same block another script and later blocks were made; unless a miner replaced the
\* block's coinbase (rpcmining.cpp:233-240).
WorkIsHonoured ==
    \A job \in jobs :
        job.prev = pindexBest =>
            /\ job.root \in DOMAIN mapNewBlock
            /\ LET block == Rebuilt(job.root, "none") IN
               /\ block.hashPrevBlock = pindexBest
               /\ block.coinbase = "own" => MerkleRoot(block) = job.root

\* A template is one on the best block, its height is the one of that parent, and the "depends" of
\* a transaction are the places, from one, of earlier ones of the list that it spends from.
TemplatesAreRight ==
    reply.to = "getblocktemplate" =>
        /\ reply.previousblockhash = reply.best /\ reply.height = reply.best + 1
        /\ \A i \in DOMAIN reply.transactions : \A d \in reply.depends[i] :
            d \in 1 .. i - 1 /\ reply.transactions[d] \in Inputs[reply.transactions[i]]

\* getblocktemplate has a block whenever it answers, also after CreateNewBlock has thrown.
TemplateHasBlock == gbt.pindexPrev # Null => gbt.pblock # <<>>

WorkServerIsRight == WorkIsHonoured /\ TemplatesAreRight /\ TemplateHasBlock

\* rpcmining.cpp:294: "so future getworks make a new block, despite any failures from here on",
\* which getworkex does not do.
FailuresAreOvercome == ~fault

\* A returned coinbase is for the job it came with (rpcmining.cpp:239 "FIXME - HACK!").
WorkIsAlwaysHonoured ==
    \A job \in jobs :
        job.prev = pindexBest => MerkleRoot(Rebuilt(job.root, "none")) = job.root
=============================================================================
