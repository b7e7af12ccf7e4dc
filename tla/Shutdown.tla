------------------------------- MODULE Shutdown -------------------------------
(***************************************************************************)
(* The end of the process: the threads that use the wallet and its file,   *)
(* the counters by which StopNode waits for them, and the use counts by    *)
(* which the database environment (CDBEnv) knows what it may close.  The   *)
(* wallet's file stands for all of them.                                   *)
(***************************************************************************)
EXTENDS Integers, FiniteSets

CONSTANTS
    Client,         \* connections to the RPC server, one thread each
    MaxRequests     \* requests of each of them

ASSUME ShutdownAssumption ==
    /\ IsFiniteSet(Client) /\ Client \cap {"handler", "minter"} = {}
    /\ MaxRequests \in Nat \ {0}

VARIABLES
    stage,          \* of Shutdown(), see Stages
    fShutdown,
    handler,        \* ThreadMessageHandler: "work", "sleep" or "exited"
    minter,         \* ThreadStakeMinter: "locked", "work" or "exited"
    rpc,            \* [Client -> ThreadRPCServer3]: "none", "start", "read", "exec", "exited"
    requests,       \* [Client -> what it has sent]
    vnThreadsRunning, \* [Counted -> Int]
    usesDb,         \* the threads that hold a CDB of wallet.dat
    useCount,       \* mapFileUseCount["wallet.dat"], or NoEntry
    dbHandle,       \* mapDb["wallet.dat"] is open
    fDbEnvInit,
    dirty,          \* the file lacks something that is only in the log
    pwalletDeleted

stopVars == <<stage, fShutdown, handler, minter, rpc, requests, vnThreadsRunning, usesDb, useCount,
              dbHandle, fDbEnvInit, dirty, pwalletDeleted>>
dbVars == <<usesDb, useCount, dbHandle, fDbEnvInit, dirty>>

Stages == <<"running", "flush", "stop", "wait", "finalwait", "flushall", "delete", "exit">>
Counted == {"handler", "minter", "rpc"}
NoEntry == -1
User == {"handler", "minter"} \cup Client

ShutdownInit ==
    /\ stage = 1 /\ fShutdown = FALSE
    /\ handler = "work" /\ minter \in {"locked", "work"}
    /\ rpc = [c \in Client |-> "none"] /\ requests = [c \in Client |-> 0]
    /\ vnThreadsRunning = [k \in Counted |-> IF k = "rpc" THEN 0 ELSE 1]
    /\ usesDb = {} /\ useCount = NoEntry /\ dbHandle = FALSE
    /\ fDbEnvInit = TRUE /\ dirty = FALSE
    /\ pwalletDeleted = FALSE

AtStage(s) == Stages[stage] = s
Alive == ~AtStage("exit")
Goes == stage' = stage + 1
Counting(k, n) == vnThreadsRunning' = [vnThreadsRunning EXCEPT ![k] = @ + n]

-----------------------------------------------------------------------------
(* The use of wallet.dat: CDB and CDBEnv, each section under cs_db. *)

\* The thread is at work and could open the wallet's file.
Working(u) ==
    CASE u = "handler" -> handler = "work"
      [] u = "minter" -> minter = "work"
      [] OTHER -> rpc[u] = "exec"

\* The constructor; once the environment is closed it throws, since Open refuses
\* when fShutdown is set.
OpenDb(u) ==
    /\ Alive /\ Working(u) /\ u \notin usesDb /\ fDbEnvInit
    /\ usesDb' = usesDb \cup {u}
    /\ useCount' = IF useCount = NoEntry THEN 1 ELSE useCount + 1
    /\ dbHandle' = TRUE
    /\ UNCHANGED <<stage, fShutdown, handler, minter, rpc, requests, vnThreadsRunning, fDbEnvInit, dirty,
                   pwalletDeleted>>

\* Altered: the entry goes with the last use, and the file is taken for flushed.
Released_Erase(n) == IF n = 1 THEN NoEntry ELSE n - 1
Released(n) == n - 1

\* It has written; Close.
CloseCDB(u) ==
    /\ Alive /\ u \in usesDb
    /\ usesDb' = usesDb \ {u}
    /\ useCount' = Released(useCount)
    /\ dirty' = TRUE
    /\ UNCHANGED <<stage, fShutdown, handler, minter, rpc, requests, vnThreadsRunning, dbHandle, fDbEnvInit,
                   pwalletDeleted>>

\* Altered: a file in use is closed too.
MayFlush_InUse == useCount # NoEntry
MayFlush == useCount = 0

\* CloseDb, CheckpointLSN, and the entry is erased.
FlushFile ==
    /\ dbHandle' = FALSE /\ dirty' = FALSE /\ useCount' = NoEntry

\* ThreadFlushWalletDB; backupwallet and encryptwallet do the same first.
FlushWallet ==
    /\ Alive /\ ~fShutdown /\ MayFlush
    /\ FlushFile
    /\ UNCHANGED <<stage, fShutdown, handler, minter, rpc, requests, vnThreadsRunning, usesDb, fDbEnvInit,
                   pwalletDeleted>>

-----------------------------------------------------------------------------
(* The threads. *)

\* ThreadMessageHandler2, after a round over the nodes: its count is lowered while
\* it sleeps.
HandlerSleeps ==
    /\ Alive /\ handler = "work" /\ "handler" \notin usesDb
    /\ handler' = IF fShutdown THEN "exited" ELSE "sleep"
    /\ Counting("handler", -1)
    /\ UNCHANGED <<stage, fShutdown, minter, rpc, requests, pwalletDeleted>> /\ UNCHANGED dbVars

\* Altered: it does not look at fShutdown again.
Continues_Unchecked == TRUE

\* "we must always check fShutdown after doing this".
Continues == ~fShutdown

HandlerWakes ==
    /\ Alive /\ handler = "sleep"
    /\ IF Continues
       THEN handler' = "work" /\ Counting("handler", 1)
       ELSE handler' = "exited" /\ UNCHANGED vnThreadsRunning
    /\ UNCHANGED <<stage, fShutdown, minter, rpc, requests, pwalletDeleted>> /\ UNCHANGED dbVars

\* BitcoinMiner(pwallet, true) at work returns once fShutdown is set; the loop that
\* waits for a locked wallet does not look at it.
MinterExits ==
    /\ Alive /\ minter = "work" /\ "minter" \notin usesDb /\ fShutdown
    /\ minter' = "exited"
    /\ Counting("minter", -1)
    /\ UNCHANGED <<stage, fShutdown, handler, rpc, requests, pwalletDeleted>> /\ UNCHANGED dbVars

\* Somebody locks or unlocks the wallet.
MinterSeesLock ==
    /\ Alive /\ ~pwalletDeleted /\ "minter" \notin usesDb
    /\ minter' = CASE minter = "locked" -> "work" [] minter = "work" -> "locked"
                   [] OTHER -> minter
    /\ minter # "exited"
    /\ UNCHANGED <<stage, fShutdown, handler, rpc, requests, vnThreadsRunning, pwalletDeleted>>
    /\ UNCHANGED dbVars

RpcGoes(c, to, n) ==
    /\ Alive
    /\ rpc' = [rpc EXCEPT ![c] = to]
    /\ Counting("rpc", n)
    /\ UNCHANGED <<stage, fShutdown, handler, minter, pwalletDeleted>> /\ UNCHANGED dbVars

\* Altered: a thread that leaves the loop in its middle is not counted out.
Leaves_Counted(c) == RpcGoes(c, "exited", 0)

\* The two ends of ThreadRPCServer3.
Leaves(c) == RpcGoes(c, "exited", -1)

\* RPCAcceptHandler makes the thread; the listener runs until fShutdown is set.
Accept(c) == rpc[c] = "none" /\ ~fShutdown /\ RpcGoes(c, "start", 0) /\ UNCHANGED requests

Serves == ~fShutdown

RpcStarts(c) ==
    /\ rpc[c] = "start"
    /\ IF Serves THEN RpcGoes(c, "read", 1) ELSE RpcGoes(c, "exited", 0)
    /\ UNCHANGED requests

\* ReadHTTP returns with a request.  The thread does not look at fShutdown again.
ClientSends(c) ==
    /\ rpc[c] = "read" /\ requests[c] < MaxRequests
    /\ RpcGoes(c, "exec", 0)
    /\ requests' = [requests EXCEPT ![c] = @ + 1]

ClientCloses(c) == rpc[c] = "read" /\ Leaves(c) /\ UNCHANGED requests

RpcReplies(c) ==
    /\ rpc[c] = "exec" /\ c \notin usesDb
    /\ IF Serves THEN RpcGoes(c, "read", 0) ELSE Leaves(c)
    /\ UNCHANGED requests

-----------------------------------------------------------------------------
(* Shutdown and StopNode. *)
Others == UNCHANGED <<handler, minter, rpc, requests, vnThreadsRunning>>

\* A signal, the stop command or the interface; the first thread sets fShutdown.
StartShutdown ==
    /\ AtStage("running")
    /\ Goes /\ fShutdown' = TRUE
    /\ Others /\ UNCHANGED pwalletDeleted /\ UNCHANGED dbVars

\* Flush(false) closes what nobody uses.
FirstFlush ==
    /\ AtStage("flush")
    /\ IF MayFlush THEN FlushFile ELSE UNCHANGED <<dbHandle, dirty, useCount>>
    /\ Goes
    /\ Others /\ UNCHANGED <<fShutdown, usesDb, fDbEnvInit, pwalletDeleted>>

StopNodeBegins ==
    /\ AtStage("stop") /\ Goes
    /\ Others /\ UNCHANGED <<fShutdown, pwalletDeleted>> /\ UNCHANGED dbVars

\* It waits for all threads, but no longer than twenty seconds.
WaitEnds ==
    /\ AtStage("wait") /\ Goes
    /\ Others /\ UNCHANGED <<fShutdown, pwalletDeleted>> /\ UNCHANGED dbVars

MustEnd == {"handler", "rpc"}

\* And for these as long as it takes; then DumpAddresses.
FinalWaitEnds ==
    /\ AtStage("finalwait")
    /\ \A k \in MustEnd : vnThreadsRunning[k] = 0
    /\ Goes
    /\ Others /\ UNCHANGED <<fShutdown, pwalletDeleted>> /\ UNCHANGED dbVars

\* Flush(true); the environment is closed when no file has an entry left.
LastFlush ==
    /\ AtStage("flushall")
    /\ IF MayFlush THEN FlushFile ELSE UNCHANGED <<dbHandle, dirty, useCount>>
    /\ fDbEnvInit' = (useCount' # NoEntry)
    /\ Goes
    /\ Others /\ UNCHANGED <<fShutdown, usesDb, pwalletDeleted>>

DeleteWallet ==
    /\ AtStage("delete")
    /\ pwalletDeleted' = TRUE
    /\ Goes
    /\ Others /\ UNCHANGED fShutdown /\ UNCHANGED dbVars

ShutdownStep ==
    \/ FirstFlush \/ StopNodeBegins \/ WaitEnds \/ FinalWaitEnds \/ LastFlush \/ DeleteWallet

ThreadStep ==
    \/ \E u \in User : CloseCDB(u)
    \/ HandlerSleeps \/ HandlerWakes \/ MinterExits
    \/ \E c \in Client : RpcStarts(c) \/ RpcReplies(c)

ShutdownNext ==
    \/ ShutdownStep \/ ThreadStep
    \/ StartShutdown \/ FlushWallet \/ MinterSeesLock
    \/ \E u \in User : OpenDb(u)
    \/ \E c \in Client : Accept(c) \/ ClientSends(c) \/ ClientCloses(c)

\* A round over the nodes and a command use the file finitely often.
ThreadsRun ==
    /\ WF_stopVars(ShutdownStep)
    /\ SF_stopVars(HandlerSleeps)
    /\ \A u \in User : WF_stopVars(CloseCDB(u))
    /\ \A c \in Client : SF_stopVars(RpcReplies(c))

ShutdownSpec == ShutdownInit /\ [][ShutdownNext]_stopVars

-----------------------------------------------------------------------------
(* Properties. *)

\* Types; and the counters are the numbers of threads that have not slept or ended.
ShutdownTypeOK ==
    /\ stage \in DOMAIN Stages /\ fShutdown \in BOOLEAN /\ pwalletDeleted \in BOOLEAN
    /\ usesDb \subseteq User /\ dbHandle \in BOOLEAN /\ dirty \in BOOLEAN /\ fDbEnvInit \in BOOLEAN
    /\ useCount = NoEntry => usesDb = {}
    /\ useCount # NoEntry => useCount = Cardinality(usesDb)
    /\ vnThreadsRunning["handler"] = IF handler = "work" THEN 1 ELSE 0
    /\ vnThreadsRunning["minter"] = IF minter = "exited" THEN 0 ELSE 1
    /\ vnThreadsRunning["rpc"] = Cardinality({c \in Client : rpc[c] \in {"read", "exec"}})

\* No thread reads or writes through a handle of wallet.dat that has been closed under
\* it, by the flushing thread, a backup or the shutdown.
HandlesInUseAreOpen == usesDb # {} => dbHandle /\ fDbEnvInit

\* No message and no RPC command is executed once the wallet object is gone,
\* although StopNode gives most threads no more than twenty seconds.
NoCommandAfterDelete ==
    pwalletDeleted => handler # "work" /\ \A c \in Client : rpc[c] # "exec"

\* After an orderly end wallet.dat holds everything by itself, unless the minter had
\* it open while the shutdown flushed the files.
FlushedAtExit == AtStage("exit") /\ useCount = NoEntry => ~dirty

\* All of it: whatever threads are late, the shutdown counts them rightly, takes nothing
\* from under them and loses nothing they wrote.
ShutdownIsOrderly ==
    ShutdownTypeOK /\ HandlesInUseAreOpen /\ NoCommandAfterDelete /\ FlushedAtExit

\* The shutdown comes to its end unless an RPC client neither asks nor hangs up (the
\* last loop of StopNode waits for it without a limit).
ShutdownEnds ==
    AtStage("flush") ~> (AtStage("exit") \/ \E c \in Client : rpc[c] = "read")

=============================================================================
