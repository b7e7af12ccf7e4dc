----------------------------- MODULE LockOrder ------------------------------
(***************************************************************************)
(* The order in which the threads of the node take their locks.  A thread  *)
(* runs one program after another: the locks its handler takes, in the     *)
(* order of the source, with the TRY_LOCKs that skip a piece of it.  Locks *)
(* are recursive.  Locks that are never held while another is taken        *)
(* (cs_inventory, cs_mapRelay, cs_setBanned, ...) cannot be part of a      *)
(* circle and are left out, and of the locks of the nodes one is kept: a   *)
(* thread holds those of one node at a time.                               *)
(***************************************************************************)
EXTENDS Naturals, Sequences

CONSTANTS
    Team         \* sets of threads that run at the same time

Lock == {"main", "wallet", "vNodes", "vSend", "vRecv", "mempool", "hashSync", "alerts",
         "keyStore", "unlockTime"}
Thread == {"message", "socket", "rpc", "minter", "relock", "gui"}

ASSUME LockAssumption == Team \subseteq SUBSET Thread

VARIABLES
    team,        \* the threads that run
    rest,        \* [team -> what is left of the program], <<>> when the thread has returned
    held         \* [team -> locks it holds, in the order taken]

orderVars == <<team, rest, held>>

-----------------------------------------------------------------------------
(* Pieces of programs.  LOCK(l) { body }, TRY_LOCK(l) { body } ...         *)
Holding(l, body) == <<[does |-> "lock", lock |-> l]>> \o body \o <<[does |-> "free", lock |-> l]>>

TryHolding(l, body) ==
    <<[does |-> "try", lock |-> l, skips |-> Len(body) + 1]>> \o body
    \o <<[does |-> "free", lock |-> l]>>

\* ThreadSafeMessageBox with MODAL: waits until the interface has shown it.
Box == <<[does |-> "box", lock |-> "none"]>>

\* PushMessage: BeginMessage ... EndMessage.
PushMessage == Holding("vSend", <<>>)

\* RelayTo for each of vNodes (an alert, a checkpoint).
RelayTo == Holding("vNodes", PushMessage)

\* PushInventory for each of vNodes.
RelayInventory == Holding("vNodes", <<>>)

\* SyncWithWallets and the rest of SetBestChain.
SetBestChain == Holding("wallet", Holding("keyStore", <<>>))

\* AcceptPendingSyncCheckpoint, with its relay.
AcceptPending == Holding("hashSync", SetBestChain \o PushMessage)

\* ProcessBlock: CheckDiskSpace, AddToBlockIndex, the announcement, the pending checkpoint.
TakeBlock(full) ==
    (IF full THEN Box ELSE SetBestChain \o RelayInventory) \o AcceptPending

\* CWallet::AddKey through CCryptoKeyStore: AddCryptedKey takes cs_wallet under cs_KeyStore.
AddKey == Holding("keyStore", Holding("wallet", <<>>))

-----------------------------------------------------------------------------
(* ThreadMessageHandler.                                                   *)
OnMessage(body) ==
    Holding("vNodes", <<>>) \o TryHolding("vRecv", Holding("main", body))

\* As it was before the TRY_LOCK.
SendMessages_Waits ==
    Holding("main", Holding("wallet", RelayInventory) \o RelayInventory \o PushMessage)

SendMessages ==
    TryHolding("main", Holding("wallet", RelayInventory) \o RelayInventory \o PushMessage)

SendMessagesTo == Holding("vNodes", <<>>) \o TryHolding("vSend", SendMessages)

MessagePrograms ==
    {OnMessage(Holding("alerts", PushMessage) \o Holding("hashSync", PushMessage)),   \* version
     OnMessage(Holding("alerts", <<>>) \o RelayTo),                                   \* alert
     OnMessage(Holding("hashSync", SetBestChain) \o RelayTo),                         \* checkpoint
     OnMessage(TakeBlock(FALSE)), OnMessage(TakeBlock(TRUE)),                   \* block
     OnMessage(Holding("mempool", <<>>) \o Holding("wallet", <<>>) \o PushMessage),   \* tx
     SendMessagesTo}

\* ThreadSocketHandler2: only TRY_LOCK under cs_vNodes and on the buffers.
SocketPrograms ==
    {Holding("vNodes", TryHolding("vSend", TryHolding("vRecv", <<>>))),
     Holding("vNodes", <<>>) \o TryHolding("vRecv", <<>>) \o TryHolding("vSend", <<>>)}

-----------------------------------------------------------------------------
(* CRPCTable::execute: GetWarnings, then LOCK2 unless the command is       *)
(* marked unlocked.                                                        *)
Locked(body) == Holding("alerts", <<>>) \o Holding("main", Holding("wallet", body))

RpcPrograms ==
    {Locked(RelayTo),                                          \* sendalert
     Locked(Holding("keyStore", <<>>) \o RelayInventory),      \* sendtoaddress
     Locked(Holding("unlockTime", Holding("keyStore", <<>>))), \* walletlock
     Locked(AddKey),                                           \* importprivkey
     Locked(TakeBlock(FALSE)), Locked(TakeBlock(TRUE)),  \* submitblock
     Locked(Holding("mempool", <<>>)),                         \* getrawmempool
     Holding("wallet", RelayInventory)}                        \* resendtx, without LOCK2

\* ThreadCleanWalletPassphrase, when it wakes.
RelockPrograms == {Holding("unlockTime", Holding("keyStore", <<>>))}

\* CreateCoinStake, CreateNewBlock, CheckWork.
TakeWork_KeepsWallet(full) ==
    Holding("wallet", Holding("main", Holding("wallet", <<>>) \o TakeBlock(full)))

TakeWork(full) ==
    Holding("main", Holding("wallet", <<>>) \o Holding("wallet", <<>>) \o TakeBlock(full))

MinterPrograms ==
    {Holding("main", Holding("wallet", Holding("keyStore", <<>>))),
     Holding("main", Holding("mempool", <<>>)), TakeWork(FALSE), TakeWork(TRUE)}

\* sendCoins with its LOCK2, and the models that lock the wallet alone.
GuiPrograms ==
    {Holding("main", Holding("wallet", Holding("keyStore", <<>>) \o RelayInventory)),
     Holding("wallet", Holding("keyStore", <<>>)), Holding("alerts", <<>>)}

Programs(t) ==
    CASE t = "message" -> MessagePrograms [] t = "socket" -> SocketPrograms
      [] t = "rpc" -> RpcPrograms [] t = "minter" -> MinterPrograms
      [] t = "relock" -> RelockPrograms [] t = "gui" -> GuiPrograms

-----------------------------------------------------------------------------
LockInit ==
    /\ team \in Team
    /\ rest = [t \in team |-> <<>>]
    /\ held = [t \in team |-> <<>>]

Owns(t, l) == \E i \in DOMAIN held[t] : held[t][i] = l
FreeFor(t, l) == \A u \in team \ {t} : ~Owns(u, l)
Idle(t) == rest[t] = <<>>

\* The thread enters one of its handlers.
Begin(t) ==
    /\ Idle(t)
    /\ \E p \in Programs(t) : rest' = [rest EXCEPT ![t] = p]
    /\ UNCHANGED <<team, held>>

\* LOCK and ENTER_CRITICAL_SECTION wait; a TRY_LOCK that succeeds is the same step.
Enter(t) ==
    /\ ~Idle(t) /\ Head(rest[t]).does \in {"lock", "try"} /\ FreeFor(t, Head(rest[t]).lock)
    /\ held' = [held EXCEPT ![t] = Append(@, Head(rest[t]).lock)]
    /\ rest' = [rest EXCEPT ![t] = Tail(@)]
    /\ UNCHANGED team

TryFails(t) ==
    /\ ~Idle(t) /\ Head(rest[t]).does = "try" /\ ~FreeFor(t, Head(rest[t]).lock)
    /\ rest' = [rest EXCEPT ![t] = SubSeq(@, 2 + Head(@).skips, Len(@))]
    /\ UNCHANGED <<team, held>>

\* The destructor of the lock: the last one taken.
Leave(t) ==
    /\ ~Idle(t) /\ Head(rest[t]).does = "free"
    /\ held' = [held EXCEPT ![t] = SubSeq(@, 1, Len(@) - 1)]
    /\ rest' = [rest EXCEPT ![t] = Tail(@)]
    /\ UNCHANGED team

\* Without an interface the box is a line of the log.
BoxIsShown(t) ==
    /\ ~Idle(t) /\ Head(rest[t]).does = "box" /\ ("gui" \in team => Idle("gui"))
    /\ rest' = [rest EXCEPT ![t] = Tail(@)]
    /\ UNCHANGED <<team, held>>

LockNext == \E t \in team : Begin(t) \/ Enter(t) \/ TryFails(t) \/ Leave(t) \/ BoxIsShown(t)

LockSpec == LockInit /\ [][LockNext]_orderVars

-----------------------------------------------------------------------------
\* The threads t waits for.
WaitsFor(t) ==
    IF Idle(t) THEN {}
    ELSE CASE Head(rest[t]).does = "lock" -> {u \in team \ {t} : Owns(u, Head(rest[t]).lock)}
           [] Head(rest[t]).does = "box" -> {u \in team \cap {"gui"} : ~Idle(u)}
           [] OTHER -> {}

\* A set of threads each of which waits for one of the set.
Circle(S) == S # {} /\ \A t \in S : WaitsFor(t) \cap S # {}

AtBox(t) == ~Idle(t) /\ Head(rest[t]).does = "box"

\* No set of threads waits for each other, whichever handlers they are in
\* (rpcnet.cpp:75 knows of a case; the TRY_LOCK of SendMessages has removed
\* it) - unless one of them waits for the interface: CheckDiskSpace asks it
\* under cs_main (main.cpp:2634), and the interface takes cs_main and
\* cs_wallet itself.
LocksAreOrdered == \A S \in SUBSET team : Circle(S) => \E t \in S : AtBox(t)

\* What a reader of "ThreadSafeMessageBox" expects, and the code does not keep.
BoxIsThreadSafe == \A S \in SUBSET team : ~Circle(S)

=============================================================================
