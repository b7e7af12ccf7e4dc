# Montecoin: TLA+ models, model checking and proofs

Montecoin is a proof-of-work / proof-of-stake currency node of the
PPCoin–NovaCoin family. This directory holds TLA+ modules translated from its
source (`src/src/*.cpp`; paths below are relative to the repository, so
`main.cpp` is `src/main.cpp` there and `src/src/main.cpp` in `PROJECT.json`),
the TLC configurations that check them on small instances, and TLAPS proofs of
the properties that matter most.

The chain is the centre: block index, transaction index, best chain and its
reorganizes, synchronized checkpoint, start-up after a crash, orphan blocks,
memory pool, the node's own blocks, and the wallet that listens to all of it.
Around it stand parts that share no state with it or with each other and are
modelled on their own: the address manager, connections, the download of the
chain from a peer, the key pool and wallet encryption, the relocking of the
wallet, the shutdown; and, smaller, the rules of the next block, scripts, the
money of the wallet and its views, locks, messages, the RPC server, networks,
settings, block files, and the encodings.

## 1. The system

### 1.1 Components

| component | state it keeps | operations | who calls it |
|---|---|---|---|
| Transaction index (`db.cpp` `CTxDB`, `main.cpp` 1150–1740) | the `tx` records: position and `vSpent` of every transaction of the best chain | `FetchInputs`, `ConnectInputs`, `DisconnectInputs`, `ConnectBlock`, `DisconnectBlock` | best chain, memory pool, wallet |
| Best chain (`main.cpp` 1750–2240) | `mapBlockIndex`, `pindexBest`, `hashBestChain`, `pnext`, `bnBestInvalidTrust`; the same on disk | `AcceptBlock`, `AddToBlockIndex`, `SetBestChain`, `SetBestChainInner`, `Reorganize`, `InvalidChainFound` | ProcessBlock, checkpoints, start-up |
| Checkpoints (`checkpoints.cpp`) | `hashSyncCheckpoint`, `hashPendingCheckpoint`, `hashInvalidCheckpoint`, the master key | `CheckHardened`, `CheckSync`, `ProcessSyncCheckpoint`, `AcceptPendingSyncCheckpoint`, `ResetSyncCheckpoint` | `AcceptBlock`, the `checkpoint` message, `LoadBlockIndex` |
| Start-up and block database (`db.cpp`, `main.cpp` 2700–2830) | Berkeley DB files, the open transaction | `LoadBlockIndex`, `TxnBegin`/`TxnCommit`/`TxnAbort` | init |
| ProcessBlock and orphan blocks (`main.cpp` 2390–2510) | `mapOrphanBlocks`, `mapOrphanBlocksByPrev`, `setStakeSeen`, `setStakeSeenOrphan` | `ProcessBlock`, `GetOrphanRoot`, `WantedByOrphan`, `PushGetBlocks` | the `block` message, the miner |
| Memory pool and orphan transactions (`main.cpp` 190–290, 500–790, 3490–3560) | `mapTx`, `mapNextTx`, `mapOrphanTransactions`, `mapOrphanTransactionsByPrev` | `accept`, `addUnchecked`, `remove`, `AddOrphanTx`, `LimitOrphanTxSize`, the `tx` handler | the `tx` message, RPC, wallet, `SetBestChain` |
| Miner and minter (`main.cpp` 4100–4650) | the template block, hash counters | `CreateNewBlock`, `IncrementExtraNonce`, `CheckWork`, `BitcoinMiner` | its own threads, RPC |
| Kernel and stake modifier (`kernel.cpp`) | stake modifiers in the block index | `ComputeNextStakeModifier`, `CheckProofOfStake` | `AcceptBlock`, miner |
| Retarget and rewards (`main.cpp` 950–1140) | money supply of the best block | `GetNextTargetRequired`, `GetProofOfWorkReward`, `GetProofOfStakeReward` | `AcceptBlock`, `ConnectBlock`, miner |
| Wallet, keys (`wallet.cpp`, `walletdb.cpp`, `keystore.cpp`, `crypter.cpp`) | `mapWallet`, spent flags, key pool, lock state | `AddToWallet`, `CreateTransaction`, `CommitTransaction`, `CreateCoinStake` | RPC, GUI, `SyncWithWallets` |
| Peers and messages (`net.cpp`, `net.h`, `main.cpp` 3150–3900) | `vNodes`, per-node buffers and request maps, `mapAlreadyAskedFor` | socket and message threads, `ProcessMessage`, `SendMessages`, `AskFor` | network |
| Address manager (`addrman.*`), alerts (`alert.*`), time filters (`util.*`) | their tables | `Add`, `Good`, `MakeTried`, `ProcessAlert`, `AddTimeData` | message handlers |
| Script (`script.*`) | the two stacks; the scriptSigs of a transaction | `EvalScript`, `VerifyScript`, `SignSignature`, `CombineSignatures` | `ConnectInputs`, wallet, RPC |
| JSON-RPC (`bitcoinrpc.cpp`, `rpc*.cpp`) | its connections; the blocks handed out | `ThreadRPCServer3`, `CRPCTable::execute`, `getwork` and its kin | clients |
| Networks (`netbase.*`, `net.cpp`), settings (`util.cpp`, `init.cpp`) | proxies, limited networks, local addresses; `mapArgs` | `Lookup`, `ConnectSocketByName`, `AddLocal`, `ParseParameters`, `ReadConfigFile` | openers, init |
| Graphical interface (`qt/*`) | copies of wallet and address book | the models of the tables, coin control | its own thread, by queued events |
| Numbers, streams and texts (`uint256.h`, `bignum.h`, `serialize.h`, `base58.h`, `key.cpp`, `util.cpp`) | none | operators and conversions | all |

`PROJECT.json` lists every component with its sources and says which are
modelled, partly modelled or left out.

### 1.2 How they interact

One lock, `cs_main`, is held by the message thread while it handles a message,
by the miner while it submits a block, and by every RPC that touches the chain.
Inside it a received block goes through

    ProcessBlock -> AcceptBlock -> AddToBlockIndex -> SetBestChain
        -> SetBestChainInner (extend) | Reorganize (disconnect*, connect*, commit)
        -> SetBestChainInner for each postponed block
      -> AcceptPendingSyncCheckpoint -> (SetBestChain again) -> WriteSyncCheckpoint
    -> the orphans of the block, of its children, ...

so there is one thread of control over the chain, and what makes the system
hard is what lies between its steps: three to many separate database commits in
one call, a crash between any two of them, storage errors that return `false`
half way up, blocks that are indexed though they cannot be connected, and
messages (blocks, checkpoints, transactions) in any order. Memory and disk are
changed at different moments: `pnext` and `pindexBest` only after the commit,
the memory pool after that, the wallets before it.

The memory pool is written by the `tx` handler, by RPC and by `SetBestChain`
(which erases what a block confirms and resurrects what a reorganize takes out).
The orphan block pool is emptied by the same call that fills the chain.

### 1.3 What makes each component correct

* Transaction index: it says of the best chain exactly what the chain's blocks
  say, at every commit; nothing is spent twice.
* Best chain: memory, disk and forward pointers agree; trust only rises; with
  all blocks delivered the node ends on the valid chain with the most trust.
* Checkpoint: always on the best chain, never back or sideways, reset when the
  key changes, and its operations end.
* Start-up: a crash at any point leaves a database the node can go on with.
* Orphan blocks: maps without dangling pointers, no orphan forgotten, no proof
  of stake remembered for a block that is gone, catching up despite all this.
* Memory pool: its two maps agree, it has no conflict, it is disjoint from the
  chain, a reorganize loses nothing, the two orphan maps agree.
* Miner: what it puts together connects to its parent, a solved block that is
  accepted becomes the best, a stale one is noticed.
* Wallet: after any reorganize, abort, crash and rescan its flags and blocks are
  those of the chain, a payment is made of coins that can be spent.
* Key pool: no key is given twice, none is lost however encryption ends.
* Wallet lock: unlocked for the timeout that was asked, and no longer.
* Connections: a node object is deleted only when nobody refers to it; slots for
  outbound connections are conserved.
* Address manager: the four tables say the same; the file gives back what was
  written.
* Download: a silent connection means that nothing is missing.
* Shutdown: it ends, and nobody uses what it has deleted.
* Block rules: what the node makes itself passes its own rules; nodes that know
  the same blocks choose the same chain; the target follows the spacing.
* Scripts: stack opcodes, numbers and multisignatures do what is said of them; a
  transaction verifies only with signatures of enough keys on what it says, and
  merging loses none.
* Money: a payment's amounts add up and its fee is enough, balances agree however
  they are counted, the views show the wallet when they have caught up.
* Locks and messages: no circle of waiting threads; what was sent arrives once
  and in order; a cancelled alert stays cancelled.
* RPC, networks, settings: answers in the order of the requests, work that can be
  handed in, nothing resolved or contacted past a proxy, the user's word stands.
* Encodings: what is read back is what was written.

`PROJECT.json` lists the hazards behind these, each at its line.

## 2. Plan

The order follows how much depends on a part.

| # | module | what | state |
|---|---|---|---|
| 1 | `ChainData`, `TxIndex` | blocks and transactions as data, the transaction index as operators | done, proved |
| 2 | `ChainState` | best chain, checkpoints, crash and restart | done, safety proved |
| 3 | `OrphanBlocks` (extends 2) | ProcessBlock, orphan blocks, requests | done, safety proved |
| 4 | `TxPool` (extends 2) | memory pool and orphan transactions | done, safety proved |
| 5 | `Ledger`, `ChainLedger` | the abstract promise of 2, and that 2 implements it | done, proved |
| 6 | `Miner` (extends 4) | template, the reads of `pindexBest` without the lock, `CheckWork`, `getwork` | done, safety proved |
| 7 | `ChainRpc` (extends 2) | `getblockhash` and the cached `FindBlockByHeight` | done, proved |
| 8 | `Peers` | node life cycle and reference counts, outbound slots, bans | done, proved |
| 9 | `Wallet` (extends 4) | spent flags and blocks of the wallet's transactions through reorganizes, aborted ones, crashes; payments; re-acceptance | done, safety proved |
| 10 | `StartUp`, `KeyPool` | the first start, the load of the index, a commit of it that fails; reservations and encryption | done, proved |
| 11 | `WalletLock`, `Shutdown` | relocking, the end of the process with the use counts of the database files | done, safety proved |
| 12 | `AddrMan`, `Download` | new and tried tables with `peers.dat`; getblocks, inv, getdata and block between two nodes | done; `AddrMan` proved, `Download` checked |
| 13 | `BlockRules`, `BlockFiles`, `Scripts`, `WalletMoney`, `WalletViews`, `LockOrder`, `Messages`, `RpcServer`, `Networks`, `Settings`, `Encodings` | parts on their own, each against a reference definition or a promise of its users | done, checked; `LockOrder`, `RpcServer` and the alerts of `Messages` proved |

A component that lives under `cs_main` next to the chain extends the chain's
module and conjoins its own variables to each of its steps, as `OrphanBlocks`,
`TxPool`, `Miner`, `Wallet` and `ChainRpc` do; theorems say that the chain's part
of every behaviour of `OrphanBlocks`, `TxPool`, `Miner` and `Wallet` is a
behaviour of `ChainState`, so what is proved of the chain holds there too. Parts without
shared state are put next to each other in `MCParts`, `MCThreads` and
`MCComponents`, where the initial state picks the one that moves.

## 3. Modules and how they correspond to the code

### 3.1 `ChainData` and `TxIndex`

A block is named by the hash of its header and a transaction by the hash of its
content, so what they say about themselves is a constant function: parent,
height, trust, transactions, inputs. `BlockAssumption` and `TxAssumption` state
what `CheckBlock`, `CheckTransaction` and `AddToBlockIndex` guarantee of them.
The assumptions are the only thing the proofs know of the block tree.

`TxIndex` is the database's `tx` records: `pos[t]` is the block of the position
stored for `t`, `spent[<<t, n>>]` the block of the transaction `vSpent[n]`
points to. `Connects` collects what can make `ConnectBlock` refuse a block on a
given index, `ConnectBlock` and `DisconnectBlock` are what it writes.
Everything that does not read the index (scripts, signatures, sigops, fees, the
rewards) is the constant relation `Rejects` between a block and the best block
at the time; it depends on the best block because the code reads `nBestHeight`
and the money supply of `pindexBest` there.

`IndexOf(tip)` and `SoundChain(tip)` are the reference: the index the chain
ought to have, defined without replaying it.

### 3.2 `ChainState`

One control variable `pc` is the thread that holds `cs_main`; `caller` and
`goal` are the call of `SetBestChain` it is in.

| label | code | actions |
|---|---|---|
| `idle` | between messages | `AcceptBlock`, `ProcessSyncCheckpoint` |
| `setbest` | `SetBestChain` entered | `ExtendBestChain`, `SetBestChainFails`, `StartReorganize` |
| `reorg` | the loops of `Reorganize` | `DisconnectStep`, `ConnectStep`, `ReorganizeFails`, `CommitReorganize` |
| `secondary` | the postponed blocks of `SetBestChain` | `ConnectSecondary`, `SecondaryFails`, `FinishSetBestChain` |
| `pending` | the end of `AcceptBlock` | `AcceptPendingSyncCheckpoint` |
| `writesync`, `reset` | `WriteSyncCheckpoint`, `ResetSyncCheckpoint` | same names, `WriteSyncCheckpointFails` |
| `down`, `keycheck` | the process is dead, starts | `LoadBlockIndex`, `CheckMasterKey` |

The variables that exist in memory and on disk are two variables when the code
changes them at different moments (`pindexBest`/`dbBest`, `pnext`/`dbNext`,
key) and one when nobody can look in between. An open Berkeley DB transaction
is `txnTx`, `txnNext`. `Crash` may come between any two steps and drops the
transaction and the meaning of memory; `Fault` lets one storage operation fail
and follows the error path the code takes from there.

### 3.3 `OrphanBlocks`

Extends `ChainState` with the two maps of orphans, the two sets of proofs of
stake, the work queue of `ProcessBlock` and the blocks asked of peers. What a
peer sends is what was asked (`inFlight`), and a request may be lost; so a run
explores every order of arrival. The handlers are `ReceiveRefused`,
`ReceiveOrphan` and `ReceiveChild`, three outcomes of one call;
`AcceptReturns`, `TakeOrphan`, `OrphanReturns` and `NextHash` are the loop over
the orphans, between whose iterations the steps of `ChainState` run as
`ChainStep`. `GetOrphanRoot` is a `CHOOSE` of the end of the walk; a lemma shows
that the walk ends.

### 3.4 `TxPool`

Extends `ChainState` with the memory pool and the orphan transactions. `accept`
has three outcomes, `Accepted`, `Missing` and `Refused`. The `tx` handler is
`ReceiveTx` followed by `TryOrphanTx` and `NextTxHash` until its queue has been
worked through; `SubmitTx` is RPC and wallet. `BlockStep` conjoins to each
commit of the chain what `SetBestChainInner` and `Reorganize` do to the pool
right after it. Nothing may come between (the pool is in memory, so a crash
takes it along).

### 3.5 `Miner`

Extends `TxPool` with one miner (or minter) thread and the `getwork` call. The
thread's labels follow its reads of the best block:

| label | code | actions |
|---|---|---|
| `read` | `BitcoinMiner` reads `pindexBest` without a lock | `ReadBest` |
| `bits` | `CreateNewBlock` reads it again, for the target | `ReadForTarget` |
| `collect` | the coinstake, then `LOCK2(cs_main, mempool.cs)`, the third read, the transactions | `CreateCoinStake`, `CreateNewBlock` |
| `search` | the loop over nonces, `CheckWork` | `Solve`, `NoticesNewBest`, `RunsOut` |
| `submitted` | inside `ProcessBlock` | `ProcessBlockReturns` |

The first two run between any two steps of the chain, also in the middle of a
reorganize; the others need `cs_main` to be free (`LockFree`). While
`ProcessBlock` works on the node's own block (`solved`), nobody else gets the
lock. `Collected` is every list that `CreateNewBlock` can come to: priorities,
fees and sizes are a free choice, the dependencies and the tests of
`FetchInputs` and `ConnectInputs` are not. `getwork` holds the lock from beginning
to end, so one step each is right for it; what it keeps in statics over calls is
`workPrev` and `mapNewBlock`. Only the blocks of
`OwnBlock` can be found, and only by the node itself; no peer sends them.

### 3.6 `Ledger` and `ChainLedger`

`Ledger` is what the readers of the chain count on: a best block, the outputs
that can be spent, the block up to which all is final. It moves from one valid
chain to another in one step, and knows no reorganizes, database transactions
or crashes. A chain is valid there when each block spends what its parent
leaves unspent, which is stated from outputs alone, without the index.

`ChainLedger` maps `ChainState` to it: `tip` is `dbBest`, `unspent` the
outputs with a record in the committed index and an empty `vSpent`, `final` is
`hashSyncCheckpoint`. So a commit is a `Move`, a written checkpoint is a
`Finalize`, and every other step, a crash among them, is a stutter. `intact`
is false once `desynced` or `rewound` is true: after these the code promises
nothing, and `Forfeit` says so.

### 3.7 `Wallet` and `ChainRpc`

`Wallet` extends `TxPool` with the wallet's transactions, the block each says it
is in (`hashBlock`), the flags `vfSpent` and the locator of its best block.
`Told` is the wallet after `SyncWithWallets`, which `ConnectBlock` and
`DisconnectBlock` call before anything is committed: `ChainAndWallet` conjoins
it to the step of the chain, also when that step belongs to a reorganize that
is aborted later. `SendMoney` is `CreateTransaction` and `CommitTransaction`,
which hold both locks. After a crash `LoadWallet` rescans from the locator's
fork and `ReacceptWalletTransactions` follows some time later, while the node
already takes messages. A block's transactions and the blocks of a rescan are
taken one after the other by recursive functions (`SyncTxs`,
`ScanForWalletTransactions`), so that a crash may cut them anywhere and a proof
can follow them. Three history variables say what the properties except:
`refunded` the coins `DisableTransaction` gave back in a reorganize that has not
committed, `misled` that a transaction of the database the wallet had followed was
lost, `unheard` that a block was connected before `RegisterWallet`.

`ChainRpc` adds the block `FindBlockByHeight` remembers, which `SetBestChain`
must forget (`main.cpp:1957`), whoever calls it.

### 3.8 `Peers` and `AddrMan`

A `CNode` is `new`, `open` (in `vNodes`), `closed` (in `vNodesDisconnected`),
`gone` (deleted). Each section under `cs_vNodes` is a step; between two of them
the handlers hold their copies of `vNodes` (`inUse`) and the openers a pointer.
An opener goes `idle`, `granted`, `checked`, `found` or `connecting`,
`connected`, through `OpenNetworkConnection` and `ConnectNode`. Time is left
out but for `held`: `nReleaseTime` lies in the future.

`AddrMan` has `mapInfo` with its reference counts, `vvNew`, `vvTried` and
`vRandom`; every operation is one step under `cs` and the random choices are
free (which bucket, which of the inspected entries). `Serialized` and `Restore` are
`peers.dat`.

### 3.9 `Download`

The node (`near`) and one peer (`far`) with the messages on the way in both
directions (`up`, `down`), in order. The node's block index is what `OrphanBlocks`
has in detail; here a block is accepted when its parent is there. What the module
is about is the talk: `PushGetBlocks` drops a request that equals the last one,
the peer sends no inventory it has sent before, a reply ends after `Limit`
blocks, and only `hashContinue` makes the node ask for more.

### 3.10 `KeyPool`, `WalletLock`, `Shutdown`

`KeyPool` has the keys in memory and the records of `wallet.dat` and of the
file `Rewrite` makes. `EncryptWallet` is cut into the steps after which the
file has changed: the transaction with the encrypted keys, the erased pool, the
new pool, the copy, the removal, the renaming. `CreateNewBlock` holds a reserved
key from `GetReservedKey` to the destructor.

`WalletLock` counts time down: `nWalletUnlockTime` and each thread's sleep are
what is left of them. Each section under `cs_nWalletUnlockTime` is a step; the
thread of a timeout of zero or less takes one only, and locks at once. A timeout
that is no integer makes `get_int64` throw when the wallet is unlocked and its
pool is being filled: the wallet stays open with no thread to lock it
(`PassphraseThrows`), which `Relocks` leaves out since no time was promised.

`Shutdown` has one step per stage of `Shutdown()` and `StopNode`, the threads
with the counters they keep in `vnThreadsRunning`, and `wallet.dat` with its use
count in `CDBEnv`.

### 3.11 `StartUp` and `BlockFiles`

`StartUp` is the way from a database that an earlier process left behind to the
running node. `disk` holds the index records, `hashBestChain`, the checkpoint and
the connected genesis block as the commits wrote them; `LoadRecord` reads one
record (in the order of their hashes) and `InsertBlockIndex` makes an empty
entry for a parent that has none. The genesis block is written in four commits,
with a kill possible between them; a running node adds blocks, and the commit of
a new record may fail (`AddToBlockIndex`), so that a block is in memory only and
its children are on disk. `SetBestChain` is one commit here.

`BlockFiles` has the cells of the block files: `AppendBlockFile`, `WriteToDisk`
with an end of the process in the middle of a record, `ReadFromDisk`, and
`LoadExternalBlockFile` with its window over a file that may hold other things.

### 3.12 `BlockRules`

Five parts. *Retarget*: `GetNextTargetRequired` over mixed chains with times that
go back, `ComputeMaxBits`, the time rules and the times of own blocks.
*Rewards*: nodes that make blocks and get each other's; the rewards read
`pindexBest`, which is not always the parent. *StakeModifier*: the rounds of
`ComputeNextStakeModifier` and `GetKernelStakeModifier`. *BlockChecks*: what
`CheckBlock` asks of a block's form, its Merkle tree and signature; a hash is the
value it hashes. *Finality*: `IsFinal` in `AcceptBlock`, the pool and
`CreateNewBlock`.

### 3.13 `Scripts`

*ScriptEval* runs `EvalScript` one opcode a step; the opcodes are chosen as the
script goes, so every script up to a length is run, from several stacks. *Signing*
has cosigners who sign, change and merge copies of a transaction
(`SignSignature`, `CombineSignatures`, `signrawtransaction`); `VerifyScript`
says whether the result holds, and what each signature promises is stated from
its hash type. `CombineSignatures` goes by the type `Solver` leaves, whether or
not it solved the script: the signatures of a malformed multisignature are merged
like those of any other.

### 3.14 `WalletMoney` and `WalletViews`

*Spending* is `AvailableCoins`, `SelectCoins` and the loop of
`CreateTransaction`, where the subset that the random search ends with is any it
may end with, and `CreateCoinStake`. *Accounts* has the balances of
`getbalance`, `getbalance "*"` and `listaccounts` next to each other. *TxOrder* is
`nOrderPos` through `LoadWallet` and the pages of `listtransactions`.
*CoinControl* is the dialog, its model's label arithmetic and `sendCoins`.

`WalletViews` has what the interface shows: *TransactionTable* handles queued
events after the wallet has moved on, *TransactionRecords* are the rows and the
status of one transaction, *AddressTable* is a copy of the address book that is
searched as a sorted list.

### 3.15 `LockOrder`, `Messages`, `RpcServer`

`LockOrder` writes each handler as the sequence of locks it takes, TRY_LOCKs
included, and lets teams of three threads run them. *Framing* has the messages
as cells in `vSend` and `vRecv`; *Alerts* several nodes and an operator.
*RpcServer* is a connection through accept, authorization, a request after the
other, batches and errors. *WorkServer* has the statics of `getworkex` and
`getblocktemplate` over their calls.

### 3.16 `Networks`, `Settings`, `Encodings`

*NetAddress*: sixteen bytes with networks embedded in them, groups, and lines
with a host and a port. *Proxy*: one connection through resolver and SOCKS, whose
answers come in pieces. *Reach*: limited networks, proxies and the address the
node gives itself. `Settings`: `ParseParameters`, `ReadConfigFile`, the negative
forms and the settings `AppInit2` derives.

`Encodings` is a set of pure algorithms over bounded inputs, checked against the
numbers, bytes and texts they stand for: *DataStream* (`serialize.h`),
*UintArith*, *BigNumbers*, *Base58*, *Keys* (an elliptic curve over a small field,
with the rare points whose x is not below the order) and *Texts*.

### 3.17 MC modules

* `MCChain`: `g–p1–{a2–{a3, y3}, b2–{b3–b4, x3–x4–x5}}`. Blocks of branch a
  are heavy, so b overtakes late and a reorganize has postponed blocks; `x4`
  spends what `x3` has spent, so the postponed connect fails; the same
  transaction is on three branches, spent within its block on two of them; `y3`
  spends an immature coinbase.
* `MCOrphans`: `g–p1–{q2–w3, r2–v3, x2–x3}`, where `q2` and `r2`
  share a proof of stake, `x2` has the most trust and cannot be connected.
* `MCLedger`: the tree of `MCChain` for `ChainLedger`.
* `MCMiner`: `g–p1–{a2–o3, b2, m2, k2}`, where peers send `p1`, `a2`, `b2`
  and the node finds the others: `m2` with two transactions of the pool that
  depend on each other, `o3` with a coinstake, `k2` with both. What they spend is
  an output of the genesis block, so the own blocks can be connected.
* `MCTxPool`: `g–p1–{a2–a3, b2–b3–b4}` with seven transactions: one on both
  branches, a double spend across the branches, chains within a block, an
  orphan with two parents, a conflict with that orphan, and one that spends the
  coinbase of a disconnected block.
* `MCWallet`: a fork with a coinstake of the wallet on one side, an invalid block
  on the other, payments in and out.
* `MCStart`: `g–p1–{a2, b2–b3–b4}` for `StartUp`.
* `MCParts`, `MCThreads`, `MCComponents`: the independent parts; `part` and
  `moving` name the one the behaviour is about, and the others stay at their
  initial states. Their fairness is that of the part that moves.
  `MCComponents` checks one conjunction for each group of parts: `RulesAreKept`
  (`NextBlockIsFair`, `RewardsAreRight`, `ModifierIsRight`, `BlockChecksAreRight`,
  `FinalityIsKept`, `BlockFilesAreRight`), `MoneyIsRight` (`SpendingIsRight`,
  `AccountsAreRight`, `OrderIsRight`, the three views, `CoinControlIsRight`),
  `ScriptsAreRight` (`ScriptIsSound`, `SigningIsSound`), `NodeIsRight`
  (`RpcServerIsRight`, `ProxyIsRight`, `SettingsAreRight`, `WorkServerIsRight`,
  `LocksAreOrdered`, `AlertsAreRight`, `FramesArrive`, `ReachIsRight`) and
  `EncodingsAreRight`.

## 4. What the runs check

Every run ends within five minutes with two workers.

| run | question | instance | states |
|---|---|---|---|
| `crash` | does the database stay right whatever is interrupted, and is it a ledger that moves in single steps? | all ten blocks, checkpoint messages for `b2`, `a3`, `x4`, one crash | 95 340 |
| `restart` | does start-up end, and leave things right? | eight blocks, hardened checkpoint `b2`, a rewind, a new master key, one crash, one storage fault | 83 102 |
| `orphans` | do orphan maps and proofs of stake stay whole, and does the node catch up from any order, with lost requests? | eight blocks, duplicate proof, too easy block, checkpoint message, one crash | 34 219 |
| `miner` | is work of the node wasted? | seven blocks, three of them its own, four transactions, blocks of three transactions at most, two blocks handed out by `getwork` at most, one crash | 735 365 |
| `tx_pool` | do pool, orphans and chain agree? | seven blocks, seven transactions, two orphans at most, one crash | 119 090 |
| `wallet` | are the wallet's flags and blocks those of the chain? | see `MCWallet`, one crash, one repair, one fault | 514 725 |
| `parts` | do address tables, connections and key pool stay whole, and does a start find the whole best chain? | four addresses and two buckets of each kind; two nodes, two openers, two outbound slots and one inbound; five keys, one stop; six blocks, one kill, one lost commit | 313 563 |
| `threads` | do download, relocking and shutdown come to their ends? | eight blocks on two branches, batches of two, one broken connection; three timers, timeouts of 0 to 2; two RPC clients of two requests; ten blocks for `getblockhash` | 194 897 |
| `components` | do the parts of 3.11 (files) to 3.16 what their users take for granted? | see `MCComponents.cfg` | 495 919 |

Three more runs each check one statement the repository makes of itself and find
it violated:

| run | statement | what happens |
|---|---|---|
| `desync` | `main.cpp:1940`, errors of the postponed connects "are not fatal, we still did a reorganisation to a new chain in a valid way" | after the break `SetBestChain` sets `pindexBest` to the block that was asked for, not the one the database was brought to |
| `mined_height` | `main.cpp:4407`, "Height first in coinbase required for block.version=2" | a block arrives between the unlocked read in `BitcoinMiner` and the locked one in `CreateNewBlock`; the coinbase has the height after the first, and the solved block is refused |
| `stop_at_start` | `init.cpp:677`, "it's possible the user requested to kill bitcoin-qt during the last operation. If so, exit." | the stop makes the load of the index end early (`db.cpp:620`, `db.cpp:824`) with success and an empty index, which `main.cpp:2706` takes for a new database: it writes the genesis block again and makes it the best chain |

### 4.1 Disagreements without a run of their own

While modelling, more places came up where the code does not do what the
repository says of it, or what its callers expect. The ones with a name are
stated in the modules; TLC finds them violated when they are given as
invariants (or, where marked, as temporal properties).

Chain, pool and blocks:

* `KeyChangeResetsCheckpoint` (`main.cpp:2796`, "if checkpoint master key
  changed must reset sync-checkpoint"): the new key is committed before the
  reset, a crash in between loses the reset.
* `PoolConnects` (`main.cpp:4211`, pool transactions connect to the chain or to
  other transactions of the pool): what spends the coinbase of a disconnected
  block stays in the pool.
* `main.cpp:2456`, "Duplicate stake allowed only when there is orphan child
  block": `setStakeSeenOrphan` remembers one proof for two orphans, and when one
  goes the proof of the other is forgotten.
* `rollback` (`rpcblockchain.cpp:177`, "rollback the best-block-chain to
  <index>.") sets `pindexBest` and `nBestHeight` in memory and nothing else.
* `MaxBitsAdmitRequired` (`main.cpp:2424`): `ComputeMaxBits` may ask for more work
  than `GetNextTargetRequired` lets a chain do; `ProcessBlock` then refuses an
  honest block as spam.
* `main.cpp:1706` says that fees are destroyed, while `ConnectBlock` allows
  `nSubsidy + nFees`; the rewards look at the supply of `pindexBest`
  (`main.cpp:1037`), not of the parent.
* `EverySignedBlockPasses` (`main.cpp:2523` against `main.cpp:2599`): `SignBlock`
  passes over outputs that `Solver` does not know, `CheckBlockSignature` refuses the
  block for them.
* `EveryTemplateIsFinal` (`main.cpp:4197` against `main.cpp:2280`): `CreateNewBlock`
  tests lock times by one height and time, `AcceptBlock` by others.
* `EveryRecordIsImported` (`main.cpp:2893`, `init.cpp:820`): an import that a stop
  cuts short renames `bootstrap.dat` all the same.
* `CheckBlock` looks at the second transaction for a coinstake and has no rule
  for one at a later position.
* An interrupted first start may leave a database that every later start refuses;
  an entry left by a failed commit (`main.cpp:2145`) is not asked for again.

Miner, RPC and wallet:

* `CommitMustNotFail` (`wallet.cpp:1848`, "This must not fail. The transaction
  has already been signed and recorded."): an aborted reorganize that disconnected
  the wallet's coinstake gave its input back; the next payment spends it again.
* `MinedKeyLeavesPool` (`main.cpp:4475`, "Remove key from key pool"): the
  `CReserveKey` that `CheckWork` keeps has reserved nothing, the coinbase's key
  went back to the pool when `CreateNewBlock` returned.
* A coinstake is made before `CreateNewBlock` takes its lock (`main.cpp:4162`): a
  transaction the pool gets in between may spend its output, and then the block
  does not connect. `IncrementExtraNonce` keeps `hashPrevBlock` in one static that
  all miner threads share.
* `FailuresAreOvercome` (`rpcmining.cpp:294`, "so future getworks make a new block,
  despite any failures from here on"): `getworkex` assigns its statics before
  it makes the block. `WorkIsAlwaysHonoured` (`rpcmining.cpp:239`): a coinbase given with a
  solution replaces the one of a block others work on.
* `StarIsBalance` (`rpcwallet.cpp:559`, "getbalance and getbalance '*' should
  always return the same number"): `GetAmounts` counts all of a coinstake's output
  as generated and nothing of what it spent.
* `PlacesAreAlwaysDistinct` (`walletdb.cpp:115`): `nOrderPosNext` may be given out
  twice after `LoadWallet` has numbered an old wallet.
* `SelectCoins` for a coinstake asks for the balance less the reserve, and fails
  when one confirmed coin is later than the coinstake's time.
* Coin control: `UnselectAllIsAll`, `LabelsAreSpendable`, `FrameIsTrue`: a click on
  "(un)select all" may leave coins selected, the labels count coins that are spent
  meanwhile, and are not drawn again when the frame is shown; the frame shows a
  change below a cent that `CreateTransaction` moves to the fee.
* `GeneratedIsShown` (`transactionrecord.cpp:14`, "Ensures we show generated coins
  / mined transactions at depth 1"): the coinbase of the best block, and of a block
  that a reorganize connects below the new best one, is not updated.
  `MixedRowsAddUp`, `TableAlwaysMirrorsBook` likewise of the rows and the address
  table: a label that is edited takes no `cs_wallet`, `importprivkey` names the
  address before it adds the key (`rpcdump.cpp:62`).
* `ReserveIsKept` (`test/util_tests.cpp:192` on `FormatMoney`): COIN is 10^8 but
  `FormatMoney` prints six digits (`util.cpp:374`), so a reserve that is written as
  text comes back without its leading zeros.

Network and the rest:

* `SlotsComeBack` (`net.cpp:1552`, "if successful, this moves the passed grant to
  the constructed node"): when another opener has connected meanwhile, the grant
  goes to the node that is there, which may be closed by now (`net.cpp:1576`).
* `OldestInspectedIsEvicted` (`addrman.cpp:131`): `SelectTried` finds the oldest
  of the entries it inspects, but remembers the place `nPos` it took that entry
  from (`addrman.cpp:142`). The swap has moved it to `i`, so unless the two are
  the same the place returned holds another entry, and that one is evicted.
* `NextBatchIsRequested` (temporal; `main.cpp:3369`, "Trigger them to send a
  getblocks request for the next batch of inventory"): the inv names the last
  proof-of-work block; if the node has that one as an orphan already and has
  asked for its root, the request is a repetition and is dropped.
* `EveryAlertArrives` (`alert.cpp:134`): `RelayTo` pushes to a node that has not
  sent its version; the alert is marked known, refused there and not sent again.
* `BoxIsThreadSafe`: `CheckDiskSpace` shows its message under `cs_main`
  (`main.cpp:2634`) and waits for an interface that may wait for `cs_main`.
* `LimitedIsOffLimits`, `LimitedProxyHides` (`net.cpp:253`, "Make a particular
  network entirely off-limits (no automatic connects to it)"): an address of
  `-addnode` is tried all the same (`net.cpp:1479`), and with `-onlynet` the proxy is
  not set for the networks that are limited, names are resolved past it.
* `EverySocketIsClosed` (`netbase.cpp:299`): one failure of `Socks5` returns without
  `closesocket`. `GarlicIsGarlic` (`netbase.h:66`): names of I2P and of Tor get the
  same prefix.
* `AnyRecoveredKeyIsValid` (`key.cpp:341`): what is recovered from numbers outside
  the range of a signature is not one.
* `FooAlwaysWins` (`test/getarg_tests.cpp:163`), `DashesAreTheSame`
  (`test/getarg_tests.cpp:77`): which of `-foo` and `-nofoo` is seen first is the order
  of a map; `--name` of a list setting is kept under another name.
* The comment at `rpcnet.cpp:75` is of a deadlock that the TRY_LOCK of
  `SendMessages` has removed.

### 4.2 Bounds and why they are enough

* Blocks: a reorganize needs a fork; a postponed connect needs a branch that
  overtakes before its end; a failing one needs an invalid block after a valid
  prefix with more trust. The ten blocks of `MCChain` are the smallest tree in
  which all of this happens in competition with a third branch. An invalid block
  at the reorganize itself (`y3`, `x2`) and at an extension are there too.
* `MaxCrashes`, `MaxFaults`, `MaxRekeys` bound the counters `crashes`, `faults`
  and the versions of the master key. One crash at any step already meets
  every state the database can be left in by one operation, and the process
  goes on from there with everything that was not yet received.
* `CoinbaseMaturity` is 1 or 2 so that both sides of the test occur within a
  chain of five blocks.
* `MaxBlockTxs` is 3 and `MaxWork` is 2: a template may leave out what would fit,
  and `getwork` keeps an older block next to a newer one on the same parent.
* `MaxOrphanTxs` is 2 with four transactions that can be orphans, so the
  eviction happens.
* The trees are finite, so received blocks run out and a run that has no crash
  left ends: `CHECK_DEADLOCK FALSE` in every configuration stands for that.
  A handler that could not go on would show as `NodeBecomesIdle` (in
  `restart`) or `EventuallyCaughtUp` (in `orphans`) failing.
* `Peers`: two openers, two addresses and two nodes are what a race for one
  address needs; `MaxOutbound` is 2 so that a slot can move, `MaxInbound` 1.
* `AddrMan`: a new bucket holds one entry and a tried one two, so adding evicts
  and `MakeTried` pushes an entry back.
* `Download`: `Limit` is 2 (500 in the code) with branches of up to six blocks, so
  a chain takes several batches; `MaxTips` and `MaxLosses` 1, one new best block and
  one loss of the connection.
* `KeyPool`: `PoolSize` 1 and five keys, one for each way to take one and those
  of the pool that encryption makes anew; `MaxStops` 1, an end of the process at any
  step and everything that may follow.
* `StartUp`: `MaxKills` and `MaxLost` 1: one end of the process and one commit that
  fails, in either order, on two branches.
* `WalletLock`: three timers, so one may wait, one prolong its time and one begin
  late; `MaxTimeout` 2, zero standing for every timeout that is not above it.
* `Shutdown`: two clients of two requests.
* `MCComponents`: the inputs are chosen so that most tests of the code go both ways,
  those that a property depends on first: among the coins are an immature one and
  unconfirmed ones, received and made here; among the scripts malformed
  multisignatures, alone and under a script hash. They do not reach every combination
  of tests, and some errors do not occur: signing a payment does not fail, and no
  transaction is too large. The bounds are the constants of the configuration.
  Numbers are kept in digits of a small base (`Base`, `LimbBits`, `ByteBase`, `Ten`),
  with as many digits as it takes for carries and for both signs.

The safety properties with a theorem are proved without these bounds
(section 5), so the runs serve to show that the interesting cases are reached and
that the rest and the liveness properties hold. `-nosynccheckpoints` and rewinds
under the ledger are covered by the proofs: `IndexMatches`, `BestChainSound` and
`PointersAreRight` hold for both values of `NoSyncCheckpoints`.

### 4.3 Fairness and why the code justifies it

* `LiveSpec`: weak fairness of `Step`. The thread that holds `cs_main` runs on
  and no step of it waits for anything but the disk.
* `PoolLiveSpec`: weak fairness of the thread; strong fairness of
  `HandleInv(t)`, new peers connect and announce their best block again and
  again; strong fairness of the receipt of a block, a request that is made
  again and again is answered some time; all of it for blocks of valid chains
  only. `LoseRequest` has no fairness, and a
  single request may always be lost.
* The fairness of `MCThreads`, for the part that moves: weak fairness of what the
  two message threads do for the connection, written out without `ENABLED`
  (`DownloadSpec`); threads that were made run, and time passes (`TimersRun`);
  weak fairness of the shutdown's steps and of the end of a database access, strong
  fairness of the end of a round of the message handler and of a command, since
  each uses the wallet's file finitely often (`ThreadsRun`).
* `PaymentEnds`: weak fairness of the rounds of `CreateTransaction`, which runs in
  one thread under its locks.
* No fairness of crashes, messages, faults, transactions.

`EventuallyCaughtUp` asks for the best blocks of the peers that end with a
proof-of-work block: a proof-of-stake tip whose proof another chain has used is
rightly refused until something wants it.

## 5. What is proved

Every theorem below is checked by TLAPS for all block trees, transactions and
bounds that satisfy the assumptions on the constants (`BlockAssumption`,
`TxAssumption`, `ContextAssumption`, `MaturityAssumption`,
`CheckpointAssumption`, `StakeAssumption`, `PoolAssumption`, `MinerAssumption`,
`StartAssumption`, `KeyPoolAssumption`, `AddrManAssumption`, `ShutdownAssumption`,
`WalletLockAssumption`, `WalletAssumption`, `LockAssumption`, `RpcAssumption`, `WorkAssumption`,
`AlertAssumption`, and those of `Peers`). TLC evaluates the same assumptions in every run.

| module | theorems | argument |
|---|---|---|
| `Iteration` | lemmas `UpTo`, `Recursion` | What the proofs about loops rest on: a function defined by recursion over `0 .. n` exists, and what a step keeps holds up to `n`, since otherwise there would be a least number at which it fails. |
| `TxIndexProofs` | `ConnectBlockIsCorrect`, `DisconnectBlockIsCorrect`, `DisconnectBlockSucceeds` | Lemmas on chains first: a chain is closed under `Prev`; heights on it are unique; `Toward`, `Intermediate` and the fork exist (by a smallest height instead of induction). If the index is that of a sound chain, an accepted block makes the chain sound and the index its index; disconnecting gives the parent's. That no transaction repeats rests on the height in the coinbase and on inputs that are unspent, since BIP30 lets a repeat through once all outputs are spent. |
| `ChainStateProofs` | `TypeCorrect`, `IndexMatches`, `BestChainSound`, `PointersAreRight`, `DatabaseStaysSound`; `CheckpointInBestChain`, `CheckpointOnlyAdvances`, `TrustOnlyRises`, `BetterIsAlwaysRecorded` | `TypeOK` with `WorksTowardGoal` (where `cur`, `mid` and `goal` are on the way, per label); then `IndexFollowsChain`: the committed index is that of `dbBest`, the one in the transaction that of `cur`, and every indexed block carries its height in its coinbase. The transaction needs a clause of its own because it is what the commit makes permanent. `PointersFollow`: `dbNext` is that of `dbBest`, `txnNext` that of `cur`, except that `ConnectBlock` writes the stale `pnext` of memory into the record of the block it connects, which the next block overwrites. The theorem is that nothing stale survives to the commit. For the checkpoint: while no key changes, every goal of `SetBestChain` has the checkpoint on its chain, and so has every block that has been connected on the way, since indexed blocks above the checkpoint descend from it. For the warning of a better chain: as long as no order of a checkpoint, crash or fault has come, what has more trust than the best block and is not recorded as invalid is what the thread is working on. |
| `BlocksProofs` | `ChainImplementsLedger`, `AnswersAreFromBestChain`; `PoolImplementsChain`, `ChainIsSoundUnderProcessBlock`, `PoolTypeCorrect`, `NoOrphanDangles`, `StakesAreThere`, `OrphansStayWhole`, `NoOrphanIsForgotten` | A sound chain is `Valid` (`SoundIsValid`) and its index leaves as spendable what the ledger calls unspent (`SpendableIsUnspent`). Trust rises along the ledger or an order is followed: `OrdersAreObeyed` keeps that whoever calls `SetBestChain` with less trust does so for a block on the way to a checkpoint. Assumes `MaxRekeys = 0` and that checkpoints are enforced. For `FindBlockByHeight`, the remembered block is on the best chain whenever nobody is between a commit and its end; the walk along `pnext` from a block of the chain stays on it. The latter excepts `desynced`, after which `pnext` ends before `pindexBest`. For `ProcessBlock`, each step maps to a step or stutter of `ChainState`. `OrphansAreRight`: both maps hold the same blocks but for the children of the hash the loop is at. `NoOrphanIsForgotten` needs that an orphan whose parent is indexed has its parent's hash in the queue or is being worked on, and that a parent that was refused is in no index. It assumes no storage fault, and that a block refused on one best block's account would be refused at its parent (`RefusedAtParent`): a reorganize reads the money supply of `pindexBest`, so a block may be indexed and refused there. |
| `PoolProofs` | `TxPoolImplementsChain`, `TxPoolTypeCorrect`, `NextTxIsRight`, `PoolStaysOutsideChain`, `NothingIsLost`, `OrphanMapsAlwaysAgree`, `PoolMapsAlwaysAgree`, `AcceptedOrphansAreTaken`; `WalletImplementsChain`, `FlagsAlwaysRight`, `WalletAlwaysKnowsItsBlocks`, `CoinStakesAreRefunded`; `MinerImplementsTxPool`, `WorkStaysWhole`, `StaleTemplateIsAlwaysNoticed`, `TemplatesAlwaysConnect`, `SolvedBlockGetsBest` | For the pool, `PoolIsRight` (no conflict, `mapNextTx` exact); for the chain, a resurrected transaction that the new branch has is removed by its commit; for the orphans, every orphan child of a hash that had its turn was accepted, refused, or waits for a parent whose turn comes later (`WaitingHaveTurn`). For the wallet: it runs ahead of the database: it hears of a block before the commit, and a crash or an aborted reorganize takes the commit away. `WalletIsRight` therefore says the same thing of two indexes, the committed one and, while a reorganize is open, the one in the transaction (`Latest`): every transaction of the wallet's that is in the index is in the wallet, every coin of it that is spent there is flagged, and every flag has a spender (`Knows`, `Flags`, `Spenders`); of the latest one alone, that each transaction carries the block that index has for it (`Placed`). A prefix of a block keeps all but the last (`HalfConnected`), the whole block gives the next index its clauses (`SyncTxs` by induction on the number of transactions), and `DisableTransaction`'s refunds are excepted until the commit settles them (`refunded`). A rescan from the locator's fork does it block by block (`Above`). `ReacceptWalletTransactions` puts transactions into the pool without a look at their inputs, so the wallet refines `ChainState`, not `TxPool`. For the miner, each step of miner and `getwork` maps to a step or stutter of `TxPool`. `ReadsAreOld`: the three reads of the best block were made in order, and trust has only risen in between. `TemplatesAreGood`: for as long as the parent is the best block, each prefix of the template connects to its index, and nothing the pool does can change that. `StakeFits` is the same for the coinstake that was made before the lock. `SolvedWorks` follows the own block through `AcceptBlock`, the reorganize or extension and its commit to the end of `CheckWork`. The last theorem assumes `OwnBlocksAreValid`, that the tests without an index let an own block pass on its parent: `CreateNewBlock` makes the same tests and computes the same reward for the best block, and `CheckWork` refuses a block on another. |
| `ThreadsProofs` | `PeersInvariant`, `ConnectionsStaySound`, `ShutdownStaysOrderly`, `WalletStaysUnlocked`, `LocksStayOrdered`, `RpcServerStaysRight`, `WorkServerStaysRight` | The reference count of a node is at least the number of those who point to it: being in `vNodes` or on the list of the disconnected, each opener that holds it, each handler that has it in its copy. A node is deleted only from the list, when its count is none and it was not released for long, and whoever got a pointer got it from `vNodes` and counted first. For the slots, the grants of openers and of nodes are disjoint and together with the free ones the semaphore's. For the shutdown, each counter of `vnThreadsRunning` is the number of threads that are at work, so that once the last loop of `StopNode` has ended no handler and no RPC thread is, and none starts again because `fShutdown` is set (`StagesGoOn`); and `mapFileUseCount` has no entry only when nobody has the file open and it is flushed (`UsesAreRight`). For the timers, as long as nobody has locked the wallet and left a time behind, one thread at most will set the time, to what was promised, and a time that is set is not before it (`TimeIsPromised`). For the locks, they are taken in the order of a rank (`Rank`), but for `cs_vSend` and `cs_hashSyncCheckpoint`, which have locks above and below them: those two are waited for only under `cs_main` or by a TRY_LOCK, and who has one waits only under `cs_main` (`InOrder`). That every program keeps to this is shown piece by piece: `RunsTo(h, p, e)` says that `p`, begun with the locks `h`, ends with `e` through a set of pairs of locks held and program left that is closed under its steps, with a lemma for each of `Holding`, `TryHolding`, `Box` and sequence. Then a thread that waits for one of the two, or has it, holds `cs_main`; at most one can; and along a circle of the others the rank would rise for ever (`NoCircle`). For the RPC server, what holds of one connection (`ServedRight`) speaks of its requests, answers and executions alone, so a step of one leaves the others as they are; only the count of the threads is shared (`HandlersCounted`). For the work, `getworkex` keeps its statics in step (`WorkIsKept`): while its `pindexPrev` stands, its blocks are on that parent, and each root of `mapNewBlock` is that of its block with the script kept for it, which is what `IncrementExtraNonce` on the same block could have lost. Jobs on an earlier parent are gone from the map, but then that parent is not the best block any more, since `pindexPrev` never runs ahead of it. |
| `PartsProofs` | `StartStaysWhole`, `KeyPoolStaysSound`, `AlertsStayRight` | For the start, `DiskIsWhole` at every commit: the records and transactions of `hashBestChain`'s chain are there, which `CTxDB::LoadBlockIndex` needs to find all of its best chain; `IndexIsClosed` for the entries without a record that `InsertBlockIndex` makes; and one clause for each stage of the genesis block. For the keys, `WalletIsRight` is what a section under `cs_wallet` takes and gives back (`AddToPoolRight`, `KeepKeyRight`): the records name keys of the file, no two the same one and none that was given out, and new keys are fresh because they are numbered. `StagesAreRight` says what each stage of `EncryptWallet` and `Rewrite` has made permanent: at "remove" the copy has every key of the file, at "rename" there is no file. `IndicesAreRight` needs the reservations too: an index is in the set, or reserved by one thread only, and stands for its key unless a new key has crossed it. For the alerts, an alert cancels only earlier ones, and those expire no later: so a node that has one in effect, or one that cancels it, will until it expires (`Covers`, `Lasting`, `ProcessCovers`), whatever it processes. What one node believes of another can therefore be said of the two alone (`PairRight`): what it holds as known there is covered there, or on the wire behind the version message, or was pushed too early; and once it has the version of the other, all it shows is held as known. A message put on a wire, and one taken from it, keep this (`PairGrows`, `PairPopped`). `GetWarnings` is a loop over the map in any order; along it the highest priority so far, and a safe mode if one was above 1000 (`InvSafeMode`, by `Iteration`). |
| `AddrManProofs` | `TablesStaySound`, `TriedAreKept` | The invariant is a property of tables (`AddrIsRight`): `vRandom` and `nRandomPos` are each other's inverse, the counts are the cardinalities, each `nRefCount` is the number of new buckets that refer to the entry, a tried entry is in the bucket its hash names, once, and no bucket is over its size. Each helper has a lemma that says what it makes of such tables; inside `Add_` the tables owe one reference (`Owes`), because the entry is counted before the bucket has it and the bucket may have to give up another entry first, which may be deleted. `SelectTried` and `GetAddr_` are loops whose result is the same bucket or the same entries in another order (`Selected`, `Reordered`). `MakeTried` always has room for the entry it evicts: in that entry's own new bucket or in the one the promoted entry has left (`HomeHasRoom`). For `peers.dat`, `Restore` of what was written gives the tables back in another order (`RestoreIs`): every tried entry finds room in its bucket because no more than fitted were written. |

Several properties carry an exception, and so do the theorems: `desynced` is
true after the failure that `desync` demonstrates, from when on memory and disk
describe different chains; `rewound` is true after a start that moved the best
chain back below the checkpoint (`db.cpp:788`).

### 5.1 What is only model-checked

* Liveness: `NodeBecomesIdle`, `EventuallyCaughtUp`, `EventuallyDownloaded`,
  `ThreadsEnd` (`Relocks` and `ShutdownEnds`), `PaymentEnds`. The prover has no
  rules for fairness here.
* `RulesAreKept`, `MoneyIsRight`, `ScriptsAreRight`, `NodeIsRight`, `EncodingsAreRight`:
  conjunctions over parts that the MC module puts together.
  Most of their parts compare an algorithm with a reference over all inputs of a
  bounded set; the algorithms are recursive, and what a recursive definition
  computes for every input needs an induction that the prover cannot do here.
  `LocksAreOrdered`, the locks' part of `NodeIsRight`, is proved for any threads that run
  together (`LocksStayOrdered`): the teams of three that the run has are no bound. So are
  `RpcServerIsRight` and `WorkServerIsRight` (`RpcServerStaysRight`, `WorkServerStaysRight`)
  and `AlertsAreRight` (`AlertsStayRight`): any number of callers, requests, jobs, nodes,
  connections and alerts.
* `DownloadIsSound`: `SilenceMeansSynced` holds of the block tree of `MCThreads` and not of
  every one, so it is no theorem about all values of the constants (see `Download` in
  section 6).
* `SyncCheckpointOnlyAdvances` is proved for all keys, `SyncCheckpointInBestChain`
  only while the master key stays the same; `crash` and `restart` check the rest.

## 6. Abstractions, and what is not modelled

* A hash is a name: no collisions, no malleated headers. `CheckBlock` and
  `CheckTransaction` are the assumptions on the data; blocks that fail them are
  not in the universe of the chain. `BlockRules` has `CheckBlock` by itself.
* `CheckProofOfStake` is `StakeConnects`: it finds the kernel's transaction in
  the index. The kernel hash is not computed; the stake modifier is, over constant
  hashes, in `BlockRules`.
* Scripts, signatures, sigops, fees, amounts and rewards are `Rejects` for
  blocks and `Invalid`, `NonStandard`, `RateLimited`, `Large` for transactions.
* A commit is durable. The environment is opened with `DB_TXN_WRITE_NOSYNC`
  (`db.cpp:92`), so a power failure may take the last commits; what is lost is
  a suffix, and each prefix is a state in which the model may crash too.
* `ChainState` has one index for memory and disk, and `Fault` begins in
  `SetBestChain`; a commit of `AddToBlockIndex` that fails and the several commits of
  the genesis block are in `StartUp`, where `SetBestChain` is one commit.
* `AutoSelectSyncCheckpoint` and the sending of checkpoints run only on the
  node that has the master private key. Signatures of checkpoint messages hold
  by the choice of `SyncCheckpoints`.
* `PushGetBlocks` keeps per peer what it asked last and a reply has at most 500
  blocks: in `OrphanBlocks` `repeated` is a free choice, and a reply names the whole
  chain; `Download` has both.
* `accept` while a reorganize resurrects transactions is one step; what it
  yields is any largest set without conflict, for every order of the vector.
* `Miner` has one thread: threads share nothing but the lock, the best block and
  the static of `IncrementExtraNonce`, and `getwork` stands for a second one. Each
  thread's coinbase has its own key and counter, so no two solve the same block.
* A coinstake is chosen among the confirmed, mature outputs nobody has spent at
  that moment. `TemplateConnects` and `SolvedBlockIsBest` except a coinstake whose
  output the pool spends before the transactions are collected (4.1), and the
  latter also a node on which two checkpoints come in a row while the block is
  submitted: then the pending one leads elsewhere.
* `Wallet`: amounts and the choice of coins are in `WalletMoney`; here a payment
  takes any coins that are available. `repairwallet` does not know the pool, so a
  flag it takes away may belong to a pool transaction; `ReacceptWalletTransactions`
  passes over a coinstake whose first output is flagged.
* `Download`: one peer. A download does stall in cases the properties except: when
  the node's own branch is longer than a batch; when requests of a broken
  connection are still in `mapAlreadyAskedFor`; with two new best blocks while a
  batch is on its way; after a reconnect while other peers are connected, since the
  version handler then asks nothing. It may also stall when the kernel of a
  proof-of-stake block is on the peer's branch above the fork from the node's: the node
  that receives this block before the peer's branch is its best one does not find the
  kernel (`StakeConnects`), drops the block, and the peer does not announce it again
  (`setInventoryKnown`). In the tree of `MCThreads` the kernel of the
  first proof-of-stake block, `s3`, lies below the fork.
* `KeyPool`: a wallet that was encrypted but stopped before `NewKeyPool` keeps the
  old pool. `Rewrite` removes `wallet.dat` before it renames the copy; a process that
  ends in between finds a new wallet at the next start. The numbering of the pool
  begins at 1 again when it has run out, and a reserved index that is returned then
  stands for another key (`crossed`).
* `WalletLock`: a relock in the middle of `ThreadTopUpKeyPool` ends the process
  (`alive`). A thread that was made has begun within a unit of time.
  `fWalletUnlockMintOnly` is left out.
* `Shutdown`: the minter that waits for a locked wallet never looks at `fShutdown`,
  and `StopNode` goes on without it after twenty seconds. An idle RPC client that
  keeps its connection blocks the exit; `ShutdownEnds` says so. `vnThreadsRunning`
  is taken to be counted atomically.
* `Peers`: `CloseSocketDisconnect` clears `vRecv` without `cs_vRecv`, `nRefCount++` in
  `ConnectNode` is outside of `cs_vNodes`, and a socket accepted beyond the limit is
  not closed when its address was added by hand (`net.cpp:843`). Not modelled.
* Hash functions are third-party bit-level code. Windows, menus and their texts,
  raw sockets, UPnP, IRC, DNS seeds, the JSON library, the snapshot's data and
  packaging have no state of interest here. Of the protocol, addr, getheaders, ping
  and checkorder are left out; of the RPC commands, those that read and format.
  `PROJECT.json` gives the reason for each part.

## 7. Running

    tlc -workers 2 -config MCCrash.cfg MCLedger
    tlc -workers 2 -config MCOrphans.cfg MCOrphans
    tlc -workers 2 -config MCThreads.cfg MCThreads
    tlc -workers 2 -config MCTxPool.cfg MCTxPool
    tlc -workers 2 -config MCComponents.cfg MCComponents
    tlapm ChainStateProofs.tla
    tlapm PoolProofs.tla

`PROJECT.json` lists every run with its module and configuration, maps every
definition to the lines it models, and names for each checked property a
plausible mistake in the code (the definitions marked "Altered") under which the
property fails.
