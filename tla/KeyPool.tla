------------------------------- MODULE KeyPool -------------------------------
(***************************************************************************)
(* The keys of the wallet (CCryptoKeyStore, CWallet, CReserveKey) and the  *)
(* pool of keys in reserve, in memory and in wallet.dat.  A command that   *)
(* holds cs_main and cs_wallet is one step.  CreateNewBlock reserves and   *)
(* returns a key in two; and EncryptWallet is cut where its records become *)
(* permanent, so that the process can end in between.                      *)
(***************************************************************************)
EXTENDS Integers, FiniteSets, FiniteSetsExt

CONSTANTS
    MaxKey,         \* keys are numbered in the order they are made
    MinerThread,    \* threads that call CreateNewBlock
    PoolSize,       \* -keypool
    MaxStops        \* ends of the process, orderly or not

ASSUME KeyPoolAssumption ==
    /\ PoolSize \in Nat \ {0} /\ MaxStops \in Nat
    /\ MaxKey \in Nat /\ MaxKey > PoolSize + 1

VARIABLES
    keys,           \* the keys in mapKeys or mapCryptedKeys
    fUseCrypto,     \* the second one is in use
    vMasterKey,     \* the master key is in memory
    setKeyPool,     \* the indices of the pool
    vchDefaultKey,
    datFile,        \* wallet.dat
    copyFile,       \* wallet.dat.rewrite
    encrypting,     \* what EncryptWallet does next
    process,        \* "up", "stopping" (fShutdown) or "down"
    reserved,       \* [MinerThread -> the nIndex and vchPubKey of its CReserveKey]
    coinbase,       \* [MinerThread -> the key its block pays to]
    given,          \* the keys of addresses and change
    mined,          \* the keys of blocks
    made,           \* the keys made so far
    crossed,        \* the indices that were given to new keys while reserved
    merged,         \* a Rewrite has found the copy of an earlier one
    stops

keyVars == <<keys, fUseCrypto, vMasterKey, setKeyPool, vchDefaultKey, datFile, copyFile, encrypting,
             process, reserved, coinbase, given, mined, made, crossed, merged, stops>>

Key == 1 .. MaxKey
NoKey == 0
NoReserve == [nIndex |-> -1, key |-> NoKey]

(***************************************************************************)
(* The records of a wallet file: "key"; "ckey", with the master key it is  *)
(* encrypted under; "mkey" (0 if there is none), named by the number of    *)
(* keys there were when it was made; "pool"; "defaultkey".                 *)
(***************************************************************************)
NoFile == [key |-> {}, ckey |-> <<>>, mkey |-> 0, pool |-> <<>>, default |-> NoKey]
KeysIn(file) == file.key \cup DOMAIN file.ckey

\* A wallet after its first start.
KeyPoolInit ==
    /\ made = PoolSize + 1 /\ keys = 1 .. made
    /\ fUseCrypto = FALSE /\ vMasterKey = FALSE
    /\ setKeyPool = 2 .. made /\ vchDefaultKey = 1
    /\ datFile = [key |-> keys, ckey |-> <<>>, mkey |-> 0, default |-> 1,
                  pool |-> [i \in setKeyPool |-> i]]
    /\ copyFile = NoFile
    /\ encrypting = "no" /\ process = "up"
    /\ reserved = [r \in MinerThread |-> NoReserve]
    /\ coinbase = [r \in MinerThread |-> NoKey]
    /\ given = {1} /\ mined = {} /\ crossed = {} /\ merged = FALSE /\ stops = 0

IsLocked == fUseCrypto /\ ~vMasterKey
LockIsFree == process # "down" /\ encrypting = "no"

-----------------------------------------------------------------------------
(* Sections under cs_wallet as functions of a record of what they change. *)
KeyWallet == [keys |-> keys, pool |-> setKeyPool, file |-> datFile, made |-> made, new |-> {}]

BecomeWallet(w) ==
    /\ keys' = w.keys /\ setKeyPool' = w.pool /\ datFile' = w.file /\ made' = w.made
    /\ crossed' = crossed \cup ({reserved[r].nIndex : r \in MinerThread} \cap w.new)

\* Altered: a key that is made while the wallet is encrypted is written as it is.
AddKeys_Plain(w, n) ==
    [w EXCEPT !.keys = @ \cup w.made + 1 .. w.made + n, !.made = @ + n,
              !.file.key = @ \cup w.made + 1 .. w.made + n]

\* GenerateNewKey, n times: in memory and in the file.
AddKeys(w, n) ==
    LET new == w.made + 1 .. w.made + n
        old == w.file.ckey
    IN  [w EXCEPT !.keys = @ \cup new, !.made = @ + n,
                  !.file.key = IF fUseCrypto THEN @ ELSE @ \cup new,
                  !.file.ckey = IF fUseCrypto
                                THEN [k \in DOMAIN old \cup new |->
                                        IF k \in new THEN w.file.mkey ELSE old[k]]
                                ELSE @]

\* Altered: the records are one key ahead.
AddToPool_Ahead(w, i, n) ==
    [AddKeys(w, n) EXCEPT
        !.pool = @ \cup i .. i + n - 1, !.new = i .. i + n - 1,
        !.file.pool = [j \in DOMAIN @ \cup i .. i + n - 1 |->
                          IF j >= i THEN w.made + 2 + j - i ELSE w.file.pool[j]]]

\* Altered: the keys are in the set before they have records.
AddToPool_NoRecord(w, i, n) ==
    [AddKeys(w, n) EXCEPT !.pool = @ \cup i .. i + n - 1, !.new = i .. i + n - 1]

\* n new keys in the pool from index i on.
AddToPool(w, i, n) ==
    LET old == w.file.pool
        new == i .. i + n - 1
    IN  [AddKeys(w, n) EXCEPT
            !.pool = @ \cup new, !.new = new,
            !.file.pool = [j \in DOMAIN old \cup new |->
                              IF j \in new THEN w.made + 1 + j - i ELSE old[j]]]

NextIndex(w) == IF w.pool = {} THEN 1 ELSE Max(w.pool) + 1

Shortfall(w) == IF IsLocked THEN 0 ELSE Max({0, PoolSize + 1 - Cardinality(w.pool)})

TopUp(w) == AddToPool(w, NextIndex(w), Shortfall(w))

\* The oldest key leaves the set; -1 if there is none.
OldestIndex(w) == IF w.pool = {} THEN -1 ELSE Min(w.pool)
Readable(w, i) == i \in DOMAIN w.file.pool /\ w.file.pool[i] \in w.keys

\* Altered: the record stays when the key is kept.
KeepKey_InFile(w, i) == [w EXCEPT !.pool = @ \ {i}]

\* ReserveKeyFromKeyPool's erase from the set and KeepKey's from the file.
KeepKey(w, i) ==
    [w EXCEPT !.pool = @ \ {i},
              !.file.pool = [j \in DOMAIN @ \ {i} |-> w.file.pool[j]]]

-----------------------------------------------------------------------------
(* Commands under both locks. *)

\* keypoolrefill; the thread walletpassphrase starts; getinfo, which reserves a key
\* for its time and returns it; a payment that fails and returns its key.  Cut short
\* when the timer relocks the wallet in its middle.
TopUpKeyPool(n) ==
    /\ LockIsFree /\ ~IsLocked
    /\ n <= Shortfall(KeyWallet) /\ (n < Shortfall(KeyWallet) => fUseCrypto)
    /\ made + n <= MaxKey
    /\ BecomeWallet(AddToPool(KeyWallet, NextIndex(KeyWallet), n))
    /\ vMasterKey' = (vMasterKey /\ n = Shortfall(KeyWallet))
    /\ UNCHANGED <<fUseCrypto, vchDefaultKey, copyFile, encrypting, process, reserved, coinbase, given,
                   mined, merged, stops>>

OnlyWallet ==
    UNCHANGED <<fUseCrypto, vMasterKey, vchDefaultKey, copyFile, encrypting, process, reserved, coinbase,
                mined, merged, stops>>

\* getnewaddress, and a payment whose change takes a key: reserve, then keep.
GiveKey ==
    LET w == TopUp(KeyWallet)
        i == OldestIndex(w)
    IN  /\ LockIsFree
        /\ w.made <= MaxKey
        /\ i # -1 /\ Readable(w, i)
        /\ BecomeWallet(KeepKey(w, i))
        /\ given' = given \cup {w.file.pool[i]}
        /\ OnlyWallet

\* GetKeyFromPool's own nIndex is not returned when ReserveKeyFromKeyPool throws.
GetKeyFromPoolThrows ==
    LET w == TopUp(KeyWallet)
        i == OldestIndex(w)
    IN  /\ LockIsFree
        /\ w.made <= MaxKey
        /\ i # -1 /\ ~Readable(w, i)
        /\ BecomeWallet([w EXCEPT !.pool = @ \ {i}])
        /\ given' = given
        /\ OnlyWallet

\* The pool of a locked wallet has run out: the checkorder message gets the default
\* key (fAllowReuse).
UseDefaultKey ==
    /\ LockIsFree
    /\ IsLocked /\ setKeyPool = {}
    /\ given' = given \cup {vchDefaultKey}
    /\ UNCHANGED <<keys, setKeyPool, datFile, made, crossed>>
    /\ OnlyWallet

Unlock ==
    /\ LockIsFree /\ IsLocked
    /\ vMasterKey' = TRUE
    /\ UNCHANGED <<keys, fUseCrypto, setKeyPool, vchDefaultKey, datFile, copyFile, encrypting, process,
                   reserved, coinbase, given, mined, made, crossed, merged, stops>>

\* walletlock, or the timer, which does not take cs_wallet.
Lock ==
    /\ LockIsFree /\ fUseCrypto /\ vMasterKey
    /\ vMasterKey' = FALSE
    /\ UNCHANGED <<keys, fUseCrypto, setKeyPool, vchDefaultKey, datFile, copyFile, encrypting, process,
                   reserved, coinbase, given, mined, made, crossed, merged, stops>>

-----------------------------------------------------------------------------
(* CreateNewBlock and CheckWork. *)

\* GetReservedKey, for the coinbase.
CreateNewBlock(r) ==
    LET w == TopUp(KeyWallet)
        i == OldestIndex(w)
    IN  /\ LockIsFree
        /\ reserved[r] = NoReserve /\ coinbase[r] = NoKey
        /\ w.made <= MaxKey
        /\ i # -1 => Readable(w, i)
        /\ BecomeWallet([w EXCEPT !.pool = @ \ {i}])
        /\ reserved' = [reserved EXCEPT ![r] =
                [nIndex |-> i, key |-> IF i = -1 THEN vchDefaultKey ELSE w.file.pool[i]]]
        /\ UNCHANGED <<fUseCrypto, vMasterKey, vchDefaultKey, copyFile, encrypting, process, coinbase,
                       given, mined, merged, stops>>

\* What the destructor of the CReserveKey makes of the pool.
Returned(pool, i) == IF i = -1 \/ process = "stopping" THEN pool ELSE pool \cup {i}

BlockIsReady(r) ==
    /\ LockIsFree
    /\ reserved[r] # NoReserve
    /\ setKeyPool' = Returned(setKeyPool, reserved[r].nIndex)
    /\ coinbase' = [coinbase EXCEPT ![r] = reserved[r].key]
    /\ reserved' = [reserved EXCEPT ![r] = NoReserve]
    /\ UNCHANGED <<keys, fUseCrypto, vMasterKey, vchDefaultKey, datFile, copyFile, encrypting, process,
                   given, mined, made, crossed, merged, stops>>

\* CheckWork calls KeepKey on a CReserveKey that reserved nothing.
CheckWork(r) ==
    /\ LockIsFree
    /\ coinbase[r] # NoKey
    /\ mined' = mined \cup {coinbase[r]}
    /\ coinbase' = [coinbase EXCEPT ![r] = NoKey]
    /\ UNCHANGED <<keys, fUseCrypto, vMasterKey, setKeyPool, vchDefaultKey, datFile, copyFile, encrypting,
                   process, reserved, given, made, crossed, merged, stops>>

-----------------------------------------------------------------------------
(* EncryptWallet, then the shutdown that follows it. *)

\* What one database transaction writes.
Encrypted(file) ==
    [file EXCEPT !.key = {}, !.ckey = [k \in keys |-> made], !.mkey = made]

EncryptKeys ==
    /\ LockIsFree /\ process = "up" /\ ~fUseCrypto
    /\ made + PoolSize <= MaxKey
    /\ datFile' = Encrypted(datFile)
    /\ fUseCrypto' = TRUE /\ vMasterKey' = TRUE
    /\ encrypting' = "erase"
    /\ UNCHANGED <<keys, setKeyPool, vchDefaultKey, copyFile, process, reserved, coinbase, given, mined,
                   made, crossed, merged, stops>>

\* NewKeyPool erases the records of the indices in the set.
ErasePool ==
    /\ process # "down" /\ encrypting = "erase"
    /\ datFile' = [datFile EXCEPT !.pool = [i \in DOMAIN @ \ setKeyPool |-> datFile.pool[i]]]
    /\ setKeyPool' = {}
    /\ encrypting' = "fill"
    /\ UNCHANGED <<keys, fUseCrypto, vMasterKey, vchDefaultKey, copyFile, process, reserved, coinbase,
                   given, mined, made, crossed, merged, stops>>

\* It writes a new pool from index 1; the wallet is locked again.
NewKeyPool ==
    /\ process # "down" /\ encrypting = "fill"
    /\ BecomeWallet(AddToPool(KeyWallet, 1, PoolSize))
    /\ vMasterKey' = FALSE
    /\ encrypting' = "copy"
    /\ UNCHANGED <<fUseCrypto, vchDefaultKey, copyFile, process, reserved, coinbase, given, mined, merged, stops>>

\* Altered: the pool of the copy is left out, as LoadWallet has it left out of a
\* wallet that needs a rewrite, and the keys go with it.
CopiedInto_SkipsPool(copy, file) ==
    [file EXCEPT !.ckey = [k \in DOMAIN @ \ {file.pool[i] : i \in DOMAIN file.pool} |-> @[k]],
                 !.pool = <<>>]

\* Rewrite puts every record into wallet.dat.rewrite with DB_NOOVERWRITE: what an
\* earlier Rewrite has left there stays.
CopiedInto(copy, file) ==
    [key |-> copy.key \cup file.key,
     ckey |-> [k \in DOMAIN copy.ckey \cup DOMAIN file.ckey |->
                 IF k \in DOMAIN copy.ckey THEN copy.ckey[k] ELSE file.ckey[k]],
     mkey |-> IF copy.mkey # 0 THEN copy.mkey ELSE file.mkey,
     pool |-> [i \in DOMAIN copy.pool \cup DOMAIN file.pool |->
                 IF i \in DOMAIN copy.pool THEN copy.pool[i] ELSE file.pool[i]],
     default |-> IF copy.default # NoKey THEN copy.default ELSE file.default]

RewriteCopies ==
    /\ process # "down" /\ encrypting = "copy"
    /\ copyFile' = CopiedInto(copyFile, datFile)
    /\ merged' = (merged \/ copyFile # NoFile)
    /\ encrypting' = "remove"
    /\ UNCHANGED <<keys, fUseCrypto, vMasterKey, setKeyPool, vchDefaultKey, datFile, process, reserved,
                   coinbase, given, mined, made, crossed, stops>>

RewriteRemoves ==
    /\ process # "down" /\ encrypting = "remove"
    /\ datFile' = NoFile
    /\ encrypting' = "rename"
    /\ UNCHANGED <<keys, fUseCrypto, vMasterKey, setKeyPool, vchDefaultKey, copyFile, process, reserved,
                   coinbase, given, mined, made, crossed, merged, stops>>

RewriteRenames ==
    /\ process # "down" /\ encrypting = "rename"
    /\ datFile' = copyFile /\ copyFile' = NoFile
    /\ encrypting' = "done"
    /\ UNCHANGED <<keys, fUseCrypto, vMasterKey, setKeyPool, vchDefaultKey, process, reserved, coinbase,
                   given, mined, made, crossed, merged, stops>>

\* cs_wallet is released; StartShutdown makes a thread that sets fShutdown later.
EncryptReturns ==
    /\ process # "down" /\ encrypting = "done"
    /\ encrypting' = "no"
    /\ UNCHANGED <<keys, fUseCrypto, vMasterKey, setKeyPool, vchDefaultKey, datFile, copyFile, process,
                   reserved, coinbase, given, mined, made, crossed, merged, stops>>

StartShutdown ==
    /\ process = "up"
    /\ process' = "stopping"
    /\ UNCHANGED <<keys, fUseCrypto, vMasterKey, setKeyPool, vchDefaultKey, datFile, copyFile, encrypting,
                   reserved, coinbase, given, mined, made, crossed, merged, stops>>

\* The process ends, orderly or not.
Stop ==
    /\ process # "down" /\ stops < MaxStops
    /\ process' = "down" /\ stops' = stops + 1
    /\ encrypting' = "no" /\ fUseCrypto' = FALSE /\ vMasterKey' = FALSE
    /\ keys' = {} /\ setKeyPool' = {} /\ vchDefaultKey' = NoKey
    /\ reserved' = [r \in MinerThread |-> NoReserve]
    /\ coinbase' = [r \in MinerThread |-> NoKey]
    /\ UNCHANGED <<datFile, copyFile, given, mined, made, crossed, merged>>

\* LoadWallet; a wallet without a default key gets one from a pool that is filled
\* first, and a missing file is created.
LoadWallet ==
    LET found == [keys |-> KeysIn(datFile), pool |-> DOMAIN datFile.pool, file |-> datFile,
                  made |-> made, new |-> {}]
        first == datFile.default = NoKey
        w == IF first THEN AddToPool(found, 1, PoolSize + 1) ELSE found
        i == OldestIndex(w)
    IN  /\ process = "down"
        /\ w.made <= MaxKey
        /\ process' = "up"
        /\ fUseCrypto' = (DOMAIN datFile.ckey # {})
        /\ vchDefaultKey' = IF first THEN w.file.pool[i] ELSE datFile.default
        /\ BecomeWallet(IF first THEN [KeepKey(w, i) EXCEPT !.file.default = w.file.pool[i]] ELSE w)
        /\ given' = IF first THEN given \cup {w.file.pool[i]} ELSE given
        /\ UNCHANGED <<vMasterKey, copyFile, encrypting, reserved, coinbase, mined, merged, stops>>

KeyPoolNext ==
    \/ \E n \in 0 .. PoolSize + 1 : TopUpKeyPool(n)
    \/ GiveKey \/ GetKeyFromPoolThrows \/ UseDefaultKey
    \/ Unlock \/ Lock
    \/ \E r \in MinerThread : CreateNewBlock(r) \/ BlockIsReady(r) \/ CheckWork(r)
    \/ EncryptKeys \/ ErasePool \/ NewKeyPool
    \/ RewriteCopies \/ RewriteRemoves \/ RewriteRenames \/ EncryptReturns
    \/ StartShutdown \/ Stop \/ LoadWallet

KeyPoolSpec == KeyPoolInit /\ [][KeyPoolNext]_keyVars

-----------------------------------------------------------------------------
(* Properties. *)

IsWalletFile(file) ==
    /\ file.key \subseteq Key /\ DOMAIN file.ckey \subseteq Key
    /\ file.mkey \in 0 .. MaxKey /\ file.default \in 0 .. MaxKey
    /\ \A i \in DOMAIN file.pool : i > 0 /\ file.pool[i] \in KeysIn(file)

\* Types; and every record of the pool of a wallet file names a key of that file.
KeyPoolTypeOK ==
    /\ keys \subseteq Key /\ made \in Key /\ stops \in 0 .. MaxStops
    /\ fUseCrypto \in BOOLEAN /\ vMasterKey \in BOOLEAN /\ merged \in BOOLEAN
    /\ IsWalletFile(datFile) /\ IsWalletFile(copyFile)
    /\ encrypting \in {"no", "erase", "fill", "copy", "remove", "rename", "done"}
    /\ process \in {"up", "stopping", "down"}
    /\ \A r \in MinerThread : reserved[r].key \in 0 .. MaxKey /\ coinbase[r] \in 0 .. MaxKey

\* ReserveKeyFromKeyPool throws neither "read failed" nor "unknown key in key pool":
\* each index in memory has its record, and the wallet has the record's key.  An
\* index is excepted that a new key got while CreateNewBlock had it reserved, because
\* the numbering began again (a new pool, or one that had run out): it comes back and
\* may stand for nothing.  So is a file that was put together from two.
PoolIsReadable ==
    LockIsFree /\ ~merged => \A i \in setKeyPool \ crossed : Readable(KeyWallet, i)

\* A key that was given out, as an address or for change, does not come out of the
\* pool once more, through whatever crashes, reservations and encryption.
GivenKeysStayOut ==
    \A i \in DOMAIN datFile.pool :
        LockIsFree /\ i \in setKeyPool /\ ~merged => datFile.pool[i] \notin given

\* Whenever the process ends, the key of every address and every block is in
\* wallet.dat or in the copy that is about to replace it.
KeysSurvive == given \cup mined \subseteq KeysIn(datFile) \cup KeysIn(copyFile)

\* A wallet file with a master key has no key in plain text, and one without has no
\* encrypted ones; what is encrypted, is so under the master key of the file.
EncryptionIsWhole ==
    \A file \in {datFile, copyFile} :
        /\ file.mkey # 0 => file.key = {}
        /\ ~merged => \A k \in DOMAIN file.ckey : file.ckey[k] = file.mkey

\* The comment in CheckWork: the key of a found block is removed from the pool.
MinedKeyLeavesPool ==
    LockIsFree => \A i \in setKeyPool \cap DOMAIN datFile.pool : datFile.pool[i] \notin mined

\* All of it: wherever the process ends, keys are there, encrypted and given out once.
KeyPoolIsSound ==
    KeyPoolTypeOK /\ PoolIsReadable /\ GivenKeysStayOut /\ KeysSurvive /\ EncryptionIsWhole

=============================================================================
