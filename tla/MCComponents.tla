----------------------------- MODULE MCComponents -----------------------------
(***************************************************************************)
(* Parts of the node that share no state, checked by one run: the first    *)
(* state chooses the part that moves.                                      *)
(***************************************************************************)
EXTENDS BlockRules, WalletMoney, RpcServer, Encodings, Networks, Settings, WalletViews, LockOrder,
        Messages, BlockFiles, Scripts

VARIABLE moving

\* Retarget: both kinds of block, a block before its parent, in time and late.
MCTargetLimit == [kind \in Kind |-> IF kind = "work" THEN 500 ELSE 300]
MCNextBlocks == [h \in 1 .. MaxHeight |-> Kind \X {-1, 0, 2, 4}]

\* StakeModifier: a selection interval of three, a minimum age of eight.
MCTimeGaps == {-1, 1, 2}
MCBlockHash == <<3, 1, 2, 5, 4>>
MCSelectionHash(b, modifier) == (b * 5 + modifier * 3) % 7

\* Spending: the fifth coin is the wallet's own and in no block, the sixth is from later, the seventh
\* was generated and is immature, the eighth was received and is in no block.
MCValue == <<3, 4, 5, 9, 4, 6, 5, 7>>
MCTime == <<0, 0, 0, 0, 1, 2, 0, 1>>
MCDepth == <<6, 6, 1, 6, 0, 6, 6, 0>>
MCKey == <<1, 1, 2, 1, 2, 1, 1, 1>>
MCParent == <<1, 2, 3, 4, 5, 6, 7, 8>>

\* RpcServer: an answer that keeps the connection, ones that do not, a batch and errors.
Request(auth, connection, proto, calls) ==
    [auth |-> auth, connection |-> connection, proto |-> proto, calls |-> calls]
MCRequests == {
    Request("right", "none", 1, <<"one">>), Request("right", "none", 0, <<"one">>),
    Request("right", "close", 1, <<"one", "unknown">>), Request("wrong", "none", 1, <<"one">>),
    Request("right", "keep-alive", 0, <<"two">>), Request("right", "none", 1, <<"fails">>),
    Request("right", "none", 1, <<>>)}

\* DataStream: sizes on both sides of each change of the format.
MCWidths == <<2, 3, 4>>
MCWritten == {<<1>>, <<2, 3>>}
MCSizes == {0, 2, 3, 35, 36, 215, 216, 300, 301, 1295}
MCVectors == {<<>>, <<4>>, <<1, 2, 3>>, <<5, 5, 0, 0, 5, 4, 3>>}
MCMaps == {[b \in {} |-> 0], [b \in {3} |-> 1], [b \in {0, 4, 5} |-> 5 - b]}

\* BigNumbers and Base58.
MCMinNumber == -300
MCTexts == UNION {[1 .. n -> 0 .. Alphabet + 1] : n \in 0 .. 3} \cup [1 .. 4 -> {0, 1, 4}]
MCByteStrings == UNION {[1 .. n -> {0, 1, 4, 7}] : n \in 0 .. 4}
MCSecrets == {<<0, 3, 1>>, <<7, 7, 1>>, <<1, 0, 0>>}

\* Keys: a generator of the curve's 31 points.
MCBasePoint == <<2, 12>>

\* Texts: amounts around the coin, and texts that are nearly right.
Seqs(S, n) == UNION {[1 .. k -> S] : k \in 0 .. n}
MCTextSamples ==
    ({"money"} \X (-30 .. 300)) \cup ({"amount"} \X Seqs({0, 2, Point, Gap, Sign}, 5))
    \cup ({"bytes"} \X Seqs({0, 129, 255}, 5)) \cup ({"hex"} \X Seqs({0, 15, 16, 17}, 4))
    \cup ({"bits"} \X (Seqs({0, 3, Pad}, 5) \cup {s \in Seqs({0, Pad, 31}, 8) : Len(s) > 6 /\ s[3] = 0}))
    \cup ({"mask"} \X (Seqs({1, 2}, 3) \X Seqs({1, AnyChar, AnyText}, 3)))

\* NetAddress: addresses on both sides of the prefixes, and lines.
MCV4 ==
    {<<8, 8, 1, 1>>, <<8, 8, 2, 2>>, <<8, 9, 1, 1>>, <<10, 0, 0, 1>>, <<192, 168, 1, 1>>, <<172, 15, 0, 1>>,
     <<172, 31, 0, 1>>, <<172, 32, 0, 1>>, <<169, 254, 1, 1>>, <<127, 0, 0, 1>>, <<0, 1, 1, 1>>,
     <<0, 0, 0, 0>>, <<255, 255, 255, 255>>}
MCV6 ==
    {<<32, 1>> \o NoBytes(13) \o <<1>>, <<32, 1, 13, 184>> \o NoBytes(12), <<32, 1, 0, 16>> \o NoBytes(12),
     <<254, 128>> \o NoBytes(14), <<253, 1>> \o NoBytes(14), <<32, 17, 4, 112, 16>> \o NoBytes(11),
     <<32, 17, 4, 112, 32>> \o NoBytes(11), <<32, 17, 4, 113, 16>> \o NoBytes(11),
     <<32, 17, 4, 113, 32>> \o NoBytes(11), NoBytes(15) \o <<1>>, NoBytes(16), NoBytes(7) \o <<255, 255>> \o NoBytes(7)}
MCSampleAddresses ==
    {pchIPv4 \o v : v \in MCV4} \cup MCV6
    \cup {p \o <<b>> \o NoBytes(9) : p \in {pchOnionCat, pchGarliCat}, b \in {16, 31, 32}}
MCHostLines == Seqs({1, 13, Colon, Open, Close}, 4)

\* Proxy: answers of each kind, refusals, and ones that break off.
MCTargets ==
    {[kind |-> "name", by |-> "name"], [kind |-> "ipv4", by |-> "name"], [kind |-> "ipv6", by |-> "address"],
     [kind |-> "ipv4", by |-> "address"]}
Fives(n) == [i \in 1 .. n |-> 5]
MCAnswers ==
    {<<<<5, 0>>, <<5, 0, 0>> \o b \o <<7, 7, 99>>>> :
        b \in {<<1>> \o Fives(4), <<4>> \o Fives(16), <<3, 2, 5, 5>>, <<3, 0>>, <<2, 1>>}}
    \cup {<<<<5, 0>>, <<5, 5, 0, 1, 0, 0, 0, 0, 0, 0>>>>, <<<<5, 255>>, <<>>>>, <<<<5, 0>>, <<5, 0>>>>,
          <<<<5, 0>>, <<0, 90, 0, 0, 0, 0, 0, 0, 99>>>>, <<<<5, 0>>, <<0, 91, 0, 0, 0, 0, 0, 0>>>>,
          <<<<5, 0>>, <<5, 0, 0, 3>>>>}

\* Settings: up to two options in each of their forms, and files that contradict themselves.
MCOptions == {OptionKey(d, no, n) : d \in {1, 2}, no \in BOOLEAN, n \in BeforeNo \cup AfterNo} \X {"", "0"}
MCCommandLines == BoundedSeq(MCOptions, 2)
MCConfigFiles ==
    {<<>>, <<<<PlainKey("listen"), "0">>, <<OptionKey(1, TRUE, "listen"), "0">>>>,
     <<<<OptionKey(1, TRUE, "proxy"), "1">>, <<PlainKey("proxy"), "1">>>>,
     <<<<PlainKey("connect"), "1">>, <<PlainKey("connect"), "0">>>>}

\* WorkServer: a transaction that depends on two others, one from before.
MCPool == [n \in 0 .. 1 |-> IF n = 0 THEN <<"t1">> ELSE <<"t2", "t1", "t3">>]
MCInputs == [t1 |-> {}, t2 |-> {}, t3 |-> {"t1", "t2"}]

\* TxOrder: wallets of older versions, whose items have no place.
MCOldWallets ==
    {<<>>, <<Item("tx", 2, Unordered), Item("", 1, Unordered)>>, <<Item("tx", 1, Unordered), Item("tx", 3, Unordered)>>,
     <<Item("", 2, Unordered)>>}
MCShown == <<<<"", "x">>, <<"x">>, <<"">>, <<"x", "">>, <<"">>>>

\* TransactionTable: a chain of two, a branch that overtakes it and another that is lower.
MCTableBlocks == 0 .. 5
MCPrevBlock == [b \in MCTableBlocks |-> <<0, 0, 1, 0, 3, 0>>[b + 1]]
MCBlockHeight == [b \in MCTableBlocks |-> <<0, 1, 2, 1, 2, 1>>[b + 1]]
MCBlockTrust == [b \in MCTableBlocks |-> <<0, 1, 2, 1, 3, 5>>[b + 1]]
MCTxsOf == [b \in MCTableBlocks |-> <<<<>>, <<1>>, <<>>, <<3>>, <<2>>, <<>>>>[b + 1]]
MCPartsOf == <<1, 2, 1>>

\* TransactionRecords: up to two inputs and outputs, with change and without.
MCVins == {<<[mine |-> m, value |-> 3]>> : m \in BOOLEAN} \cup
          {<<[mine |-> m, value |-> 3], [mine |-> TRUE, value |-> 3]>> : m \in BOOLEAN}
MCVouts == BoundedSeq({o \in [mine : BOOLEAN, value : {1, 2}, inBook : BOOLEAN, plain : BOOLEAN] :
                         (o.inBook => o.plain /\ o.mine) /\ (~o.plain => o.value = 1)}, 2) \ {<<>>}
MCWalletTxs ==
    {tx \in [kind : {"normal"}, vin : MCVins, vout : MCVouts] :
        /\ SumPicked(tx.vin, LAMBDA in : TRUE) >= GetValueOut(tx)
        /\ (\E i \in DOMAIN tx.vin : tx.vin[i].mine) \/ (\E o \in DOMAIN tx.vout : tx.vout[o].mine)}
    \cup {tx \in [kind : {"coinbase"}, vin : {<<[mine |-> FALSE, value |-> 0]>>}, vout : MCVouts] : tx.vout[1].mine}
    \cup {tx \in [kind : {"coinstake"}, vin : {<<[mine |-> TRUE, value |-> 3]>>}, vout : MCVouts] :
            \A i \in DOMAIN tx.vout : tx.vout[i].mine}

\* AddressTable: the wallet's order of two addresses is not that of their texts.
MCBookOrder == <<1, 3, 2>>
MCOldBooks == {<<>>, [a \in {1} |-> "x"], [a \in {2, 3} |-> "x"]}

\* CoinControl: the second coin is change of the first's spending, the third has a longer input.
MCCoinValue == <<40, 31, 24>>
MCInputBytes == <<148, 148, 180>>
MCPreviousCoin == <<0, 1, 0>>
MCCoinAddress == <<"a", "c", "b">>

\* LockOrder: any three of the threads, and each of them with the one for the sockets, which
\* holds nothing when it waits.
MCTeam == {S \in SUBSET Thread : Cardinality(S) = IF "socket" \in S THEN 2 ELSE 3}

\* Alerts: one of them below the priority of the safe mode.
MCPriority == <<500, 2000, 1200>>
MCConditions ==
    {[priority |-> 0, rpc |-> FALSE], [priority |-> 1000, rpc |-> FALSE], [priority |-> 3000, rpc |-> TRUE]}

\* BlockChecks: coinbases, one of them empty, a coinstake, and payments, one too large by its sum.
Out(v, f, k) == [value |-> v, form |-> f, key |-> k]
BTx(id, in, out, t) == [id |-> id, vin |-> in, vout |-> out, nTime |-> t]
MCBlockTx == {
    BTx(1, <<0>>, <<Out(5, "pubkey", "k1")>>, 1),
    BTx(2, <<0>>, <<Out(2, "other", "k1"), Out(3, "pubkey", "k2"), Out(1, "pubkey", "k1")>>, 1),
    BTx(3, <<0>>, <<Out(0, "empty", "k0")>>, 2),
    BTx(4, <<0>>, <<Out(2, "strange", "k1"), Out(3, "pubkey", "k1")>>, 1),
    BTx(5, <<7>>, <<Out(0, "empty", "k0"), Out(3, "pubkey", "k1")>>, 2),
    BTx(6, <<8, 9>>, <<Out(3, "other", "k0")>>, 1),
    BTx(7, <<10>>, <<Out(6, "other", "k0"), Out(5, "other", "k0")>>, 1),
    BTx(8, <<11>>, <<Out(1, "other", "k0")>>, 2)}

\* Finality: lock times that are heights and that are times, on both sides of now.
MCLockTx == [nLockTime : {0, 2, 3, 102, 103}, nTime : {100, 102}, final : BOOLEAN]

\* BlockFiles: nothing, a window of something else, half a message start in front.
MCBlockSize == [b \in FileBlock |-> IF b = "b1" THEN 1 ELSE 2]
MCJunk == {<<>>, <<<<"x">>, <<"x">>, <<"x">>, <<"x">>>>, <<<<"x">>, <<"m">>, <<"g">>, <<"m">>>>}

\* Framing: data of one cell, and data that look like a message start.
MCPayloads == {<<<<"p">>>>, <<<<"m">>, <<"g">>>>}

\* Reach.
MCOptionSets == [onlynet : {{}, {"ipv4"}, {"tor"}}, proxy : BOOLEAN, socks : {4, 5}, tor : {Unset, "0", "1"},
                 listen : {Unset, "1"}, discover : {Unset, "1"}, externalip : BOOLEAN, dns : {Unset, "0"}]
MCNoOptions == [onlynet |-> {}, proxy |-> FALSE, socks |-> 5, tor |-> Unset,
                listen |-> Unset, discover |-> Unset, externalip |-> FALSE, dns |-> Unset]
MCLocalNet == [a1 |-> "ipv4", a2 |-> "ipv4", a3 |-> "tor", a4 |-> "private"]
MCFoundScore == [a1 |-> 5, a2 |-> 6, a3 |-> 6, a4 |-> 1]

\* ScriptEval: scripts of branches, of the stack opcodes, of numbers, of signatures.
MCPushValues == {<<>>, <<2>>, <<128>>}
MCFamilies ==
    {[ops |-> {}, length |-> 0],
     [ops |-> {"IF", "NOTIF", "ELSE", "ENDIF", "VERIF", "VERIFY", "TOALTSTACK", "FROMALTSTACK", "DUP", "CAT"}, length |-> 4],
     [ops |-> StackOps \cup UnaryOps \cup BinaryOps
                  \cup {"WITHIN", "PICK", "ROLL", "EQUAL", "EQUALVERIFY", "CHECKSIG", "CHECKSIGVERIFY", "CHECKMULTISIG",
                        "CHECKMULTISIGVERIFY", "DEPTH", "SIZE", "NOP", "RETURN"},
      length |-> 2]}
MCStartStacks ==
    {<<>>, <<<<100>>, <<129>>, <<1>>, <<0, 128>>, <<200, 0>>, <<2>>, <<1>>>>,
     <<<<>>, <<12>>, <<11>>, <<2>>, <<1>>, <<2>>, <<3>>, <<3>>>>}
MCValidSigs == {<<<<11>>, <<1>>>>, <<<<12>>, <<2>>>>, <<<<12>>, <<3>>>>, <<<<1>>, <<1>>>>, <<<<2>>, <<1>>>>}

\* Signing: three cosigners of a two-of-three, one of whom lacks the redeem script; and multisignatures
\* that require nothing, or count more or fewer keys than they have.
MCKeysOf == [s1 |-> {1}, s2 |-> {2, 4}, s3 |-> {3}]
FirstTransaction == [others |-> {[id |-> "o", sequence |-> 1], [id |-> "p", sequence |-> 1]}, outs |-> <<"a", "b">>]
MCTransactions ==
    {FirstTransaction,
     [others |-> {[id |-> "o", sequence |-> 2], [id |-> "p", sequence |-> 1]}, outs |-> <<"a", "c">>]}
MCPrevious ==
    {[type |-> "scripthash", of |-> [type |-> "multisig", m |-> 2, n |-> 3, keys |-> <<1, 2, 3>>]],
     [type |-> "pubkeyhash", key |-> 1],
     [type |-> "multisig", m |-> 2, n |-> 2, keys |-> <<4, 2>>],
     [type |-> "multisig", m |-> 0, n |-> 2, keys |-> <<4, 2>>],
     [type |-> "multisig", m |-> 1, n |-> 3, keys |-> <<4, 2>>],
     [type |-> "scripthash", of |-> [type |-> "multisig", m |-> 2, n |-> 2, keys |-> <<1, 2, 3>>]]}
MCHashType == {<<"ALL", "">>, <<"SINGLE", "ANYONECANPAY">>}

SequentialInit ==
    /\ moving \in {"retarget", "rewards", "modifier", "spending", "accounts", "rpc", "stream",
                   "uint", "big", "base58", "keys", "texts", "address", "proxy", "settings",
                   "work", "order", "rows", "records", "book", "coins", "locks", "alerts", "block",
                   "finality", "files", "framing", "reach", "script", "signing"}
    /\ RetargetInit
    /\ RewardsInit
    /\ ModifierInit
    /\ IF moving = "spending" THEN TRUE ELSE coins = {}
    /\ SpendInit
    /\ AccountsInit
    /\ RpcInit
    /\ IF moving = "stream" THEN TRUE ELSE sample = <<"size", 0>>
    /\ StreamInit
    /\ UintInit
    /\ BigInit
    /\ IF moving = "base58" THEN TRUE ELSE given = <<"bytes", <<>>>>
    /\ Base58Init
    /\ KeysInit
    /\ IF moving = "texts" THEN TRUE ELSE text = <<"money", 0>>
    /\ TextInit
    /\ IF moving = "address" THEN TRUE ELSE ip = NoBytes(16) /\ line = <<>>
    /\ NetInit
    /\ IF moving = "proxy" THEN TRUE ELSE target = [kind |-> "ipv4", by |-> "address"] /\ nProxy = 0 /\ nNameProxy = 0 /\ fLookup = TRUE /\ answer = <<<<5, 255>>, <<>>>>
    /\ ProxyInit
    /\ IF moving = "settings" THEN TRUE ELSE argv = <<>> /\ streamConfig = <<>>
    /\ SettingsInit
    /\ IF moving = "work" THEN TRUE ELSE method = "getworkex"
    /\ WorkInit
    /\ IF moving = "order" THEN TRUE ELSE walletdat = <<>>
    /\ OrderInit
    /\ TableInit
    /\ IF moving = "records" THEN RecordsInit ELSE wtx = <<>> /\ depth = 0 /\ final = TRUE /\ dependencies = TRUE /\ requests = 0
    /\ IF moving = "book" THEN TRUE ELSE addressBook = <<>>
    /\ BookInit
    /\ IF moving = "coins" THEN TRUE ELSE nTransactionFee = 0
    /\ ControlInit
    /\ IF moving = "locks" THEN TRUE ELSE team = {"gui", "rpc", "message"}
    /\ LockInit
    /\ AlertsInit
    /\ IF moving = "block" THEN TRUE ELSE nBlockTime = 2
    /\ BlockInit
    /\ FinalityInit
    /\ FilesInit
    /\ FramingInit
    /\ IF moving = "reach" THEN TRUE ELSE option = MCNoOptions
    /\ ReachInit
    /\ ScriptInit /\ (moving # "script" => family.length = 0 /\ machine.stack = <<>>)
    /\ SigningInit /\ (moving # "signing" => previous.type = "pubkeyhash" /\ nIn = 2 /\ documents = {[tx |-> FirstTransaction, stack |-> <<>>]})

\* Only the part that was chosen moves.
OthersStay ==
    /\ IF moving = "retarget" THEN TRUE ELSE UNCHANGED retargetVars
    /\ IF moving = "rewards" THEN TRUE ELSE UNCHANGED rewardVars
    /\ IF moving = "modifier" THEN TRUE ELSE UNCHANGED modifierVars
    /\ IF moving = "spending" THEN TRUE ELSE UNCHANGED spendVars
    /\ IF moving = "accounts" THEN TRUE ELSE UNCHANGED accountVars
    /\ IF moving = "rpc" THEN TRUE ELSE UNCHANGED rpcVars
    /\ IF moving = "stream" THEN TRUE ELSE UNCHANGED streamVars
    /\ IF moving = "uint" THEN TRUE ELSE UNCHANGED uintVars
    /\ IF moving = "big" THEN TRUE ELSE UNCHANGED bigVars
    /\ IF moving = "base58" THEN TRUE ELSE UNCHANGED base58Vars
    /\ IF moving = "keys" THEN TRUE ELSE UNCHANGED keyVars
    /\ IF moving = "texts" THEN TRUE ELSE UNCHANGED textVars
    /\ IF moving = "address" THEN TRUE ELSE UNCHANGED netVars
    /\ IF moving = "proxy" THEN TRUE ELSE UNCHANGED proxyVars
    /\ IF moving = "settings" THEN TRUE ELSE UNCHANGED settingVars
    /\ IF moving = "work" THEN TRUE ELSE UNCHANGED workVars
    /\ IF moving = "order" THEN TRUE ELSE UNCHANGED placeVars
    /\ IF moving = "rows" THEN TRUE ELSE UNCHANGED tableVars
    /\ IF moving = "records" THEN TRUE ELSE UNCHANGED recordVars
    /\ IF moving = "book" THEN TRUE ELSE UNCHANGED bookVars
    /\ IF moving = "coins" THEN TRUE ELSE UNCHANGED controlVars
    /\ IF moving = "locks" THEN TRUE ELSE UNCHANGED orderVars
    /\ IF moving = "alerts" THEN TRUE ELSE UNCHANGED alertVars
    /\ IF moving = "block" THEN TRUE ELSE UNCHANGED blockVars
    /\ IF moving = "finality" THEN TRUE ELSE UNCHANGED finalityVars
    /\ IF moving = "files" THEN TRUE ELSE UNCHANGED fileVars
    /\ IF moving = "framing" THEN TRUE ELSE UNCHANGED frameVars
    /\ IF moving = "reach" THEN TRUE ELSE UNCHANGED reachVars
    /\ IF moving = "script" THEN TRUE ELSE UNCHANGED scriptVars
    /\ IF moving = "signing" THEN TRUE ELSE UNCHANGED signingVars

SequentialNext ==
    /\ UNCHANGED moving
    /\ \/ moving = "retarget" /\ RetargetNext /\ OthersStay
       \/ moving = "rewards" /\ RewardsNext /\ OthersStay
       \/ moving = "modifier" /\ ModifierNext /\ OthersStay
       \/ moving = "spending" /\ SpendNext /\ OthersStay
       \/ moving = "accounts" /\ AccountsNext /\ OthersStay
       \/ moving = "rpc" /\ RpcNext /\ OthersStay
       \/ moving = "stream" /\ StreamNext /\ OthersStay
       \/ moving = "uint" /\ UintNext /\ OthersStay
       \/ moving = "big" /\ BigNext /\ OthersStay
       \/ moving = "base58" /\ OtherNet /\ OthersStay
       \/ moving = "keys" /\ KeysNext /\ OthersStay
       \/ moving = "texts" /\ TextNext /\ OthersStay
       \/ moving = "address" /\ NetNext /\ OthersStay
       \/ moving = "proxy" /\ ProxyNext /\ OthersStay
       \/ moving = "settings" /\ SettingsNext /\ OthersStay
       \/ moving = "work" /\ WorkNext /\ OthersStay
       \/ moving = "order" /\ OrderNext /\ OthersStay
       \/ moving = "rows" /\ TableNext /\ OthersStay
       \/ moving = "records" /\ RecordsNext /\ OthersStay
       \/ moving = "book" /\ BookNext /\ OthersStay
       \/ moving = "coins" /\ ControlNext /\ OthersStay
       \/ moving = "locks" /\ LockNext /\ OthersStay
       \/ moving = "alerts" /\ AlertsNext /\ OthersStay
       \/ moving = "block" /\ BlockNext /\ OthersStay
       \/ moving = "finality" /\ FinalityNext /\ OthersStay
       \/ moving = "files" /\ FilesNext /\ OthersStay
       \/ moving = "framing" /\ FramingNext /\ OthersStay
       \/ moving = "reach" /\ ReachNext /\ OthersStay
       \/ moving = "script" /\ ScriptNext /\ OthersStay
       \/ moving = "signing" /\ SigningNext /\ OthersStay

sequentialVars == <<moving, retargetVars, rewardVars, modifierVars, spendVars, accountVars, rpcVars,
                     streamVars, uintVars, bigVars, base58Vars, keyVars, textVars, netVars,
                     proxyVars, settingVars, workVars, placeVars, tableVars, recordVars, bookVars,
                     controlVars, orderVars, alertVars, blockVars, finalityVars, fileVars,
                     frameVars, reachVars, scriptVars, signingVars>>

SequentialSpec ==
    /\ SequentialInit /\ [][SequentialNext]_sequentialVars
    /\ WF_spendVars(moving = "spending" /\ CreateTransaction)

-----------------------------------------------------------------------------
\* The rules for the next block: its target and time, its reward, its stake modifier.
RulesAreKept ==
    /\ moving = "retarget" => NextBlockIsFair
    /\ moving = "rewards" => RewardsAreRight
    /\ moving = "modifier" => ModifierIsRight
    /\ moving = "block" => BlockChecksAreRight
    /\ moving = "finality" => FinalityIsKept
    /\ moving = "files" => BlockFilesAreRight

\* What the wallet spends and what it shows of it.
MoneyIsRight ==
    /\ moving = "spending" => SpendingIsRight
    /\ moving = "accounts" => AccountsAreRight
    /\ moving = "order" => OrderIsRight
    /\ moving = "rows" => TransactionTableIsRight
    /\ moving = "records" => TransactionRecordsAreRight
    /\ moving = "book" => AddressTableIsRight
    /\ moving = "coins" => CoinControlIsRight

\* Scripts: their evaluation, and the signatures several owners put into them.
ScriptsAreRight ==
    /\ moving = "script" => ScriptIsSound
    /\ moving = "signing" => SigningIsSound

\* What the threads and the peers of a node do to each other.
NodeIsRight ==
    /\ moving = "rpc" => RpcServerIsRight
    /\ moving = "proxy" => ProxyIsRight
    /\ moving = "settings" => SettingsAreRight
    /\ moving = "work" => WorkServerIsRight
    /\ moving = "locks" => LocksAreOrdered
    /\ moving = "alerts" => AlertsAreRight
    /\ moving = "framing" => FramesArrive
    /\ moving = "reach" => ReachIsRight

\* What is written, sent or shown is read back as what it was: streams, numbers and their texts
\* (serialize.h, uint256.h, bignum.h, base58.h, util.cpp).
EncodingsAreRight ==
    /\ moving = "stream" => StreamIsRight
    /\ moving = "uint" => UintIsRight
    /\ moving = "big" => BigNumberIsRight
    /\ moving = "base58" => Base58IsRight
    /\ moving = "keys" => KeysAreRight
    /\ moving = "texts" => TextsAreRight
    /\ moving = "address" => NetAddressIsRight

=============================================================================
