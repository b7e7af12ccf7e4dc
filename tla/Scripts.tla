------------------------------ MODULE Scripts -------------------------------
(***************************************************************************)
(* Scripts (script.cpp): their evaluation, and the signing of one          *)
(* transaction by several owners.                                          *)
(***************************************************************************)
EXTENDS Integers, Sequences, FiniteSets, SequencesExt

-----------------------------------------------------------------------------
(***************************************************************************)
(* EvalScript (script.cpp), one opcode a step, on every script of up to a  *)
(* length: which opcodes come is chosen as the script goes.  Stack items   *)
(* are sequences of bytes; a number is kept as the code keeps it, lowest   *)
(* byte first with the sign in the highest bit.  Hashes are left out.      *)
(***************************************************************************)
CONSTANTS
    StartStacks,    \* what the stack may hold at the start
    Families,       \* the kinds of scripts: sets of opcodes with a length, [ops, length]
    PushValues,     \* what a script may push
    ValidSigs,      \* the pairs <<signature, public key>> that CheckSig accepts
    MaxNumSize,     \* nMaxNumSize, 4 in the code
    MaxStack,       \* 1000 in the code
    MaxOpCount,     \* 201 in the code
    MaxKeys         \* 20 in the code

VARIABLES
    machine,        \* the locals of EvalScript
    family

scriptVars == <<machine, family>>

ScriptInit ==
    /\ family \in Families
    /\ \E stack \in StartStacks :
           machine = [stack |-> stack, alt |-> <<>>, exec |-> <<>>, count |-> 0, length |-> 0, state |-> "running"]

-----------------------------------------------------------------------------
(***************************************************************************)
(* Numbers.                                                                *)
(***************************************************************************)
\* CBigNum::setvch: the magnitude, with the sign taken out of the last byte.
Number(item) ==
    LET n == Len(item)
        sum == FoldRight(LAMBDA byte, high : byte + 256 * high, [item EXCEPT ![n] = @ % 128], 0)
    IN  IF n = 0 THEN 0 ELSE IF item[n] >= 128 THEN -sum ELSE sum

Magnitude(n) == IF n < 0 THEN -n ELSE n

\* Altered: no byte is added when the sign has no room.
GetVch_NoRoom(n) ==
    IF n = 0 THEN <<>> ELSE IF Magnitude(n) < 256 THEN <<(Magnitude(n) % 128) + (IF n < 0 THEN 128 ELSE 0)>> ELSE <<0, 1>>

\* CBigNum::getvch, of numbers of up to two bytes and a sign.
GetVch(n) ==
    LET size == Magnitude(n)
        bytes == IF size = 0 THEN <<>> ELSE IF size < 256 THEN <<size>> ELSE <<size % 256, size \div 256>>
        sign == IF n < 0 THEN 128 ELSE 0
        last == Len(bytes)
    IN  IF size = 0 THEN <<>>
        ELSE IF bytes[last] >= 128 THEN Append(bytes, sign) ELSE [bytes EXCEPT ![last] = @ + sign]

IsNumber(item) == Len(item) <= MaxNumSize

CastToBool(item) ==
    \E i \in 1 .. Len(item) : item[i] # 0 /\ ~(i = Len(item) /\ item[i] = 128 /\ \A j \in 1 .. i - 1 : item[j] = 0)

True == <<1>>
False == <<>>
Bool(b) == IF b THEN True ELSE False

-----------------------------------------------------------------------------
(***************************************************************************)
(* The opcodes that move stack items, as the code moves them.              *)
(***************************************************************************)
StackOps == {"2DROP", "2DUP", "3DUP", "2OVER", "2ROT", "2SWAP", "IFDUP", "DROP", "DUP", "NIP", "OVER", "ROT",
             "SWAP", "TUCK"}

\* How many items an opcode needs.
Needs == [op \in StackOps |->
    CASE op \in {"IFDUP", "DROP", "DUP"} -> 1 [] op \in {"3DUP", "ROT"} -> 3
      [] op \in {"2OVER", "2SWAP"} -> 4 [] op = "2ROT" -> 6 [] OTHER -> 2]

Popped(s, n) == SubSeq(s, 1, Len(s) - n)
Top(s, n) == s[Len(s) + 1 - n]
Swapped(s, i, j) == [s EXCEPT ![Len(s) + 1 - i] = Top(s, j), ![Len(s) + 1 - j] = Top(s, i)]
Erased(s, i) == RemoveAt(s, Len(s) + 1 - i)

StackOp(op, s) ==
    CASE op = "2DROP" -> Popped(s, 2)
      [] op = "2DUP" -> s \o <<Top(s, 2), Top(s, 1)>>
      [] op = "3DUP" -> s \o <<Top(s, 3), Top(s, 2), Top(s, 1)>>
      [] op = "2OVER" -> s \o <<Top(s, 4), Top(s, 3)>>
      [] op = "2ROT" -> Erased(Erased(s, 6), 5) \o <<Top(s, 6), Top(s, 5)>>
      [] op = "2SWAP" -> Swapped(Swapped(s, 4, 2), 3, 1)
      [] op = "IFDUP" -> IF CastToBool(Top(s, 1)) THEN Append(s, Top(s, 1)) ELSE s
      [] op = "DROP" -> Popped(s, 1)
      [] op = "DUP" -> Append(s, Top(s, 1))
      [] op = "NIP" -> Erased(s, 2)
      [] op = "OVER" -> Append(s, Top(s, 2))
      [] op = "ROT" -> Swapped(Swapped(s, 3, 2), 2, 1)
      [] op = "SWAP" -> Swapped(s, 2, 1)
      [] op = "TUCK" -> InsertAt(s, Len(s) - 1, Top(s, 1))

-----------------------------------------------------------------------------
(***************************************************************************)
(* The others.  Each gives the machine after it; Fail is return false.     *)
(***************************************************************************)
Fail(m) == [m EXCEPT !.state = "failed"]
With(m, stack) == [m EXCEPT !.stack = stack]
IsRunning(m) == \A i \in 1 .. Len(m.exec) : m.exec[i]

\* The second half of the opcodes that end in VERIFY.
Verified(m) == IF CastToBool(Top(m.stack, 1)) THEN With(m, Popped(m.stack, 1)) ELSE Fail(m)

Control(m, op) ==
    CASE op \in {"IF", "NOTIF"} ->
            IF ~IsRunning(m) THEN [m EXCEPT !.exec = Append(@, FALSE)]
            ELSE IF m.stack = <<>> THEN Fail(m)
            ELSE [m EXCEPT !.exec = Append(@, CastToBool(Top(m.stack, 1)) = (op = "IF")), !.stack = Popped(@, 1)]
      [] op = "ELSE" -> IF m.exec = <<>> THEN Fail(m) ELSE [m EXCEPT !.exec[Len(m.exec)] = ~@]
      [] op = "ENDIF" -> IF m.exec = <<>> THEN Fail(m) ELSE [m EXCEPT !.exec = Front(@)]
      [] op = "VERIF" -> Fail(m)

AltStack(m, op) ==
    CASE op = "TOALTSTACK" -> IF m.stack = <<>> THEN Fail(m)
            ELSE [m EXCEPT !.alt = Append(@, Top(m.stack, 1)), !.stack = Popped(@, 1)]
      [] op = "FROMALTSTACK" -> IF m.alt = <<>> THEN Fail(m)
            ELSE [m EXCEPT !.stack = Append(@, Top(m.alt, 1)), !.alt = Popped(@, 1)]

\* OP_PICK and OP_ROLL.
Pick(m, op) ==
    LET n == Number(Top(m.stack, 1))
        s == Popped(m.stack, 1)
    IN  IF Len(m.stack) < 2 \/ ~IsNumber(Top(m.stack, 1)) \/ n < 0 \/ n >= Len(s) THEN Fail(m)
        ELSE With(m, Append(IF op = "ROLL" THEN Erased(s, n + 1) ELSE s, Top(s, n + 1)))

Unary(op, n) ==
    CASE op = "1ADD" -> n + 1 [] op = "1SUB" -> n - 1 [] op = "NEGATE" -> -n [] op = "ABS" -> Magnitude(n)
      [] op = "NOT" -> (IF n = 0 THEN 1 ELSE 0) [] op = "0NOTEQUAL" -> (IF n # 0 THEN 1 ELSE 0)

One(b) == IF b THEN 1 ELSE 0
Binary(op, a, b) ==
    CASE op = "ADD" -> a + b [] op = "SUB" -> a - b
      [] op = "BOOLAND" -> One(a # 0 /\ b # 0) [] op = "BOOLOR" -> One(a # 0 \/ b # 0)
      [] op \in {"NUMEQUAL", "NUMEQUALVERIFY"} -> One(a = b) [] op = "NUMNOTEQUAL" -> One(a # b)
      [] op = "LESSTHAN" -> One(a < b) [] op = "GREATERTHAN" -> One(a > b)
      [] op = "LESSTHANOREQUAL" -> One(a <= b) [] op = "GREATERTHANOREQUAL" -> One(a >= b)
      [] op = "MIN" -> (IF a < b THEN a ELSE b) [] op = "MAX" -> (IF a > b THEN a ELSE b)

UnaryOps == {"1ADD", "1SUB", "NEGATE", "ABS", "NOT", "0NOTEQUAL"}
BinaryOps == {"ADD", "SUB", "BOOLAND", "BOOLOR", "NUMEQUAL", "NUMEQUALVERIFY", "NUMNOTEQUAL", "LESSTHAN",
              "GREATERTHAN", "LESSTHANOREQUAL", "GREATERTHANOREQUAL", "MIN", "MAX"}

Numeric(m, op) ==
    LET s == m.stack
        arity == IF op \in UnaryOps THEN 1 ELSE IF op = "WITHIN" THEN 3 ELSE 2
        enough == Len(s) >= arity /\ \A i \in 1 .. arity : IsNumber(Top(s, i))
        x(i) == Number(Top(s, i))
        value == IF op \in UnaryOps THEN GetVch(Unary(op, x(1)))
                 ELSE IF op = "WITHIN" THEN Bool(x(2) <= x(3) /\ x(3) < x(1))
                 ELSE GetVch(Binary(op, x(2), x(1)))
    IN  IF ~enough THEN Fail(m)
        ELSE LET after == With(m, Append(Popped(s, arity), value))
             IN  IF op = "NUMEQUALVERIFY" THEN Verified(after) ELSE after

Compare(m, op) ==
    LET s == m.stack
        holds == IF op \in {"EQUAL", "EQUALVERIFY"} THEN Top(s, 2) = Top(s, 1) ELSE <<Top(s, 2), Top(s, 1)>> \in ValidSigs
        after == With(m, Append(Popped(s, 2), Bool(holds)))
    IN  IF Len(s) < 2 THEN Fail(m) ELSE IF op \in {"EQUALVERIFY", "CHECKSIGVERIFY"} THEN Verified(after) ELSE after

\* Altered: a key that signed may sign again.
SigsMatch_KeyTwice(sigs, keys) ==
    \A i \in 1 .. Len(sigs) : \E j \in 1 .. Len(keys) : <<sigs[i], keys[j]>> \in ValidSigs

\* The loop of OP_CHECKMULTISIG over signatures and keys, from the top of the stack down.
SigsMatch(sigs, keys) ==
    LET try(s, key) ==
            IF s.left = <<>> \/ Len(s.left) > s.keys THEN s
            ELSE [left |-> IF <<Head(s.left), key>> \in ValidSigs THEN Tail(s.left) ELSE s.left, keys |-> s.keys - 1]
    IN  FoldLeft(try, [left |-> sigs, keys |-> Len(keys)], keys).left = <<>>

Multisig(m, op) ==
    LET s == m.stack
        isCount(i) == Len(s) >= i /\ IsNumber(Top(s, i))
        keysCount == Number(Top(s, 1))
        sigsAt == keysCount + 2
        sigsCount == Number(Top(s, sigsAt))
        last == sigsAt + 1 + sigsCount
        counted == [m EXCEPT !.count = @ + keysCount]
        keys == [k \in 1 .. keysCount |-> Top(s, 1 + k)]
        sigs == [k \in 1 .. sigsCount |-> Top(s, sigsAt + k)]
        after == With(counted, Append(Popped(s, last), Bool(SigsMatch(sigs, keys))))
    IN  IF ~isCount(1) \/ keysCount \notin 0 .. MaxKeys THEN Fail(m)
        ELSE IF counted.count > MaxOpCount \/ ~isCount(sigsAt) \/ sigsCount \notin 0 .. keysCount \/ Len(s) < last
             THEN Fail(counted)
        ELSE IF op = "CHECKMULTISIGVERIFY" THEN Verified(after) ELSE after

ControlOps == {"IF", "NOTIF", "ELSE", "ENDIF", "VERIF"}
Disabled == {"CAT"}     \* and the fourteen others

\* An opcode that is executed.
Execute(m, op) ==
    CASE op \in StackOps -> IF Len(m.stack) < Needs[op] THEN Fail(m) ELSE With(m, StackOp(op, m.stack))
      [] op \in ControlOps -> Control(m, op)
      [] op \in {"TOALTSTACK", "FROMALTSTACK"} -> AltStack(m, op)
      [] op \in {"PICK", "ROLL"} -> Pick(m, op)
      [] op \in UnaryOps \cup BinaryOps \cup {"WITHIN"} -> Numeric(m, op)
      [] op \in {"EQUAL", "EQUALVERIFY", "CHECKSIG", "CHECKSIGVERIFY"} -> Compare(m, op)
      [] op \in {"CHECKMULTISIG", "CHECKMULTISIGVERIFY"} -> Multisig(m, op)
      [] op = "VERIFY" -> IF m.stack = <<>> THEN Fail(m) ELSE Verified(m)
      [] op = "DEPTH" -> With(m, Append(m.stack, GetVch(Len(m.stack))))
      [] op = "SIZE" -> IF m.stack = <<>> THEN Fail(m) ELSE With(m, Append(m.stack, GetVch(Len(Top(m.stack, 1)))))
      [] op = "NOP" -> m
      [] op = "RETURN" -> Fail(m)

\* Altered: the stacks are limited one by one.
Limited_Each(m) == IF Len(m.stack) > MaxStack \/ Len(m.alt) > MaxStack THEN Fail(m) ELSE m

Limited(m) == IF Len(m.stack) + Len(m.alt) > MaxStack THEN Fail(m) ELSE m

\* One round of the loop for an opcode above OP_16.
AfterOp(m, op) ==
    LET counted == [m EXCEPT !.count = @ + 1, !.length = @ + 1]
    IN  IF counted.count > MaxOpCount \/ op \in Disabled THEN Fail(counted)
        ELSE Limited(IF IsRunning(m) \/ op \in ControlOps THEN Execute(counted, op) ELSE counted)

AfterPush(m, item) ==
    LET longer == [m EXCEPT !.length = @ + 1]
    IN  Limited(IF IsRunning(m) THEN With(longer, Append(m.stack, item)) ELSE longer)

-----------------------------------------------------------------------------
Goes == machine.state = "running" /\ machine.length < family.length

Op(op) == Goes /\ machine' = AfterOp(machine, op) /\ UNCHANGED family
Push(item) == Goes /\ machine' = AfterPush(machine, item) /\ UNCHANGED family

End ==
    /\ machine.state = "running"
    /\ machine' = [machine EXCEPT !.state = IF machine.exec = <<>> THEN "done" ELSE "failed"]
    /\ UNCHANGED family

ScriptNext == (\E op \in family.ops : Op(op)) \/ (\E item \in PushValues : Push(item)) \/ End

ScriptSpec == ScriptInit /\ [][ScriptNext]_scriptVars

-----------------------------------------------------------------------------
\* What the comments beside the opcodes say they make of x1 x2 ..., the last on top.
Comment == [op \in StackOps \ {"IFDUP"} |->
    CASE op = "2DROP" -> <<>> [] op = "DROP" -> <<>> [] op = "2DUP" -> <<1, 2, 1, 2>>
      [] op = "3DUP" -> <<1, 2, 3, 1, 2, 3>> [] op = "2OVER" -> <<1, 2, 3, 4, 1, 2>>
      [] op = "2ROT" -> <<3, 4, 5, 6, 1, 2>> [] op = "2SWAP" -> <<3, 4, 1, 2>> [] op = "DUP" -> <<1, 1>>
      [] op = "NIP" -> <<2>> [] op = "OVER" -> <<1, 2, 1>> [] op = "ROT" -> <<2, 3, 1>> [] op = "SWAP" -> <<2, 1>>
      [] op = "TUCK" -> <<2, 1, 2>>]

(***************************************************************************)
(* The erasures, insertions and swaps of the stack opcodes do what the     *)
(* comments beside them say, below which nothing changes.                  *)
(***************************************************************************)
StackOpsAsCommented ==
    \A op \in DOMAIN Comment :
        Len(machine.stack) >= Needs[op] =>
            LET below == Popped(machine.stack, Needs[op])
                x(i) == machine.stack[Len(below) + i]
            IN  StackOp(op, machine.stack) = below \o [i \in 1 .. Len(Comment[op]) |-> x(Comment[op][i])]

(***************************************************************************)
(* A number and its bytes are the same thing: what getvch writes setvch    *)
(* reads back, in no more bytes than any other form of it, and the truth   *)
(* of an item is that its number is not zero, in negative zero also.       *)
(***************************************************************************)
NumbersAreKept ==
    \A i \in 1 .. Len(machine.stack) :
        LET item == machine.stack[i]
            n == Number(item)
        IN  /\ \A m \in {n, n + 1, -n, n + n} :
                   Magnitude(m) < 30000 => Number(GetVch(m)) = m
            /\ Len(GetVch(n)) <= Len(item)
            /\ CastToBool(item) = (n # 0)

(***************************************************************************)
(* OP_CHECKMULTISIG goes once through signatures and keys and finds a      *)
(* matching, one key for each signature in the same order, exactly when    *)
(* there is one.                                                           *)
(***************************************************************************)
MultisigFindsMatching ==
    \A n \in 0 .. Len(machine.stack), k \in 0 .. Len(machine.stack) :
        k <= n =>
            LET keys == SubSeq(machine.stack, k + 1, n)
                sigs == SubSeq(machine.stack, 1, k)
            IN  SigsMatch(sigs, keys) =
                    \E f \in [DOMAIN sigs -> DOMAIN keys] :
                        \A i \in DOMAIN sigs :
                            /\ <<sigs[i], keys[f[i]]>> \in ValidSigs
                            /\ \A j \in DOMAIN sigs : i < j => f[i] < f[j]

(***************************************************************************)
(* The limits hold whatever the script: both stacks together, the number   *)
(* of operations with the keys of OP_CHECKMULTISIG; a skipped branch       *)
(* touches neither stack, whatever is nested in it; and a script that ends *)
(* well has closed its branches.                                           *)
(***************************************************************************)
ScriptIsLimited ==
    /\ machine.state # "failed" =>
           /\ Len(machine.stack) + Len(machine.alt) <= MaxStack
           /\ machine.count <= MaxOpCount
    /\ machine.state = "done" => machine.exec = <<>>
    /\ machine.state = "running" /\ ~IsRunning(machine) =>
           \A op \in family.ops :
               LET after == AfterOp(machine, op)
               IN  after.stack = machine.stack /\ after.alt = machine.alt

ScriptIsSound == StackOpsAsCommented /\ NumbersAreKept /\ MultisigFindsMatching /\ ScriptIsLimited

-----------------------------------------------------------------------------
(***************************************************************************)
(* Signing an input in several hands (script.cpp, rpcrawtransaction.cpp):  *)
(* cosigners sign what they can, change the transaction, sign it again and *)
(* merge what they were sent, in any order, each with hash types of their  *)
(* own.  The script that is spent is fixed; hashes are what they are of.   *)
(***************************************************************************)
CONSTANTS
    Cosigner,       \* who call signrawtransaction
    KeysOf,         \* the keys each of them has
    Redeemers,      \* those whose wallet has the redeem script
    Previous,       \* the scripts the input may spend
    Transactions,   \* [others, outs]: the other inputs with their sequence numbers, the outputs
    Indexes,        \* which input of the transaction it may be
    HashType,       \* pairs of what is said of outputs and of the other inputs
    MaxDocuments

VARIABLES
    previous,       \* the scriptPubKey of the input
    nIn,            \* the input, counted from one
    documents,      \* the transactions that go round, [tx, stack]: stack is what scriptSig pushes
    meant           \* what each key signed: the transaction as it was, and the hash type

signingVars == <<previous, nIn, documents, meant>>

\* What a scriptSig pushes.
OP_0 == [kind |-> "empty"]
Signature(key, type, digest) == [kind |-> "sig", key |-> key, type |-> type, digest |-> digest]
PubKey(key) == [kind |-> "key", key |-> key]
Redeem(script) == [kind |-> "script", script |-> script]

SigningInit ==
    /\ previous \in Previous
    /\ nIn \in Indexes
    /\ \E tx \in Transactions : documents = {[tx |-> tx, stack |-> <<>>]}
    /\ meant = {}

-----------------------------------------------------------------------------
\* Solver matches a script against the templates.  A multisignature whose counts are wrong it refuses with
\* the type and the keys already set, and CombineSignatures looks at these alone.
Solver(script) ==
    script.type = "multisig" => script.m \in 1 .. script.n /\ Len(script.keys) = script.n

\* Altered: the outputs are cut off one too early.
SignatureHash_Short(script, tx, type) ==
    LET sequences == IF type[1] = "ALL" THEN tx.others ELSE {[o EXCEPT !.sequence = 0] : o \in tx.others}
    IN  IF type[1] = "SINGLE" /\ nIn > Len(tx.outs) THEN [one |-> TRUE]
        ELSE [script |-> script, type |-> type,
              outs |-> CASE type[1] = "ALL" -> tx.outs
                         [] type[1] = "NONE" -> <<>>
                         [] type[1] = "SINGLE" -> <<>>,
              others |-> IF type[2] = "ANYONECANPAY" THEN {} ELSE sequences]

\* The blanked copy that is hashed; the number one where SIGHASH_SINGLE has no output.
SignatureHash(script, tx, type) ==
    LET sequences == IF type[1] = "ALL" THEN tx.others ELSE {[o EXCEPT !.sequence = 0] : o \in tx.others}
    IN  IF type[1] = "SINGLE" /\ nIn > Len(tx.outs) THEN [one |-> TRUE]
        ELSE [script |-> script, type |-> type,
              outs |-> CASE type[1] = "ALL" -> tx.outs
                         [] type[1] = "NONE" -> <<>>
                         [] type[1] = "SINGLE" -> <<tx.outs[nIn]>>,
              others |-> IF type[2] = "ANYONECANPAY" THEN {} ELSE sequences]

CheckSig(item, key, script, tx) ==
    /\ item.kind = "sig"
    /\ item.key = key
    /\ item.digest = SignatureHash(script, tx, item.type)

-----------------------------------------------------------------------------
(***************************************************************************)
(* VerifyScript.  A multisignature holds when signatures go with keys in   *)
(* order, which is what OP_CHECKMULTISIG finds (ScriptEval).  A count of   *)
(* keys that is too high takes the count of signatures and what lies below *)
(* for keys, and an empty item after them for no signatures; one that is   *)
(* too low takes a key for the count, which is too long for a number.      *)
(***************************************************************************)
Evaluates(stack, script, tx) ==
    LET n == Len(stack)
    IN  CASE script.type = "pubkey" -> n >= 1 /\ CheckSig(stack[n], script.key, script, tx)
          [] script.type = "pubkeyhash" ->
                n >= 2 /\ stack[n] = PubKey(script.key) /\ CheckSig(stack[n - 1], script.key, script, tx)
          [] script.type = "multisig" /\ Len(script.keys) # script.n ->
                LET short == script.n - Len(script.keys)
                IN  short > 0 /\ n > short /\ stack[n - short + 1] = OP_0
          [] script.type = "multisig" /\ Len(script.keys) = script.n ->
                /\ n > script.m
                /\ \E f \in [1 .. script.m -> DOMAIN script.keys] :
                       \A i \in 1 .. script.m :
                           /\ CheckSig(stack[n - script.m + i], script.keys[f[i]], script, tx)
                           /\ \A j \in 1 .. i - 1 : f[j] < f[i]
          [] script.type = "scripthash" -> n >= 1 /\ stack[n] = Redeem(script.of)

VerifyScript(stack, script, tx) ==
    /\ Evaluates(stack, script, tx)
    /\ script.type = "scripthash" => Evaluates(Front(stack), script.of, tx)

-----------------------------------------------------------------------------
\* The scriptSig that SignN makes: a signature of each key it has, in the order of the keys, until there are enough.
SignN(who, script, tx, type) ==
    LET own == SelectSeq(script.keys, LAMBDA key : key \in KeysOf[who])
        signers == SubSeq(own, 1, IF Len(own) < script.m THEN Len(own) ELSE script.m)
    IN  [i \in DOMAIN signers |-> Signature(signers[i], type, SignatureHash(script, tx, type))]

\* Solver with a key store.
Solved(who, script, tx, type) ==
    LET sig == Signature(script.key, type, SignatureHash(script, tx, type))
    IN  CASE ~Solver(script) -> <<>>
          [] script.type = "multisig" -> <<OP_0>> \o SignN(who, script, tx, type)
          [] script.key \notin KeysOf[who] -> <<>>
          [] script.type = "pubkey" -> <<sig>>
          [] script.type = "pubkeyhash" -> <<sig, PubKey(script.key)>>

SignSignature(who, tx, type) ==
    IF previous.type # "scripthash" THEN Solved(who, previous, tx, type)
    ELSE IF who \notin Redeemers THEN <<>>
    ELSE Append(Solved(who, previous.of, tx, type), Redeem(previous.of))

-----------------------------------------------------------------------------
\* CombineMultisig: the signatures by the keys they are of, filled up with OP_0.
CombineMultisig(script, tx, sigs1, sigs2) ==
    LET all == {item \in ToSet(sigs1) \cup ToSet(sigs2) : item # OP_0}
        signed(key) == \E sig \in all : CheckSig(sig, key, script, tx)
        keys == SelectSeq(script.keys, signed)
        taken == SubSeq(keys, 1, IF Len(keys) < script.m THEN Len(keys) ELSE script.m)
        sigOf(key) == CHOOSE sig \in all : CheckSig(sig, key, script, tx)
    IN  <<OP_0>> \o [i \in 1 .. script.m |-> IF i > Len(taken) THEN OP_0 ELSE sigOf(taken[i])]

\* Altered: what Solver refuses is taken for nonstandard.
Combine_Refused(script, tx, sigs1, sigs2) ==
    IF ~Solver(script) THEN IF Len(sigs1) >= Len(sigs2) THEN sigs1 ELSE sigs2
    ELSE IF script.type = "multisig" THEN CombineMultisig(script, tx, sigs1, sigs2)
    ELSE IF sigs1 = <<>> \/ sigs1[1] = OP_0 THEN sigs2 ELSE sigs1

\* By the type alone.
Combine(script, tx, sigs1, sigs2) ==
    IF script.type = "multisig" THEN CombineMultisig(script, tx, sigs1, sigs2)
    ELSE IF sigs1 = <<>> \/ sigs1[1] = OP_0 THEN sigs2 ELSE sigs1

\* Altered: the script is taken off one side only.
CombineSignatures_Once(tx, sigs1, sigs2) ==
    IF previous.type # "scripthash" THEN Combine(previous, tx, sigs1, sigs2)
    ELSE IF Len(sigs1) >= Len(sigs2) THEN sigs1 ELSE sigs2

CombineSignatures(tx, sigs1, sigs2) ==
    IF previous.type # "scripthash" THEN Combine(previous, tx, sigs1, sigs2)
    ELSE IF sigs1 = <<>> \/ Last(sigs1) = OP_0 THEN sigs2
    ELSE IF sigs2 = <<>> \/ Last(sigs2) = OP_0 THEN sigs1
    ELSE LET script == Last(sigs1).script
         IN  Append(Combine(script, tx, Front(sigs1), Front(sigs2)), Redeem(script))

Inner == IF previous.type = "scripthash" THEN previous.of ELSE previous
KeysIn(script) == IF script.type = "multisig" THEN ToSet(script.keys) ELSE {script.key}

\* Altered: whatever the outputs.
MaySign_Always(tx, type) == TRUE

\* Only SIGHASH_SINGLE with an output of its own is signed.
MaySign(tx, type) == type[1] # "SINGLE" \/ nIn <= Len(tx.outs)

\* The scriptSig that signrawtransaction gives: its own, merged with those of the variants in turn.
Merged(who, variants, type) ==
    LET tx == variants[1].tx
        own == IF MaySign(tx, type) THEN SignSignature(who, tx, type) ELSE <<>>
    IN  FoldLeft(LAMBDA stack, variant : CombineSignatures(tx, stack, variant.stack), own, variants)

Complete(tx, stack) == VerifyScript(stack, previous, tx)

SignRawTransaction(who, variants, type) ==
    LET tx == variants[1].tx
    IN  /\ documents' = documents \cup {[tx |-> tx, stack |-> Merged(who, variants, type)]}
        /\ Cardinality(documents') <= MaxDocuments
        /\ meant' = meant \cup {[key |-> key, tx |-> tx, type |-> type] :
                                   key \in IF MaySign(tx, type) THEN KeysOf[who] \cap KeysIn(Inner) ELSE {}}
        /\ UNCHANGED <<previous, nIn>>

\* Somebody puts a scriptSig under another transaction, or makes one.
Change(document, tx) ==
    /\ documents' = documents \cup {[document EXCEPT !.tx = tx]}
    /\ Cardinality(documents') <= MaxDocuments
    /\ UNCHANGED <<previous, nIn, meant>>

Variants == {<<d>> : d \in documents} \cup {v \in documents \X documents : v[1].tx = v[2].tx}

SigningNext ==
    \/ \E who \in Cosigner, variants \in Variants, type \in HashType : SignRawTransaction(who, variants, type)
    \/ \E document \in documents, tx \in Transactions : Change(document, tx)

SigningSpec == SigningInit /\ [][SigningNext]_signingVars

-----------------------------------------------------------------------------
\* The count of keys in a multisignature is the number of them.
IsCounted(script) == script.type = "multisig" => Len(script.keys) = script.n

Required(script) == IF ~IsCounted(script) THEN 0 ELSE IF script.type = "multisig" THEN script.m ELSE 1

\* What a hash type promises of another transaction.
AgreesWith(type, tx, other) ==
    /\ type[1] = "ALL" => tx.outs = other.outs
    /\ type[1] = "SINGLE" =>
           nIn <= Len(tx.outs) /\ nIn <= Len(other.outs) /\ tx.outs[nIn] = other.outs[nIn]
    /\ type[2] # "ANYONECANPAY" =>
           /\ {o.id : o \in tx.others} = {o.id : o \in other.others}
           /\ type[1] = "ALL" => tx.others = other.others

(***************************************************************************)
(* A transaction verifies only with as many keys as the script requires,   *)
(* each of which signed a transaction that agrees with this one in all     *)
(* that its hash type holds, whoever changed or merged it in between.      *)
(***************************************************************************)
SignersAgree ==
    \A d \in documents :
        Complete(d.tx, d.stack) =>
            LET agreeing == {key \in KeysIn(Inner) :
                                \E s \in meant : s.key = key /\ AgreesWith(s.type, s.tx, d.tx)}
            IN  Cardinality(agreeing) >= Required(Inner)

Valid(d) == {key \in KeysIn(Inner) : \E i \in DOMAIN d.stack : CheckSig(d.stack[i], key, Inner, d.tx)}
IsFresh(d) == \A i \in DOMAIN d.stack : d.stack[i].kind = "sig" => CheckSig(d.stack[i], d.stack[i].key, Inner, d.tx)

(***************************************************************************)
(* Merging two signed copies of one transaction loses no signature that is *)
(* needed, in either order: it verifies as soon as the two of them and the *)
(* merging wallet have enough keys.  This is true of a multisignature that *)
(* asks for none also, which Solver refuses and the merge fills up.        *)
(***************************************************************************)
MergingLosesNothing ==
    \A d1, d2 \in documents, who \in Cosigner :
        IsCounted(Inner) /\ d1.tx = d2.tx /\ IsFresh(d1) /\ IsFresh(d2) =>
            LET own == IF previous.type = "scripthash" /\ who \notin Redeemers THEN {} ELSE KeysOf[who] \cap KeysIn(Inner)
            IN  Cardinality(Valid(d1) \cup Valid(d2) \cup own) >= Required(Inner) =>
                    Complete(d1.tx, Merged(who, <<d1, d2>>, <<"ALL", "">>))

\* IsMine of a script: all its keys, and the redeem script.
HasKeys(who) == KeysIn(Inner) \subseteq KeysOf[who] /\ (previous.type = "scripthash" => who \in Redeemers)
IsMineScript(who) == Solver(Inner) /\ HasKeys(who)

\* ScriptSigArgsExpected and AreInputsStandard.
ArgsExpected(script) ==
    CASE script.type = "pubkey" -> 1 [] script.type = "pubkeyhash" -> 2 [] script.type = "multisig" -> script.m + 1
IsStandardInput(stack) ==
    /\ Solver(Inner)
    /\ Len(stack) = ArgsExpected(Inner) + (IF previous.type = "scripthash" THEN 1 ELSE 0)

(***************************************************************************)
(* What the wallet counts as its own it can spend without anybody, and     *)
(* what it signs the memory pool takes as standard.                        *)
(***************************************************************************)
MineIsSpendable ==
    \A who \in Cosigner, tx \in Transactions :
        IsMineScript(who) =>
            LET stack == SignSignature(who, tx, <<"ALL", "">>)
            IN  Complete(tx, stack) /\ IsStandardInput(stack)

\* And so is every transaction that was signed to the end, of a script that Solver knows.
CompletedAreStandard ==
    Solver(Inner) => \A d \in documents : Complete(d.tx, d.stack) => IsStandardInput(d.stack)

SigningIsSound == SignersAgree /\ MergingLosesNothing /\ MineIsSpendable /\ CompletedAreStandard
=============================================================================
