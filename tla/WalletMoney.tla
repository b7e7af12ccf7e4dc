---------------------------- MODULE WalletMoney -----------------------------
(***************************************************************************)
(* The money of the wallet: the choice of coins, the balances of the       *)
(* accounts, the order of the transactions, and the coins a user chooses.  *)
(***************************************************************************)
EXTENDS Integers, Sequences, FiniteSets, FiniteSetsExt, SequencesExt

-----------------------------------------------------------------------------
(***************************************************************************)
(* How the wallet pays: AvailableCoins and SelectCoins, the loop of        *)
(* CWallet::CreateTransaction that raises the fee until it is enough, and  *)
(* CWallet::CreateCoinStake.  The subset that ApproximateBestSubset finds  *)
(* is random; here it is any that its search may end with.  Signing does   *)
(* not fail and no transaction is too large.                               *)
(***************************************************************************)
CONSTANTS
    Coin,           \* outputs of wallet transactions
    Value, Time,    \* of a coin: nValue, nTime of its transaction
    Depth,          \* GetDepthInMainChain() of its transaction
    FromMe,         \* the coins of transactions the wallet sent
    Immature,       \* the coins of generated transactions that GetBlocksToMaturity holds back
    Confirmed,      \* the coins of transactions for which IsConfirmed() holds
    Key,            \* the key of a coin's scriptPubKey
    Parent,         \* the transaction a coin is an output of
    Cent,           \* CENT, MIN_TX_FEE and MIN_TXOUT_AMOUNT
    TransactionFees, \* what nTransactionFee may be set to
    KiloByte,       \* the size a fee unit pays for, in inputs and outputs
    Payments,       \* the values to send
    Picks,          \* the selections of coin control, {} for none
    SpendTime,      \* nTime of what is made
    Aged,           \* coins older than nStakeMinAge
    SplitAge,       \* coins younger than nStakeSplitAge
    MaxAge,         \* coins older than nStakeMaxAge
    CombineThreshold, MaxStakeInputs,
    Reserves,       \* what -reservebalance may be
    Reward          \* what GetProofOfStakeReward pays for any coin age

VARIABLES
    coins,          \* the unspent coins of mapWallet
    job,            \* what was asked for
    fee,            \* nFeeRet
    reserved,       \* whether reservekey holds a key
    result          \* the transaction so far: its inputs and outputs, or how the job ended

spendVars == <<coins, job, fee, reserved, result>>

Nothing == [state |-> "none", in |-> {}, change |-> 0]

SpendInit ==
    /\ coins \in SUBSET Coin
    /\ job = [kind |-> "none"] /\ fee = 0 /\ reserved = FALSE /\ result = Nothing

Total(set) == MapThenSumSet(LAMBDA c : Value[c], set)

-----------------------------------------------------------------------------
\* Altered: a generated coin need not be mature.
AvailableCoins_Immature(picked) ==
    {c \in coins : c \in Confirmed /\ Value[c] > 0 /\ (picked = {} \/ c \in picked)}

AvailableCoins(picked) ==
    {c \in coins : c \in Confirmed /\ c \notin Immature /\ Value[c] > 0 /\ (picked = {} \/ c \in picked)}

\* The subsets a search for target may end with: the last coin in was needed.
ApproximateBestSubset(small, target) ==
    {small} \cup {set \in SUBSET small : Total(set) >= target /\ \E c \in set : Total(set \ {c}) < target}

Eligible(mine, theirs, from) ==
    {c \in from : Depth[c] >= (IF c \in FromMe THEN mine ELSE theirs) /\ Time[c] <= SpendTime}

\* Altered: the lowest larger coin is taken only when it is closer.
SelectCoinsMinConf_Closer(target, mine, theirs, from) ==
    LET all == Eligible(mine, theirs, from)
        small == {c \in all : Value[c] < target + Cent}
        large == all \ small
        lowest == {{c} : c \in {l \in large : \A k \in large : Value[l] <= Value[k]}}
    IN  IF Total(small) < target THEN lowest ELSE ApproximateBestSubset(small, target)

\* Every set that SelectCoinsMinConf may return; there is none when it fails.
SelectCoinsMinConf(target, mine, theirs, from) ==
    LET all == Eligible(mine, theirs, from)
        small == {c \in all : Value[c] < target + Cent}
        large == all \ small
        lowest == {{c} : c \in {l \in large : \A k \in large : Value[l] <= Value[k]}}
        wanted == IF Total(small) >= target + Cent THEN {target, target + Cent} ELSE {target}
        \* A second search follows one that is not exact.
        found == {set \in UNION {ApproximateBestSubset(small, t) : t \in wanted} :
                     Total(set) = target \/ Total(set) >= Max(wanted)}
        keeps(set) ==
            \/ large = {}
            \/ ~(Total(set) # target /\ Total(set) < target + Cent) /\ \A l \in large : Value[l] > Total(set)
    IN  IF \E c \in all : Value[c] = target THEN {{c} : c \in {x \in all : Value[x] = target}}
        ELSE IF Total(small) = target THEN {small}
        ELSE IF Total(small) < target THEN lowest
        ELSE {set \in found : keeps(set)} \cup (IF \E set \in found : ~keeps(set) THEN lowest ELSE {})

SelectCoins(target, picked) ==
    LET from == AvailableCoins(picked)
        try1 == SelectCoinsMinConf(target, 1, 6, from)
        try2 == SelectCoinsMinConf(target, 1, 1, from)
    IN  IF picked # {} THEN IF Total(from) >= target THEN {from} ELSE {}
        ELSE IF try1 # {} THEN try1
        ELSE IF try2 # {} THEN try2
        ELSE SelectCoinsMinConf(target, 0, 1, from)

-----------------------------------------------------------------------------
(***************************************************************************)
(* CreateTransaction.                                                      *)
(***************************************************************************)
\* Altered: GetMinFee without the number of bytes, as it is declared by default.
NeededFee_NoBytes(in, outs) == Max({job.fee, Cent})

\* The fee for a transaction: nPayFee and GetMinFee.
NeededFee(in, outs) == Max({job.fee, Cent}) * (1 + (Cardinality(in) + outs) \div KiloByte)

\* Altered: change of less than a cent is kept.
Spare_Dust(left) == [fee |-> fee, change |-> left]

\* What is left over goes to the fee when it is too little.
Spare(left) ==
    LET raised == IF fee < Cent /\ left \in 1 .. Cent - 1 THEN Min({left, Cent - fee}) ELSE 0
        rest == left - raised
    IN  IF rest \in 1 .. Cent - 1 THEN [fee |-> fee + left, change |-> 0]
        ELSE [fee |-> fee + raised, change |-> rest]

Pay(value, picked, newFee) ==
    /\ result.state = "none"
    /\ job' = [kind |-> "pay", value |-> value, picked |-> picked, fee |-> newFee]
    /\ fee' = newFee /\ result' = [result EXCEPT !.state = "choosing"]
    /\ UNCHANGED <<coins, reserved>>

\* Altered: the fee that was not enough is not raised.
Choose_SameFee(set) ==
    LET spare == Spare(Total(set) - job.value - fee)
        outs == IF spare.change > 0 THEN 2 ELSE 1
    IN  /\ reserved' = (spare.change > 0)
        /\ fee' = spare.fee
        /\ result' = [state |-> IF spare.fee < NeededFee(set, outs) THEN "choosing" ELSE "made",
                      in |-> set, change |-> spare.change]

Choose(set) ==
    LET spare == Spare(Total(set) - job.value - fee)
        outs == IF spare.change > 0 THEN 2 ELSE 1
        needed == NeededFee(set, outs)
    IN  /\ reserved' = (spare.change > 0)
        /\ fee' = Max({spare.fee, needed})
        /\ result' = [state |-> IF spare.fee < needed THEN "choosing" ELSE "made", in |-> set, change |-> spare.change]

CreateTransaction ==
    /\ result.state = "choosing"
    /\ LET sets == SelectCoins(job.value + fee, job.picked)
       IN  \/ sets = {} /\ result' = [result EXCEPT !.state = "failed"] /\ UNCHANGED <<fee, reserved>>
           \/ \E set \in sets : Choose(set)
    /\ UNCHANGED <<coins, job>>

-----------------------------------------------------------------------------
(***************************************************************************)
(* CreateCoinStake, for one of the kernels that may be found.              *)
(***************************************************************************)
GetBalance == Total({c \in coins : c \in Confirmed /\ c \notin Immature})

\* Altered: the reserve is not looked at again.
Combined_NoReserve(kernel, order, room) ==
    LET more == {c \in ToSet(order) : Key[c] = Key[kernel] /\ Parent[c] # Parent[kernel] /\ c \in MaxAge
                                        /\ Value[c] <= CombineThreshold}
    IN  [in |-> {kernel} \cup more, credit |-> Total({kernel} \cup more), ended |-> FALSE]

\* The second loop over the coins selected: [in, credit, ended].
Combined(kernel, order, room) ==
    LET add(s, c) ==
            IF s.ended \/ Key[c] # Key[kernel] \/ Parent[c] = Parent[kernel] THEN s
            ELSE IF Cardinality(s.in) >= MaxStakeInputs \/ s.credit > CombineThreshold \/ s.credit + Value[c] > room
                 THEN [s EXCEPT !.ended = TRUE]
            ELSE IF Value[c] > CombineThreshold \/ c \notin MaxAge THEN s
            ELSE [s EXCEPT !.in = @ \cup {c}, !.credit = @ + Value[c]]
    IN  FoldLeft(add, [in |-> {kernel}, credit |-> Value[kernel], ended |-> FALSE], order)

\* The values of the outputs after the empty one.
StakeOutputs(kernel, stake) ==
    LET credit == stake.credit + Reward
        half == ((credit \div 2) \div Cent) * Cent
    IN  IF kernel \in SplitAge THEN <<half, credit - half>> ELSE <<credit>>

CreateCoinStake(reserve) ==
    /\ result.state = "none"
    /\ GetBalance > reserve
    /\ LET room == GetBalance - reserve
       IN  \E set \in SelectCoins(room, {}) : \E kernel \in set \cap Aged, order \in SetToSeqs(set) :
               LET one == [in |-> {kernel}, credit |-> Value[kernel], ended |-> TRUE]
                   stake == IF kernel \in SplitAge THEN one ELSE Combined(kernel, order, room)
               IN  /\ Value[kernel] <= room
                   /\ job' = [kind |-> "stake", reserve |-> reserve, kernel |-> kernel]
                   /\ result' = [state |-> "made", in |-> stake.in, outs |-> StakeOutputs(kernel, stake)]
    /\ UNCHANGED <<coins, fee, reserved>>

SpendNext ==
    \/ \E value \in Payments, picked \in Picks, newFee \in TransactionFees : Pay(value, picked, newFee)
    \/ CreateTransaction
    \/ \E reserve \in Reserves : CreateCoinStake(reserve)

SpendSpec == SpendInit /\ [][SpendNext]_spendVars /\ WF_spendVars(CreateTransaction)

-----------------------------------------------------------------------------
Paid == job.kind = "pay" /\ result.state = "made"

(***************************************************************************)
(* No money is lost in the rounds of the loop, which change the coins, the *)
(* fee and the change each time: what goes in goes to the payee, back, or  *)
(* to the fee, the fee is enough for the transaction as it is at the end,  *)
(* no change is below MIN_TXOUT_AMOUNT, there is a key for the change, and *)
(* no coin is spent that is not mature or not confirmed.                   *)
(***************************************************************************)
PaymentAddsUp ==
    Paid =>
        /\ Total(result.in) = job.value + result.change + fee
        /\ result.in \subseteq Confirmed \ Immature
        /\ LET size == Cardinality(result.in) + (IF result.change > 0 THEN 2 ELSE 1)
           IN  \A unit \in {job.fee, Cent} : fee - unit >= unit * (size \div KiloByte)
        /\ result.change = 0 \/ result.change >= Cent
        /\ reserved = (result.change > 0)
        /\ job.picked # {} => result.in = AvailableCoins(job.picked)

(***************************************************************************)
(* A payment fails only when the coins that may be spent are not enough    *)
(* for it and its fee, whichever coins the rounds before had chosen.       *)
(***************************************************************************)
MoneySuffices ==
    job.kind = "pay" /\ result.state = "failed" =>
        LET from == AvailableCoins(job.picked)
        IN  Total(IF job.picked = {} THEN Eligible(0, 1, from) ELSE from) < job.value + fee

(***************************************************************************)
(* SelectCoinsMinConf finds enough whenever there is enough, and leaves no *)
(* change of less than a cent unless all it has would leave that.          *)
(***************************************************************************)
SelectionIsTidy ==
    result.state = "choosing" =>
        LET target == job.value + fee
            from == AvailableCoins({})
        IN  \A depth \in {<<1, 6>>, <<1, 1>>, <<0, 1>>} :
                LET sets == SelectCoinsMinConf(target, depth[1], depth[2], from)
                    all == Eligible(depth[1], depth[2], from)
                IN  /\ sets = {} <=> Total(all) < target
                    /\ \A set \in sets :
                        /\ set \subseteq all /\ Total(set) >= target
                        /\ Total(set) = target \/ Total(set) >= target + Cent \/ Total(all) < target + Cent

(***************************************************************************)
(* The minter leaves the reserve alone: what it stakes is no more than the *)
(* balance above it, all for one key, and it adds up with the reward.      *)
(***************************************************************************)
StakeKeepsReserve ==
    job.kind = "stake" =>
        /\ Total(result.in) <= GetBalance - job.reserve
        /\ FoldLeft(LAMBDA x, y : x + y, 0, result.outs) = Total(result.in) + Reward
        /\ \A c \in result.in : Key[c] = Key[job.kernel] /\ Time[c] <= SpendTime /\ c \in Confirmed \ Immature
        /\ Len(result.outs) = 2 => result.in = {job.kernel} /\ result.outs[2] >= result.outs[1]

SpendingIsRight == PaymentAddsUp /\ MoneySuffices /\ SelectionIsTidy /\ StakeKeepsReserve

\* The loop of CreateTransaction ends: each round that goes on has raised the fee.
PaymentEnds == result.state = "choosing" ~> result.state \in {"made", "failed"}

-----------------------------------------------------------------------------
(***************************************************************************)
(* The accounts of the JSON-RPC wallet (rpcwallet.cpp): what a wallet      *)
(* transaction means to them (CWalletTx::GetAmounts, GetAccountAmounts),   *)
(* the balances that getbalance, getbalance "*" and listaccounts report,   *)
(* and the calls that change them.  Blocks come and none is disconnected.  *)
(***************************************************************************)
CONSTANTS
    Account,        \* account names, "" among them
    Address,        \* addresses the wallet may have given out
    Amounts,        \* what is sent and received
    TxFee,          \* the fee of every payment
    Maturity,       \* nCoinbaseMaturity + 20
    Generated,      \* what a coinbase pays; a coinstake earns 1
    Staking,        \* whether the wallet mints
    MaxWalletTx, MaxMoves

VARIABLES
    wtxs,           \* mapWallet, in the order of arrival
    mapAddressBook, \* [Address -> Account \cup {"none"}]
    acentries,      \* per account, the sum of its CAccountingEntry records
    moves           \* history: the calls of move and setaccount

accountVars == <<wtxs, mapAddressBook, acentries, moves>>

AccountsInit ==
    /\ wtxs = <<>> /\ moves = 0
    /\ mapAddressBook = [a \in Address |-> "none"]
    /\ acentries = [a \in Account |-> 0]

-----------------------------------------------------------------------------
Txs == 1 .. Len(wtxs)
SumOf(f(_), set) == MapThenSumSet(f, set)

\* Addresses are the wallet's own but "theirs"; "own" is never in the book (change, mining).
IsMine(address) == address # "theirs"
InBook(address) == address \in Address /\ mapAddressBook[address] # "none"

IsGenerated(t) == wtxs[t].kind \in {"base", "stake"}
Debit(t) == SumOf(LAMBDA coin : wtxs[coin[1]].outs[coin[2]].value, wtxs[t].in)
OutsOf(t) == DOMAIN wtxs[t].outs
IsSpent(t, o) == \E s \in Txs : <<t, o>> \in wtxs[s].in
CreditOf(t, outs) == SumOf(LAMBDA o : wtxs[t].outs[o].value, {o \in outs : IsMine(wtxs[t].outs[o].to)})
IsMature(t) == wtxs[t].depth >= Maturity

\* Altered: change counts as sent.
IsChange_Never(t, o) == FALSE

IsChange(t, o) == IsMine(wtxs[t].outs[o].to) /\ ~InBook(wtxs[t].outs[o].to)

\* GetAmounts: the mature generation, the fee, the outputs sent and those received.
GetAmounts(t) ==
    IF IsGenerated(t)
    THEN [mature |-> IF IsMature(t) THEN CreditOf(t, OutsOf(t)) ELSE 0, fee |-> 0, sent |-> {}, received |-> {}]
    ELSE LET debit == Debit(t)
             shown == {o \in OutsOf(t) : ~(debit > 0 /\ IsChange(t, o))}
         IN  [mature |-> 0,
              fee |-> IF debit > 0 THEN debit - SumOf(LAMBDA o : wtxs[t].outs[o].value, OutsOf(t)) ELSE 0,
              sent |-> IF debit > 0 THEN shown ELSE {},
              received |-> {o \in shown : IsMine(wtxs[t].outs[o].to)}]

Worth(t, outs) == SumOf(LAMBDA o : wtxs[t].outs[o].value, outs)

\* The account an output is for.
AccountOf(t, o) == IF InBook(wtxs[t].outs[o].to) THEN mapAddressBook[wtxs[t].outs[o].to] ELSE ""

\* What GetAccountAmounts and GetAccountBalance make of a transaction.
OfAccount(t, account, depth) ==
    LET amounts == GetAmounts(t)
        mine == {o \in amounts.received : AccountOf(t, o) = account}
        isSender == wtxs[t].account = account
    IN  (IF account = "" \/ isSender THEN amounts.mature ELSE 0)
            - (IF isSender THEN Worth(t, amounts.sent) + amounts.fee ELSE 0)
            + (IF wtxs[t].depth >= depth THEN Worth(t, mine) ELSE 0)

GetAccountBalance(account, depth) ==
    SumOf(LAMBDA t : OfAccount(t, account, depth), Txs) + acentries[account]

\* getbalance "*".
StarBalance(depth) ==
    SumOf(LAMBDA t : LET amounts == GetAmounts(t)
                     IN  amounts.mature - Worth(t, amounts.sent) - amounts.fee
                            + (IF wtxs[t].depth >= depth THEN Worth(t, amounts.received) ELSE 0), Txs)

\* Altered: only what the sender's account holds pays its fees.
ListAccounts_NoFee(depth) ==
    [account \in Account |->
        acentries[account] + SumOf(LAMBDA t :
            LET amounts == GetAmounts(t)
            IN  (IF wtxs[t].depth >= depth THEN Worth(t, {o \in amounts.received : AccountOf(t, o) = account}) ELSE 0)
                  - (IF wtxs[t].account = account THEN Worth(t, amounts.sent) ELSE 0), Txs)]

\* listaccounts.
ListAccounts(depth) ==
    [account \in Account |->
        acentries[account] + SumOf(LAMBDA t :
            LET amounts == GetAmounts(t)
            IN  (IF wtxs[t].depth >= depth
                 THEN Worth(t, {o \in amounts.received : AccountOf(t, o) = account})
                        + (IF account = "" THEN amounts.mature ELSE 0)
                 ELSE 0)
                  - (IF wtxs[t].account = account THEN Worth(t, amounts.sent) + amounts.fee ELSE 0), Txs)]

\* IsConfirmed of own payments: what they spend is confirmed.
ConfirmedTxs == LET confirmed[t \in Txs] ==
                    wtxs[t].depth >= 1 \/ (Debit(t) > 0 /\ \A coin \in wtxs[t].in : confirmed[coin[1]])
             IN  {t \in Txs : confirmed[t]}

Unspent(t) == {o \in OutsOf(t) : IsMine(wtxs[t].outs[o].to) /\ ~IsSpent(t, o)}

\* getbalance without an argument, CWallet::GetBalance.
GetWalletBalance ==
    SumOf(LAMBDA t : CreditOf(t, Unspent(t)), {t \in ConfirmedTxs : IsGenerated(t) => IsMature(t)})

Spendable == {coin \in ConfirmedTxs \X {1, 2} :
    coin[2] \in Unspent(coin[1]) /\ (IsGenerated(coin[1]) => IsMature(coin[1]))}

-----------------------------------------------------------------------------
AddTx(tx) == Len(wtxs) < MaxWalletTx /\ wtxs' = Append(wtxs, tx)

\* getnewaddress.
GetNewAddress(address, account) ==
    /\ mapAddressBook[address] = "none"
    /\ mapAddressBook' = [mapAddressBook EXCEPT ![address] = account]
    /\ UNCHANGED <<wtxs, acentries, moves>>

\* setaccount of an address of the book.
SetAccount(address, account) ==
    /\ mapAddressBook[address] \notin {"none", account}
    /\ mapAddressBook' = [mapAddressBook EXCEPT ![address] = account]
    /\ moves < MaxMoves /\ moves' = moves + 1
    /\ UNCHANGED <<wtxs, acentries>>

Receive(address, amount) ==
    /\ InBook(address)
    /\ AddTx([kind |-> "user", account |-> "", in |-> {}, outs |-> <<[value |-> amount, to |-> address]>>, depth |-> 0])
    /\ UNCHANGED <<mapAddressBook, acentries, moves>>

Mine ==
    /\ AddTx([kind |-> "base", account |-> "", in |-> {}, outs |-> <<[value |-> Generated, to |-> "own"]>>, depth |-> 1])
    /\ UNCHANGED <<mapAddressBook, acentries, moves>>

Mint(coin) ==
    /\ Staking /\ coin \in Spendable /\ wtxs[coin[1]].depth >= 1
    /\ LET out == wtxs[coin[1]].outs[coin[2]]
       IN  AddTx([kind |-> "stake", account |-> "", in |-> {coin}, outs |-> <<[out EXCEPT !.value = @ + 1]>>, depth |-> 1])
    /\ UNCHANGED <<mapAddressBook, acentries, moves>>

SendFrom(account, to, amount, depth, coin) ==
    /\ InBook(to) \/ to = "theirs"
    /\ amount <= GetAccountBalance(account, depth)
    /\ coin \in Spendable
    /\ LET change == wtxs[coin[1]].outs[coin[2]].value - amount - TxFee
           pay == <<[value |-> amount, to |-> to]>>
       IN  /\ change >= 0
           /\ AddTx([kind |-> "user", account |-> account, in |-> {coin}, depth |-> 0,
                     outs |-> IF change = 0 THEN pay ELSE Append(pay, [value |-> change, to |-> "own"])])
    /\ UNCHANGED <<mapAddressBook, acentries, moves>>

Move(from, to, amount) ==
    /\ acentries' = [acentries EXCEPT ![from] = @ - amount, ![to] = @ + amount]
    /\ moves < MaxMoves /\ moves' = moves + 1
    /\ UNCHANGED <<wtxs, mapAddressBook>>

\* A block on the best chain takes in the transactions that wait.
NextBlock ==
    /\ wtxs' = [t \in Txs |-> [wtxs[t] EXCEPT !.depth = Min({@ + 1, Maturity})]]
    /\ UNCHANGED <<mapAddressBook, acentries, moves>>

AccountsNext ==
    \/ \E address \in Address, account \in Account : GetNewAddress(address, account) \/ SetAccount(address, account)
    \/ \E address \in Address, amount \in Amounts : Receive(address, amount)
    \/ \E account \in Account, to \in Address \cup {"theirs"}, amount \in Amounts, depth \in {0, 1}, coin \in Spendable :
           SendFrom(account, to, amount, depth, coin)
    \/ \E from, to \in Account, amount \in Amounts : from # to /\ Move(from, to, amount)
    \/ Mine \/ NextBlock \/ \E coin \in Spendable : Mint(coin)

AccountsSpec == AccountsInit /\ [][AccountsNext]_accountVars

-----------------------------------------------------------------------------
(***************************************************************************)
(* The three ways to add up the accounts agree: getbalance of an account   *)
(* is what listaccounts says, and the accounts together hold what          *)
(* getbalance "*" says, wherever addresses and money were moved to.        *)
(***************************************************************************)
AccountsAddUp ==
    \A depth \in {0, 1} :
        /\ \A account \in Account : GetAccountBalance(account, depth) = ListAccounts(depth)[account]
        /\ SumOf(LAMBDA account : ListAccounts(depth)[account], Account) = StarBalance(depth)

(***************************************************************************)
(* "getbalance and getbalance '*' should always return the same number":   *)
(* so they do when everything is in a block and the wallet never minted.   *)
(***************************************************************************)
BalancesAgree ==
    (\A t \in Txs : wtxs[t].depth >= 1 /\ wtxs[t].kind # "stake") => StarBalance(1) = GetWalletBalance

(***************************************************************************)
(* sendfrom lets an account run short by a fee and no more, unless money   *)
(* or addresses were moved away from it.                                   *)
(***************************************************************************)
SendsAreCovered ==
    moves = 0 => \A account \in Account : GetAccountBalance(account, 0) >= -TxFee

AccountsAreRight == AccountsAddUp /\ BalancesAgree /\ SendsAreCovered

(***************************************************************************)
(* The words of rpcwallet.cpp as they stand, for a wallet all of whose     *)
(* transactions are in blocks.  A coinstake breaks them: GetAmounts counts *)
(* all of its output as generated and nothing of what it spent.            *)
(***************************************************************************)
StarIsBalance == (\A t \in Txs : wtxs[t].depth >= 1) => StarBalance(1) = GetWalletBalance

-----------------------------------------------------------------------------
(***************************************************************************)
(* The order in which a wallet lists its transactions and the internal     *)
(* transfers between its accounts: nOrderPos and nOrderPosNext (wallet.cpp *)
(* and walletdb.cpp), the order that LoadWallet gives to what an old       *)
(* wallet stored without one, and the pages of "listtransactions"          *)
(* (rpcwallet.cpp).                                                        *)
(***************************************************************************)
CONSTANTS
    OldWallets,   \* the files to begin with: sequences of items
    Shown,        \* [item's place -> the accounts of its lines in a listing]
    OrderTimes,   \* what GetAdjustedTime may say; it may step back
    MaxItems, MaxStarts

VARIABLES
    walletdat,        \* the records of wallet.dat; a transfer has an account, a transaction has "tx"
    orderposnext,     \* its record of that name, 0 if there is none
    nOrderPos,        \* what the running node has in memory: [transaction -> place]
    nOrderPosNext,
    open,             \* the wallet is loaded
    starts,           \* history
    sound,            \* history: no start has met one of the gaps of ReorderTransactions
    listed            \* history: the last listing of the session before

placeVars == <<walletdat, orderposnext, nOrderPos, nOrderPosNext, open, starts, sound, listed>>

Unordered == -1
Item(account, time, pos) == [account |-> account, time |-> time, pos |-> pos]

-----------------------------------------------------------------------------
\* What a sorted multimap does with equal keys: the transactions come first, both in their order.
Before(file, i, j) == IF (file[i].account = "tx") # (file[j].account = "tx") THEN file[i].account = "tx" ELSE i < j

SortedBy(file, items, key) ==
    SetToSortSeq(items, LAMBDA i, j : key[i] < key[j] \/ (key[i] = key[j] /\ Before(file, i, j)))

TransactionsOf(file) == {i \in DOMAIN file : file[i].account = "tx"}

\* ListAccountCreditDebit, where "*" stands for every account and "" is an account.
ListAccountCreditDebit(file, account) ==
    {i \in DOMAIN file : file[i].account # "tx" /\ (account = "*" \/ file[i].account = account)}

(***************************************************************************)
(* ReorderTransactions: by time, an item without a place gets the next     *)
(* one, and one that has a place makes room for those that got one before  *)
(* it.  Only a transaction's new place is not written to the file.         *)
(***************************************************************************)
Place_ForgetsNext(state, i) ==
    IF state.pos[i] = Unordered
    THEN [state EXCEPT !.pos[i] = state.next, !.next = @ + 1, !.offsets = Append(@, state.next)]
    ELSE [state EXCEPT !.pos[i] = @ + Len(SelectSeq(state.offsets, LAMBDA o : state.pos[i] >= o))]
Place(state, i) ==
    LET off == Len(SelectSeq(state.offsets, LAMBDA o : state.pos[i] >= o))
        place == state.pos[i] + off
    IN  IF state.pos[i] = Unordered
        THEN [state EXCEPT !.pos[i] = state.next, !.next = @ + 1, !.offsets = Append(@, state.next)]
        ELSE [state EXCEPT !.pos[i] = place, !.next = IF place + 1 > @ THEN place + 1 ELSE @]

ReorderTransactions(file) ==
    FoldLeft(Place, [pos |-> [i \in DOMAIN file |-> file[i].pos], next |-> 0, offsets |-> <<>>],
             SortedBy(file, TransactionsOf(file) \cup ListAccountCreditDebit(file, ""),
                      [i \in DOMAIN file |-> file[i].time]))

AnyUnordered(file) == \E i \in DOMAIN file : file[i].pos = Unordered

\* The listing of the session before was in the order of time.
InTime ==
    \A k, l \in DOMAIN listed : k < l =>
        \/ walletdat[listed[k]].time < walletdat[listed[l]].time
        \/ walletdat[listed[k]].time = walletdat[listed[l]].time /\ {listed[k], listed[l]} \cap TransactionsOf(walletdat) = {}

OpenWallet ==
    LET reordered == ReorderTransactions(walletdat)
        kept(i) == walletdat[i].account = "tx" /\ walletdat[i].pos = Unordered
    IN  /\ ~open /\ starts < MaxStarts
        /\ open' = TRUE /\ starts' = starts + 1
        /\ sound' = (sound /\ IF AnyUnordered(walletdat)
                              THEN InTime /\ ListAccountCreditDebit(walletdat, "*") = ListAccountCreditDebit(walletdat, "")
                              ELSE \A i \in DOMAIN walletdat : walletdat[i].pos < orderposnext)
        /\ IF AnyUnordered(walletdat)
           THEN /\ nOrderPos' = [i \in TransactionsOf(walletdat) |-> reordered.pos[i]]
                /\ nOrderPosNext' = reordered.next
                /\ walletdat' = [i \in DOMAIN walletdat |->
                                    IF kept(i) THEN walletdat[i] ELSE [walletdat[i] EXCEPT !.pos = reordered.pos[i]]]
           ELSE /\ nOrderPos' = [i \in TransactionsOf(walletdat) |-> walletdat[i].pos]
                /\ nOrderPosNext' = orderposnext
                /\ UNCHANGED walletdat
        /\ UNCHANGED <<orderposnext, listed>>

-----------------------------------------------------------------------------
\* IncOrderPosNext writes the number behind the one it gives.
AddToWallet(time) ==
    /\ open /\ Len(walletdat) < MaxItems
    /\ walletdat' = Append(walletdat, Item("tx", time, nOrderPosNext))
    /\ nOrderPos' = [i \in DOMAIN nOrderPos \cup {Len(walletdat) + 1} |->
                        IF i \in DOMAIN nOrderPos THEN nOrderPos[i] ELSE nOrderPosNext]
    /\ nOrderPosNext' = nOrderPosNext + 1 /\ orderposnext' = nOrderPosNext + 1
    /\ UNCHANGED <<open, starts, sound, listed>>

\* movecmd: the debit and the credit.
MoveCoins(from, to, time) ==
    /\ open /\ Len(walletdat) + 2 <= MaxItems
    /\ walletdat' = walletdat \o <<Item(from, time, nOrderPosNext), Item(to, time, nOrderPosNext + 1)>>
    /\ nOrderPosNext' = nOrderPosNext + 2 /\ orderposnext' = nOrderPosNext + 2
    /\ UNCHANGED <<nOrderPos, open, starts, sound, listed>>

-----------------------------------------------------------------------------
\* The place by which OrderedTxItems sorts: of a transaction in memory, of a transfer in the file.
PlaceOf(i) == IF walletdat[i].account = "tx" THEN nOrderPos[i] ELSE walletdat[i].pos

OrderedTxItems(account) ==
    SortedBy(walletdat, TransactionsOf(walletdat) \cup ListAccountCreditDebit(walletdat, account),
             [i \in DOMAIN walletdat |-> PlaceOf(i)])

\* ListTransactions and AcentryToJSON: the lines of an item for an account.
LinesOf(i, account) ==
    LET accounts == IF walletdat[i].account = "tx" THEN Shown[i] ELSE <<walletdat[i].account>>
        lines == [k \in DOMAIN accounts |-> [item |-> i, line |-> k, account |-> accounts[k]]]
    IN  SelectSeq(lines, LAMBDA l : account = "*" \/ l.account = account)

\* Newest first, until there are enough.
Collect(account, enough) ==
    FoldLeft(LAMBDA ret, i : IF Len(ret) >= enough THEN ret ELSE ret \o LinesOf(i, account),
             <<>>, Reverse(OrderedTxItems(account)))

\* listtransactions: lines from + 1 to from + count, oldest first.
Page_Untrimmed(ret, count, from) == Reverse(SubSeq(ret, from + 1, Len(ret)))
Page(ret, count, from) == Reverse(SubSeq(ret, from + 1, IF from + count > Len(ret) THEN Len(ret) ELSE from + count))

listtransactions(account, count, from) ==
    LET ret == Collect(account, count + from)
    IN  Page(ret, count, IF from > Len(ret) THEN Len(ret) ELSE from)

\* WriteToDisk, when an output is marked as spent or the transaction gets its block.
WriteTransaction(i) ==
    /\ open /\ i \in DOMAIN nOrderPos
    /\ walletdat' = [walletdat EXCEPT ![i].pos = nOrderPos[i]]
    /\ UNCHANGED <<orderposnext, nOrderPos, nOrderPosNext, open, starts, sound, listed>>

StopWallet ==
    /\ open /\ open' = FALSE
    /\ listed' = OrderedTxItems("*")
    /\ nOrderPos' = <<>> /\ nOrderPosNext' = 0
    /\ UNCHANGED <<walletdat, orderposnext, starts, sound>>

OrderInit ==
    /\ walletdat \in OldWallets /\ orderposnext = 0
    /\ nOrderPos = <<>> /\ nOrderPosNext = 0 /\ open = FALSE /\ starts = 0
    /\ sound = TRUE /\ listed = <<>>

OrderNext ==
    \/ OpenWallet \/ StopWallet
    \/ \E i \in DOMAIN walletdat : WriteTransaction(i)
    \/ \E time \in OrderTimes :
        AddToWallet(time) \/ \E from, to \in {"", "x"} : from # to /\ MoveCoins(from, to, time)

-----------------------------------------------------------------------------
\* No two items share a place, and the next number is free, unless a wallet that is ordered anew
\* has transfers of other accounts than "" (which ReorderTransactions leaves out), or all its items
\* had got places and the next number, which ReorderTransactions does not write, was lost, or the
\* clock was set back before.
PlacesAreDistinct ==
    open /\ sound =>
    \A i, j \in DOMAIN walletdat :
        /\ PlaceOf(i) \in 0 .. nOrderPosNext - 1
        /\ PlaceOf(i) = PlaceOf(j) => i = j

\* A listing keeps its order over a restart ("Probably a bad idea to change the output of this",
\* walletdb.cpp:116), with the same exceptions.
OrderStays ==
    open /\ sound =>
        SelectSeq(OrderedTxItems("*"), LAMBDA i : i \in ToSet(listed)) = listed

\* Pages of any size show each line once, in order, and the listing of an account is what the
\* listing of all shows of it.
PagesAreWhole ==
    open =>
    LET lines == Collect("*", 1000)
    IN  /\ \A count \in 1 .. 3 :
            Len(lines) <= 3 * count =>
                listtransactions("*", count, 2 * count) \o listtransactions("*", count, count)
                    \o listtransactions("*", count, 0) = Reverse(lines)
        /\ \A account \in {"", "x"} :
            Collect(account, 1000) = SelectSeq(lines, LAMBDA l : l.account = account)

OrderIsRight == PlacesAreDistinct /\ OrderStays /\ PagesAreWhole

\* IncOrderPosNext gives a place that is free, after any number of starts (walletdb.cpp:115-118).
PlacesAreAlwaysDistinct ==
    open => \A i, j \in DOMAIN walletdat : PlaceOf(i) = PlaceOf(j) => i = j \/ walletdat[i].account = "x"

-----------------------------------------------------------------------------
(***************************************************************************)
(* Choosing the coins of a payment (qt/coincontroldialog.cpp,              *)
(* coincontrol.h, qt/sendcoinsdialog.cpp): a selection and labels that     *)
(* outlive the dialog, beside a wallet whose coins the minter spends and   *)
(* whose fee the RPC sets.  The labels compute amount, fee and change by   *)
(* arithmetic of their own; CreateTransaction computes them again.         *)
(* One payment is one recipient; a signature has its usual size.           *)
(***************************************************************************)
CONSTANTS
    Coins, CoinValue,
    InputBytes,         \* [coin -> 148, or 180 when its key is not compressed]
    PreviousCoin,       \* [coin -> the coin its transaction's first input spends, or 0]
    ChangeCoins,        \* the coins on an address that is not in the address book
    CoinAddress,
    BytesPerFee,        \* the bytes one fee pays for (1000)
    CentValue,          \* CENT, MIN_TX_FEE and MIN_TXOUT_AMOUNT
    TxFees, PayAmounts,
    MaxClicks           \* bound: what the user, the minter and the RPC do

VARIABLES
    unspent,            \* what AvailableCoins finds; every coin stays in mapWallet
    nTransactionFee,
    fCoinControlFeatures,
    setSelected,
    payAmount,          \* what the form asks for; 0 when it is empty
    labels,             \* the numbers of the frame, <<>> while it says "automatically selected"
    shownCoins,             \* the coins the open dialog shows, {} when there is none
    paid,               \* history: the last payment
    fresh,              \* history: nothing changed behind the labels' back
    clicks

controlVars == <<unspent, nTransactionFee, fCoinControlFeatures, setSelected, payAmount, labels,
                 shownCoins, paid, fresh, clicks>>

LargerOf(a, b) == IF a > b THEN a ELSE b
WorthOf(chosen) == MapThenSumSet(LAMBDA c : CoinValue[c], chosen)

-----------------------------------------------------------------------------
\* max(nFee, GetMinFee(1, false, GMF_SEND, nBytes)), in the labels and in the wallet.
FeeFor(bytes) == (1 + (bytes \div BytesPerFee)) * LargerOf(nTransactionFee, CentValue)
TxBytes(chosen, outputs) == MapThenSumSet(LAMBDA c : InputBytes[c], chosen) + 34 * outputs + 10

\* CoinControlDialog::updateLabels; "always assume +1 output for change here".  The raise of a fee
\* below CENT is left out: no fee is.
OutputsAssumed_Exact(amount) == 1
OutputsAssumed(amount) == 2

LabelsOf(selected, amount) ==
    LET txFee == FeeFor(TxBytes(selected, OutputsAssumed(amount)))
    IN  [quantity |-> Cardinality(selected), amount |-> WorthOf(selected), txFee |-> txFee,
         afterFee |-> LargerOf(WorthOf(selected) - txFee, 0),
         change |-> IF amount > 0 THEN WorthOf(selected) - txFee - amount ELSE 0]

\* coinControlUpdateLabels: nothing while the features are off.
coinControlUpdateLabels(features, selected, amount, old) ==
    IF ~features THEN old
    ELSE IF selected = {} THEN <<>>
    ELSE LabelsOf(selected, amount)

-----------------------------------------------------------------------------
\* CreateTransaction with these inputs: the fee rises until the transaction carries enough, and change
\* below MIN_TXOUT_AMOUNT goes to the fee.
CreatedWith(chosen, amount) ==
    LET in == WorthOf(chosen)
        try[txFee \in Nat] ==
            LET left == in - amount - txFee
                sub == left < CentValue
                taken == IF sub THEN txFee + left ELSE txFee
                needed == FeeFor(TxBytes(chosen, IF sub THEN 1 ELSE 2))
            IN  IF left < 0 THEN <<>>
                ELSE IF taken < needed THEN try[needed]
                ELSE [inputs |-> chosen, txFee |-> taken, change |-> IF sub THEN 0 ELSE left]
    IN  try[nTransactionFee]

\* AvailableCoins under a selection, and the coins that SelectCoins may come up with.
CoinsOnOffer(selected) == IF selected = {} THEN unspent ELSE unspent \cap selected
MayBeChosen(selected) == IF selected = {} THEN SUBSET unspent ELSE {unspent \cap selected}

\* The checks of sendCoins before it creates the transaction.
sendCoinsChecks(selected, amount) ==
    /\ amount > 0
    /\ amount + nTransactionFee <= WorthOf(CoinsOnOffer(selected))

-----------------------------------------------------------------------------
\* listCoins: a change output is shown under the address its transaction was paid from.
ListedUnder(coin) ==
    LET walk[c \in Coins] ==
            IF c \in ChangeCoins /\ PreviousCoin[c] # 0 THEN walk[PreviousCoin[c]] ELSE CoinAddress[c]
    IN  walk[coin]

OneClick == clicks < MaxClicks /\ clicks' = clicks + 1

\* coinControlButtonClicked opens the dialog, whose list is filled once (updateView).
OpenDialog ==
    /\ shownCoins = {} /\ fCoinControlFeatures /\ unspent # {} /\ OneClick
    /\ shownCoins' = unspent
    /\ UNCHANGED <<unspent, nTransactionFee, fCoinControlFeatures, setSelected, payAmount, labels, paid, fresh>>

\* viewItemChanged, once for each child of the item that was clicked.
Ticks(items, on) ==
    /\ shownCoins # {} /\ items # {} /\ OneClick
    /\ setSelected' = IF on THEN setSelected \cup items ELSE setSelected \ items
    /\ UNCHANGED <<unspent, nTransactionFee, fCoinControlFeatures, payAmount, labels, shownCoins, paid, fresh>>

TickCoin(c) == c \in shownCoins /\ Ticks({c}, c \notin setSelected)
TickAddress(a) ==
    LET items == {c \in shownCoins : ListedUnder(c) = a} IN Ticks(items, ~(items \subseteq setSelected))

\* buttonSelectAllClicked looks at the coins of the list only.
buttonSelectAllClicked == Ticks(shownCoins, shownCoins \cap setSelected = {})

\* The dialog closes and the page draws its labels.
CloseDialog ==
    /\ shownCoins # {} /\ shownCoins' = {}
    /\ labels' = coinControlUpdateLabels(fCoinControlFeatures, setSelected, payAmount, labels)
    /\ fresh' = TRUE
    /\ UNCHANGED <<unspent, nTransactionFee, fCoinControlFeatures, setSelected, payAmount, paid, clicks>>

\* payAmountChanged of an entry.
EditAmount(amount) ==
    /\ shownCoins = {} /\ amount # payAmount /\ OneClick
    /\ payAmount' = amount
    /\ labels' = coinControlUpdateLabels(fCoinControlFeatures, setSelected, amount, labels)
    /\ fresh' = (fresh \/ fCoinControlFeatures)
    /\ UNCHANGED <<unspent, nTransactionFee, fCoinControlFeatures, setSelected, shownCoins, paid>>

\* coinControlFeatureChanged: the frame is hidden or shown again with the labels it had.
coinControlFeatureChanged ==
    /\ shownCoins = {} /\ OneClick
    /\ fCoinControlFeatures' = ~fCoinControlFeatures
    /\ setSelected' = IF fCoinControlFeatures THEN {} ELSE setSelected
    /\ fresh' = FALSE
    /\ UNCHANGED <<unspent, nTransactionFee, payAmount, labels, shownCoins, paid>>

\* settxfee: no signal.
SetTxFee(txFee) ==
    /\ txFee # nTransactionFee /\ OneClick
    /\ nTransactionFee' = txFee /\ fresh' = FALSE
    /\ UNCHANGED <<unspent, fCoinControlFeatures, setSelected, payAmount, labels, shownCoins, paid>>

\* The minter, or an RPC, spends a coin.
SpendsElsewhere(c) ==
    /\ c \in unspent /\ OneClick
    /\ unspent' = unspent \ {c} /\ fresh' = FALSE
    /\ UNCHANGED <<nTransactionFee, fCoinControlFeatures, setSelected, payAmount, labels, shownCoins, paid>>

\* on_sendButton_clicked after the confirmations; a payment that fails changes nothing.  On success the
\* form is emptied and the selection forgotten.
LeftSelected_All(selected) == selected
LeftSelected(selected) == {}

on_sendButton_clicked ==
    LET selected == IF fCoinControlFeatures THEN setSelected ELSE {}
    IN  /\ shownCoins = {} /\ OneClick /\ sendCoinsChecks(selected, payAmount)
        /\ \E chosen \in MayBeChosen(selected) :
            LET tx == CreatedWith(chosen, payAmount)
            IN  /\ tx # <<>>
                /\ unspent' = unspent \ chosen
                /\ paid' = [tx |-> tx, amount |-> payAmount, selected |-> selected,
                            shown |-> labels, fresh |-> fresh]
        /\ setSelected' = LeftSelected(setSelected)
        /\ payAmount' = 0
        /\ labels' = coinControlUpdateLabels(fCoinControlFeatures, setSelected', 0, labels)
        /\ fresh' = TRUE
        /\ UNCHANGED <<nTransactionFee, fCoinControlFeatures, shownCoins>>

ControlInit ==
    /\ unspent = Coins /\ nTransactionFee \in TxFees /\ fCoinControlFeatures = TRUE
    /\ setSelected = {} /\ payAmount = 0 /\ labels = <<>> /\ shownCoins = {}
    /\ paid = <<>> /\ fresh = TRUE /\ clicks = 0

ControlNext ==
    \/ OpenDialog \/ buttonSelectAllClicked \/ CloseDialog \/ coinControlFeatureChanged
    \/ on_sendButton_clicked
    \/ \E c \in Coins : TickCoin(c) \/ SpendsElsewhere(c)
    \/ \E a \in {CoinAddress[c] : c \in Coins} : TickAddress(a)
    \/ \E amount \in PayAmounts : EditAmount(amount)
    \/ \E txFee \in TxFees : SetTxFee(txFee)

-----------------------------------------------------------------------------
\* A payment under a selection takes what the labels showed when nothing changed behind their back and
\* no coin of the selection was spent before (a selection keeps such a coin, and the labels count it): the
\* fee and the change to the coin, but that change below a cent goes to the fee, and that a payment shown
\* as short of funds may still go through when it needs no change output, for less than the fee shown.
PaidAsShown ==
    paid # <<>> /\ paid.fresh /\ paid.selected # {} /\ paid.selected = paid.tx.inputs =>
    LET tx == paid.tx
        shown == paid.shown
    IN  /\ shown.amount = WorthOf(tx.inputs)
        /\ shown.change >= CentValue => tx.txFee = shown.txFee /\ tx.change = shown.change
        /\ shown.change \in 0 .. CentValue - 1 => tx.txFee = shown.txFee + shown.change /\ tx.change = 0
        /\ shown.change < 0 => tx.change = 0 /\ tx.txFee < shown.txFee

\* As long as only payments of this page spend coins, the labels are about coins that can be spent: a
\* payment does not leave its own in the selection.
SelectionIsSpendable ==
    fresh /\ fCoinControlFeatures /\ shownCoins = {} /\ labels # <<>> /\ unspent = Coins \ (IF paid = <<>> THEN {} ELSE paid.tx.inputs)
        => setSelected \subseteq unspent /\ labels.amount = WorthOf(CoinsOnOffer(setSelected))

CoinControlIsRight == PaidAsShown /\ SelectionIsSpendable

\* After a click on "(un)select all" that unselects, nothing is selected.
UnselectAllIsAll == shownCoins # {} /\ shownCoins \cap setSelected = {} => setSelected = {}

\* When the labels are drawn again, they count coins that can be spent.
LabelsAreSpendable == fresh /\ fCoinControlFeatures /\ shownCoins = {} => setSelected \subseteq unspent

\* Whenever the frame is shown, its labels are those of the selection.
FrameIsTrue == fCoinControlFeatures /\ shownCoins = {} => (labels = <<>>) = (setSelected = {})
=============================================================================
