---------------------------- MODULE WalletViews -----------------------------
(***************************************************************************)
(* What the graphical interface shows of the wallet (qt): the table of its *)
(* transactions, the rows of one of them, and the address book.            *)
(***************************************************************************)
EXTENDS Integers, Sequences, FiniteSets, SequencesExt, FiniteSetsExt

-----------------------------------------------------------------------------
(***************************************************************************)
(* The table of transactions of the graphical interface                    *)
(* (qt/transactiontablemodel.cpp, qt/transactionrecord.cpp and the events  *)
(* of qt/walletmodel.cpp).  The node's thread changes the wallet while it  *)
(* connects blocks and queues an event for each change; the interface's    *)
(* thread handles the events later, one at a time, and reads the wallet as *)
(* it is by then.  It holds cs_wallet but not cs_main, so that it may run  *)
(* between two steps of SetBestChain.                                      *)
(***************************************************************************)
CONSTANTS
    TableBlocks,    \* the blocks that may arrive; 0 is the genesis block
    PrevBlock, BlockHeight, BlockTrust,   \* [block -> ...]
    TxsOf,          \* [block -> the wallet's transactions in it, its coinbase first]
    CoinBases,      \* those of the wallet's transactions that are coinbases
    PartsOf,        \* [transaction -> how many records decomposeTransaction makes of it]
    MaxQueue,       \* no further block or payment comes while more events are waiting
    Visible         \* the transactions whose records are scrolled into view

VARIABLES
    blockIndex,              \* mapBlockIndex
    next,               \* [block -> pnext, or NoBlock]
    tip,                \* pindexBest
    bestHeight,         \* nBestHeight
    connecting,         \* the blocks that SetBestChain has still to connect
    newTip,             \* the block that AddToBlockIndex works on, or NoBlock
    hashPrevBestCoinBase,
    mapWallet,          \* [transaction -> hashBlock]
    queue,              \* events for the interface: <<transaction, status>>
    interface,          \* "none", "filled" (refreshWallet done) or "subscribed"
    cachedWallet,       \* the records: hash, idx and the status last computed
    drawing,            \* a record whose status is being computed: <<its place, depth>>
    missed,             \* history: transactions with an event that nobody was subscribed to
    wasBest             \* history: the blocks that were best since they were connected

tableVars == <<blockIndex, next, tip, bestHeight, connecting, newTip, hashPrevBestCoinBase, mapWallet, queue,
               interface, cachedWallet, drawing, missed, wasBest>>
nodeVars == <<blockIndex, next, tip, bestHeight, connecting, newTip, hashPrevBestCoinBase, mapWallet, wasBest>>
modelVars == <<cachedWallet, drawing>>

NoBlock == -1

-----------------------------------------------------------------------------
IsInMainChain(b) == b # NoBlock /\ (next[b] # NoBlock \/ b = tip)

GetDepthInMainChain(tx) ==
    IF IsInMainChain(mapWallet[tx]) THEN BlockHeight[tip] - BlockHeight[mapWallet[tx]] + 1 ELSE 0

RECURSIVE PathTo(_, _)
PathTo(ancestors, b) == IF b \in ancestors THEN <<>> ELSE Append(PathTo(ancestors, PrevBlock[b]), b)

RECURSIVE Ancestors(_)
Ancestors(b) == IF b = 0 THEN {0} ELSE {b} \cup Ancestors(PrevBlock[b])

\* NotifyTransactionChanged: a queued call, if the model has subscribed.
Notify(events) ==
    IF interface = "subscribed"
    THEN queue' = queue \o events /\ UNCHANGED missed
    ELSE missed' = missed \cup {e[1] : e \in ToSet(events)} /\ UNCHANGED queue

-----------------------------------------------------------------------------
\* AddToBlockIndex; SetBestChain, if the block is to be the best one.
AddToBlockIndex(b) ==
    /\ newTip = NoBlock /\ b = Cardinality(blockIndex) /\ Len(queue) <= MaxQueue
    /\ blockIndex' = blockIndex \cup {b}
    /\ IF BlockTrust[b] > BlockTrust[tip]
       THEN newTip' = b /\ connecting' = PathTo(Ancestors(tip), b)
       ELSE UNCHANGED <<newTip, connecting>>
    /\ UNCHANGED <<next, tip, bestHeight, hashPrevBestCoinBase, mapWallet, wasBest, queue, interface, missed, modelVars>>

\* ConnectBlock, SyncWithWallets and AddToWallet: blockIndex transactions are reported as updated.
ConnectBlock ==
    /\ connecting # <<>>
    /\ LET b == Head(connecting)
           txs == TxsOf[b]
       IN  /\ mapWallet' = [tx \in DOMAIN mapWallet \cup ToSet(txs) |-> IF tx \in ToSet(txs) THEN b ELSE mapWallet[tx]]
           /\ Notify([i \in DOMAIN txs |-> <<txs[i], IF txs[i] \in DOMAIN mapWallet THEN "CT_UPDATED" ELSE "CT_NEW">>])
           /\ connecting' = Tail(connecting)
           /\ wasBest' = wasBest \ {b}
    /\ UNCHANGED <<blockIndex, next, tip, bestHeight, newTip, hashPrevBestCoinBase, interface, modelVars>>

\* After the commit: pnext of what was disconnected and of what was connected.
SetPointers ==
    /\ newTip # NoBlock /\ connecting = <<>> /\ tip # newTip /\ next[PrevBlock[newTip]] # newTip
    /\ next' = [b \in DOMAIN next |->
                  IF b \in Ancestors(tip) \ Ancestors(newTip) THEN NoBlock
                  ELSE IF \E c \in Ancestors(newTip) \ {0} : PrevBlock[c] = b
                  THEN CHOOSE c \in Ancestors(newTip) \ {0} : PrevBlock[c] = b
                  ELSE NoBlock]
    /\ UNCHANGED <<blockIndex, tip, bestHeight, connecting, newTip, hashPrevBestCoinBase, mapWallet, wasBest,
                   queue, interface, missed, modelVars>>

SetBest ==
    /\ newTip # NoBlock /\ connecting = <<>> /\ tip # newTip /\ next[PrevBlock[newTip]] = newTip
    /\ tip' = newTip /\ bestHeight' = BlockHeight[newTip]
    /\ wasBest' = wasBest \cup {newTip}
    /\ UNCHANGED <<blockIndex, next, connecting, newTip, hashPrevBestCoinBase, mapWallet,
                   queue, interface, missed, modelVars>>

\* The end of it: the coinbase of the best block before, if it is the wallet's.
CoinBaseOf(b) == IF TxsOf[b] = <<>> THEN {} ELSE {TxsOf[b][1]} \cap CoinBases
UpdatedTransaction_SamePrev ==
    /\ tip = newTip
    /\ Notify(SetToSeq({<<tx, "CT_UPDATED">> :
                           tx \in (IF hashPrevBestCoinBase = NoBlock THEN {} ELSE CoinBaseOf(hashPrevBestCoinBase))
                                    \cap DOMAIN mapWallet}))
    /\ UNCHANGED hashPrevBestCoinBase
    /\ newTip' = NoBlock
    /\ UNCHANGED <<blockIndex, next, tip, bestHeight, connecting, mapWallet, wasBest, interface, modelVars>>
UpdatedTransaction ==
    /\ tip = newTip
    /\ Notify(SetToSeq({<<tx, "CT_UPDATED">> :
                           tx \in (IF hashPrevBestCoinBase = NoBlock THEN {} ELSE CoinBaseOf(hashPrevBestCoinBase))
                                    \cap DOMAIN mapWallet}))
    /\ hashPrevBestCoinBase' = newTip
    /\ newTip' = NoBlock
    /\ UNCHANGED <<blockIndex, next, tip, bestHeight, connecting, mapWallet, wasBest, interface, modelVars>>

\* A payment comes from the network or from the wallet itself.
WalletReceives(tx) ==
    /\ newTip = NoBlock /\ Len(queue) <= MaxQueue
    /\ tx \notin DOMAIN mapWallet \cup CoinBases
    /\ mapWallet' = [t \in DOMAIN mapWallet \cup {tx} |-> IF t = tx THEN NoBlock ELSE mapWallet[t]]
    /\ Notify(<<<<tx, "CT_NEW">>>>)
    /\ UNCHANGED <<blockIndex, next, tip, bestHeight, connecting, newTip, hashPrevBestCoinBase, wasBest, interface, modelVars>>

-----------------------------------------------------------------------------
showTransaction(tx) == tx \in CoinBases => GetDepthInMainChain(tx) > 0

\* A record whose status was never computed.
BlankRecord(tx, idx) == [hash |-> tx, idx |-> idx, depth |-> 0, blocks |-> NoBlock, tip |-> NoBlock]
RecordsOf(tx) == [i \in 1 .. PartsOf[tx] |-> BlankRecord(tx, i)]

refreshWallet ==
    /\ interface = "none" /\ interface' = "filled"
    /\ cachedWallet' = FlattenSeq([i \in 1 .. Cardinality(DOMAIN mapWallet) |->
                          LET tx == SetToSortSeq(DOMAIN mapWallet, <)[i]
                          IN  IF showTransaction(tx) THEN RecordsOf(tx) ELSE <<>>])
    /\ missed' = {}
    /\ UNCHANGED <<nodeVars, queue, drawing>>

subscribeToCoreSignals ==
    /\ interface = "filled" /\ interface' = "subscribed"
    /\ UNCHANGED <<nodeVars, queue, missed, modelVars>>

lower(tx) == Len(SelectSeq(cachedWallet, LAMBDA r : r.hash < tx))
upper(tx) == Len(SelectSeq(cachedWallet, LAMBDA r : r.hash <= tx))

\* updateWallet, which looks at the wallet as it is now.
updateWallet(tx, status) ==
    LET inWallet == tx \in DOMAIN mapWallet
        inModel == lower(tx) # upper(tx)
        show == inWallet /\ showTransaction(tx)
        derived == IF status = "CT_UPDATED" /\ show /\ ~inModel THEN "CT_NEW"
                   ELSE IF status = "CT_UPDATED" /\ ~show /\ inModel THEN "CT_DELETED" ELSE status
    IN  cachedWallet' =
            IF derived = "CT_NEW" /\ ~inModel /\ show
            THEN SubSeq(cachedWallet, 1, lower(tx)) \o RecordsOf(tx)
                   \o SubSeq(cachedWallet, lower(tx) + 1, Len(cachedWallet))
            ELSE IF derived = "CT_DELETED" /\ inModel
            THEN SubSeq(cachedWallet, 1, lower(tx)) \o SubSeq(cachedWallet, upper(tx) + 1, Len(cachedWallet))
            ELSE cachedWallet

updateTransaction ==
    /\ queue # <<>> /\ drawing = <<>>
    /\ updateWallet(Head(queue)[1], Head(queue)[2])
    /\ queue' = Tail(queue)
    /\ UNCHANGED <<nodeVars, interface, drawing, missed>>

\* index() draws a record: updateStatus reads the depth first and the height last.
statusUpdateNeeded_Higher(i) == cachedWallet[i].blocks < bestHeight
statusUpdateNeeded(i) == cachedWallet[i].blocks # bestHeight

BeginStatus(i) ==
    /\ drawing = <<>> /\ i \in DOMAIN cachedWallet /\ statusUpdateNeeded(i)
    /\ cachedWallet[i].hash \in DOMAIN mapWallet \cap Visible
    /\ drawing' = <<i, GetDepthInMainChain(cachedWallet[i].hash), tip>>
    /\ UNCHANGED <<nodeVars, queue, interface, cachedWallet, missed>>

EndStatus ==
    /\ drawing # <<>> /\ drawing' = <<>>
    /\ cachedWallet' = [cachedWallet EXCEPT ![drawing[1]].depth = drawing[2], ![drawing[1]].blocks = bestHeight,
                                            ![drawing[1]].tip = drawing[3]]
    /\ UNCHANGED <<nodeVars, queue, interface, missed>>

TableInit ==
    /\ blockIndex = {0} /\ next = [b \in TableBlocks |-> NoBlock] /\ tip = 0 /\ bestHeight = 0
    /\ connecting = <<>> /\ newTip = NoBlock /\ hashPrevBestCoinBase = NoBlock
    /\ mapWallet = <<>> /\ queue = <<>> /\ interface = "none" /\ cachedWallet = <<>>
    /\ drawing = <<>> /\ missed = {} /\ wasBest = {0}

TableNext ==
    \/ \E b \in TableBlocks : AddToBlockIndex(b)
    \/ ConnectBlock \/ SetPointers \/ SetBest \/ UpdatedTransaction
    \/ \E tx \in DOMAIN PartsOf : WalletReceives(tx)
    \/ refreshWallet \/ subscribeToCoreSignals \/ updateTransaction
    \/ EndStatus \/ \E i \in DOMAIN cachedWallet : BeginStatus(i)

-----------------------------------------------------------------------------
AllHandled == interface = "subscribed" /\ newTip = NoBlock /\ queue = <<>> /\ drawing = <<>>

\* The table is in the wallet's order, with all the records of a transaction or none.
TableIsSorted ==
    \A i \in DOMAIN cachedWallet :
        LET r == cachedWallet[i]
        IN  /\ i < Len(cachedWallet) =>
                IF r.idx < PartsOf[r.hash]
                THEN cachedWallet[i + 1].hash = r.hash /\ cachedWallet[i + 1].idx = r.idx + 1
                ELSE cachedWallet[i + 1].hash > r.hash /\ cachedWallet[i + 1].idx = 1
            /\ i = Len(cachedWallet) => r.idx = PartsOf[r.hash]

\* When all events are handled the table has every transaction of the wallet ("Ensures we show
\* generated coins / mined transactions at depth 1", transactionrecord.cpp:14), but for a coinbase
\* out of the chain, that of the best block, that of a block which a reorganisation connected below
\* the new best one, and what was changed between refreshWallet and subscribeToCoreSignals.
TableIsWhole ==
    AllHandled =>
    \A tx \in DOMAIN mapWallet \ missed :
        (tx \in CoinBases => mapWallet[tx] # tip /\ IsInMainChain(mapWallet[tx]) /\ mapWallet[tx] \in wasBest) =>
            lower(tx) # upper(tx)

\* A record that was drawn shows its true depth, unless the best block changed while it was drawn,
\* or since then to one of the same height.
DepthsAreRight ==
    AllHandled =>
    \A i \in DOMAIN cachedWallet :
        LET r == cachedWallet[i]
        IN  ~statusUpdateNeeded(i) /\ r.tip # NoBlock /\ BlockHeight[r.tip] = r.blocks =>
                \/ r.depth = GetDepthInMainChain(r.hash)
                \/ r.tip # tip /\ BlockHeight[r.tip] = BlockHeight[tip]

TransactionTableIsRight == TableIsSorted /\ TableIsWhole /\ DepthsAreRight

\* Every generated coin is shown at depth 1 (transactionrecord.cpp:14).
GeneratedIsShown ==
    AllHandled /\ missed = {} =>
        \A tx \in DOMAIN mapWallet \cap CoinBases : IsInMainChain(mapWallet[tx]) => lower(tx) # upper(tx)

-----------------------------------------------------------------------------
(***************************************************************************)
(* The records that the graphical interface makes of a transaction of the  *)
(* wallet, and their status (qt/transactionrecord.cpp, the roles of        *)
(* qt/transactiontablemodel.cpp), beside what the wallet counts for its    *)
(* balance (wallet.h).                                                     *)
(***************************************************************************)
CONSTANTS
    WalletTxs,          \* transactions: kind, vin and vout
    BlocksToMature,           \* nCoinbaseMaturity + 20
    NumConfirmations,
    MaxDepth

ASSUME RecordsAssumption == BlocksToMature \in Nat /\ NumConfirmations \in Nat

VARIABLES
    wtx,
    depth,          \* GetDepthInMainChain
    final,          \* IsFinal
    dependencies,   \* its unconfirmed inputs are all its own and lead back to the chain
    requests        \* GetRequestCount two minutes after it was received: -1, 0 or 1

recordVars == <<wtx, depth, final, dependencies, requests>>

-----------------------------------------------------------------------------
\* vin: mine and value; vout: mine, value, inBook (its address is in the address book), plain (a key's).
SumPicked(s, pick(_)) == FoldLeft(LAMBDA sum, x : sum + (IF pick(x) THEN x.value ELSE 0), 0, s)

GetDebit(tx) == SumPicked(tx.vin, LAMBDA in : in.mine)
GetValueOut(tx) == SumPicked(tx.vout, LAMBDA out : TRUE)
CreditOfOutputs(tx) == SumPicked(tx.vout, LAMBDA out : out.mine)
IsChangeOutput(out) == out.mine /\ out.plain /\ ~out.inBook
GetChange(tx) == SumPicked(tx.vout, LAMBDA out : IsChangeOutput(out))

IsMinted(tx) == tx.kind \in {"coinbase", "coinstake"}
GetBlocksToMaturity(tx) == IF IsMinted(tx) /\ BlocksToMature > depth THEN BlocksToMature - depth ELSE 0
GetCredit(tx) == IF GetBlocksToMaturity(tx) > 0 THEN 0 ELSE CreditOfOutputs(tx)

IsConfirmed(tx) == final /\ (depth >= 1 \/ (GetDebit(tx) > 0 /\ dependencies))

-----------------------------------------------------------------------------
Part(type, debit, credit) == [type |-> type, debit |-> debit, credit |-> credit]

\* A part for each output that is the wallet's.
ReceivedParts(tx) ==
    LET mine == SelectSeq(tx.vout, LAMBDA out : out.mine)
    IN  [i \in DOMAIN mine |->
            Part(IF tx.kind = "coinbase" THEN "Generated" ELSE IF mine[i].plain THEN "RecvWithAddress" ELSE "RecvFromOther",
                 0, mine[i].value)]

\* A part for each output that is not, and the fee with the first of them.
SentParts_FeeOnEach(tx) ==
    LET others == SelectSeq(tx.vout, LAMBDA out : ~out.mine)
        nTxFee == GetDebit(tx) - GetValueOut(tx)
    IN  [i \in DOMAIN others |->
            Part(IF others[i].plain THEN "SendToAddress" ELSE "SendToOther",
                 - (others[i].value + (IF nTxFee > 0 THEN nTxFee ELSE 0)), 0)]
SentParts(tx) ==
    LET others == SelectSeq(tx.vout, LAMBDA out : ~out.mine)
        nTxFee == GetDebit(tx) - GetValueOut(tx)
    IN  [i \in DOMAIN others |->
            Part(IF others[i].plain THEN "SendToAddress" ELSE "SendToOther",
                 - (others[i].value + (IF i = 1 /\ nTxFee > 0 THEN nTxFee ELSE 0)), 0)]

decomposeTransaction(tx) ==
    LET nNet == GetCredit(tx) - GetDebit(tx)
        fAllFromMe == \A i \in DOMAIN tx.vin : tx.vin[i].mine
        fAllToMe == \A i \in DOMAIN tx.vout : tx.vout[i].mine
        nChange == GetChange(tx)
    IN  IF tx.kind = "coinstake" THEN <<Part("StakeMint", - GetDebit(tx), GetValueOut(tx))>>
        ELSE IF nNet > 0 \/ tx.kind = "coinbase" THEN ReceivedParts(tx)
        ELSE IF fAllFromMe /\ fAllToMe
        THEN <<Part("SendToSelf", - (GetDebit(tx) - nChange), GetCredit(tx) - nChange)>>
        ELSE IF fAllFromMe THEN SentParts(tx)
        ELSE <<Part("Other", nNet, 0)>>

-----------------------------------------------------------------------------
\* updateStatus: what the row says, and how far a generated one is.
RowStatus(tx) ==
    IF ~final THEN "Open"
    ELSE IF requests = 0 THEN "Offline"
    ELSE IF depth < NumConfirmations THEN "Unconfirmed" ELSE "HaveConfirmations"

MaturityOf_AnyCredit(tx) ==
    IF ~IsMinted(tx) THEN "Mature"
    ELSE IF GetCredit(tx) # 0 THEN "Mature"
    ELSE IF requests = 0 THEN "MaturesWarning" ELSE "Mature"
MaturityOf(tx) ==
    IF ~IsMinted(tx) \/ GetCredit(tx) # 0 THEN "Mature"
    ELSE IF depth = 0 THEN "NotAccepted"
    ELSE IF requests = 0 THEN "MaturesWarning"
    ELSE IF GetBlocksToMaturity(tx) = 0 THEN "Mature" ELSE "Immature"

\* ConfirmedRole, "True if transaction counts for balance" (transactiontablemodel.cpp).
ConfirmedRole(tx) == IsConfirmed(tx) /\ (IsMinted(tx) => MaturityOf(tx) = "Mature")

\* txStatusDecoration: which of the icons shows the way of a generated one to maturity.
IconOf(tx) == ((depth * 4) \div (depth + GetBlocksToMaturity(tx))) + 1

-----------------------------------------------------------------------------
RecordsInit ==
    /\ wtx \in WalletTxs /\ depth = 0 /\ final \in BOOLEAN /\ dependencies \in BOOLEAN
    /\ requests \in IF IsMinted(wtx) THEN {-1, 0} ELSE {0}

Connected == depth < MaxDepth /\ depth' = depth + 1 /\ UNCHANGED <<wtx, final, dependencies, requests>>
Disconnected == depth > 0 /\ depth' = 0 /\ UNCHANGED <<wtx, final, dependencies, requests>>
Inventory == requests = 0 /\ requests' = 1 /\ UNCHANGED <<wtx, depth, final, dependencies>>
Unlocked == ~final /\ depth = 0 /\ final' = TRUE /\ UNCHANGED <<wtx, depth, dependencies, requests>>

RecordsNext == Connected \/ Disconnected \/ Inventory \/ Unlocked

-----------------------------------------------------------------------------
\* The amounts of a transaction's rows add up to what it adds to the wallet, at any depth, unless
\* it pays the wallet more than it takes from it: then only what it pays has rows.
Adds(tx) == CreditOfOutputs(tx) - GetDebit(tx)
SumOfParts(parts) == FoldLeft(LAMBDA sum, p : sum + p.debit + p.credit, 0, parts)

RowsAddUp == (GetDebit(wtx) = 0 \/ Adds(wtx) <= 0 \/ IsMinted(wtx)) => SumOfParts(decomposeTransaction(wtx)) = Adds(wtx)

\* A row says that it counts for the balance exactly when GetBalance counts its transaction.
RolesMatchBalance ==
    LET counted == IsConfirmed(wtx) /\ GetCredit(wtx) > 0
    IN  /\ counted => ConfirmedRole(wtx)
        /\ ConfirmedRole(wtx) => counted \/ CreditOfOutputs(wtx) = 0

\* A generated transaction on its way has one of the icons transaction_1 to transaction_4.
IconsExist == MaturityOf(wtx) = "Immature" => depth + GetBlocksToMaturity(wtx) > 0 /\ IconOf(wtx) \in 1 .. 4

TransactionRecordsAreRight == RowsAddUp /\ RolesMatchBalance /\ IconsExist

\* The same of a mixed transaction ("Mixed debit transaction, can't break down payees",
\* transactionrecord.cpp).
MixedRowsAddUp == SumOfParts(decomposeTransaction(wtx)) = Adds(wtx)

-----------------------------------------------------------------------------
(***************************************************************************)
(* The address book as the graphical interface shows it                    *)
(* (qt/addresstablemodel.cpp), beside the wallet's mapAddressBook, which   *)
(* RPC threads change too.  SetAddressBookName and DelAddressBookName      *)
(* queue an event with the entry as it was then; the interface applies the *)
(* events in their order to its own copy, in which it searches as in a     *)
(* sorted list.                                                            *)
(***************************************************************************)
CONSTANTS
    BookOrder,      \* the addresses (numbers, by their text) in the order of mapAddressBook's keys
    BookLabels,
    OldBooks,       \* [address -> label], the books to start with
    OwnAddresses,   \* those of which the wallet has the key at the start
    MaxEdits

VARIABLES
    addressBook,        \* mapAddressBook
    ownKeys,            \* the addresses of which the wallet has the key
    bookEvents,         \* queued calls of updateAddressBook
    cachedAddressTable,
    rpcCall,            \* an RPC that holds cs_wallet: <<>> or what it has still to do
    editing,            \* the interface's own edit: <<>>, <<"label", event, row>> or <<"add", address, label>>
    edits,
    startedSorted,      \* history: the table was sorted by text when it was filled
    crossed,            \* history: an edit without cs_wallet ran in the middle of an RPC's or the reverse
    imported,           \* history: addresses whose key came after their entry
    dropped             \* history: addresses to receive with that left the book

bookVars == <<addressBook, ownKeys, bookEvents, cachedAddressTable, rpcCall, editing, edits,
              startedSorted, crossed, imported, dropped>>

Addresses == ToSet(BookOrder)
TypeOf(own) == IF own THEN "Receiving" ELSE "Sending"
Entry(a, label, type) == [address |-> a, label |-> label, type |-> type]

-----------------------------------------------------------------------------
\* refreshAddressTable: in the order of the map.
Refreshed(book) ==
    LET order == SelectSeq(BookOrder, LAMBDA a : a \in DOMAIN book)
    IN  [i \in DOMAIN order |-> Entry(order[i], book[order[i]], TypeOf(order[i] \in OwnAddresses))]

\* qLowerBound and qUpperBound: halving, whatever the order of the list is.
Bound(table, goesOn(_)) ==
    LET search[k \in Nat, m \in Nat] ==
            IF m = 0 THEN k
            ELSE IF goesOn(table[k + (m \div 2) + 1]) THEN search[k + (m \div 2) + 1, m - (m \div 2) - 1]
            ELSE search[k, m \div 2]
    IN  search[0, Len(table)]
lowerIndex(table, a) == Bound(table, LAMBDA entry : entry.address < a)
upperIndex(table, a) == Bound(table, LAMBDA entry : ~(a < entry.address))

\* AddressTablePriv::updateEntry.
UpdatedTable(table, event) ==
    LET low == lowerIndex(table, event.address)
        up == upperIndex(table, event.address)
        inModel == low # up
        entry == Entry(event.address, event.label, event.type)
        before == SubSeq(table, 1, low)
    IN  CASE event.status = "CT_NEW" /\ ~inModel -> before \o <<entry>> \o SubSeq(table, low + 1, Len(table))
          [] event.status = "CT_UPDATED" /\ inModel -> [table EXCEPT ![low + 1] = [@ EXCEPT !.label = entry.label, !.type = entry.type]]
          [] event.status = "CT_DELETED" /\ inModel -> before \o SubSeq(table, up + 1, Len(table))
          [] OTHER -> table

-----------------------------------------------------------------------------
\* The event of SetAddressBookName, decided when the map was changed, and that of DelAddressBookName.
Event(a, label, own, status) == [address |-> a, label |-> label, type |-> TypeOf(own), status |-> status]
Named(book, a, label) == [b \in DOMAIN book \cup {a} |-> IF b = a THEN label ELSE book[b]]
Without(book, a) == [b \in DOMAIN book \ {a} |-> book[b]]
NameStatus_AfterTheWrite(a) == "CT_UPDATED"
NameStatus(a) == IF a \in DOMAIN addressBook THEN "CT_UPDATED" ELSE "CT_NEW"

Counted == edits < MaxEdits /\ edits' = edits + 1
Kept == UNCHANGED <<startedSorted, imported>>
Crosses == editing # <<>> /\ editing[1] = "label"

\* "setaccount" or "importprivkey": both hold cs_wallet; the import adds its key after the name.
RpcNames(a, label, import) ==
    /\ rpcCall = <<>> /\ Counted
    /\ import => a \notin ownKeys
    /\ addressBook' = Named(addressBook, a, label)
    /\ rpcCall' = <<Event(a, label, a \in ownKeys, NameStatus(a)), import>>
    /\ crossed' = (crossed \/ Crosses)
    /\ UNCHANGED <<ownKeys, bookEvents, cachedAddressTable, editing, dropped>> /\ Kept

RpcNotifies ==
    /\ rpcCall # <<>> /\ rpcCall' = <<>>
    /\ bookEvents' = Append(bookEvents, rpcCall[1])
    /\ IF rpcCall[2]
       THEN /\ ownKeys' = ownKeys \cup {rpcCall[1].address}
            /\ imported' = imported \cup {rpcCall[1].address}
       ELSE UNCHANGED <<ownKeys, imported>>
    /\ UNCHANGED <<addressBook, cachedAddressTable, editing, edits, startedSorted, crossed, dropped>>

\* setData of a label, which does not take cs_wallet.
EditLabel(row, label) ==
    /\ editing = <<>> /\ row \in DOMAIN cachedAddressTable /\ Counted
    /\ LET a == cachedAddressTable[row].address
       IN  /\ addressBook' = Named(addressBook, a, label)
           /\ editing' = <<"label", Event(a, label, a \in ownKeys, NameStatus(a)), row>>
    /\ crossed' = (crossed \/ rpcCall # <<>>)
    /\ UNCHANGED <<ownKeys, bookEvents, cachedAddressTable, rpcCall, dropped>> /\ Kept

EditNotifies ==
    /\ editing # <<>> /\ editing[1] = "label" /\ editing' = <<>>
    /\ bookEvents' = Append(bookEvents, editing[2])
    /\ cachedAddressTable' = [cachedAddressTable EXCEPT ![editing[3]].label = editing[2].label]
    /\ UNCHANGED <<addressBook, ownKeys, rpcCall, edits, crossed, dropped>> /\ Kept

\* setData of an address: only of one to send to; the new one may be in the book already.
MayEdit_Any(row) == TRUE
MayEdit(row) == cachedAddressTable[row].type = "Sending"

EditAddress(row, a) ==
    /\ editing = <<>> /\ rpcCall = <<>> /\ row \in DOMAIN cachedAddressTable /\ MayEdit(row) /\ Counted
    /\ LET old == cachedAddressTable[row].address
           label == cachedAddressTable[row].label
       IN  /\ addressBook' = Named(Without(addressBook, old), a, label)
           /\ dropped' = dropped \cup (({old} \cap ownKeys) \ {a})
           /\ bookEvents' = bookEvents \o
                 <<Event(old, "", old \in ownKeys, "CT_DELETED"),
                   Event(a, label, a \in ownKeys,
                         IF a \in DOMAIN addressBook \ {old} THEN "CT_UPDATED" ELSE "CT_NEW")>>
    /\ UNCHANGED <<ownKeys, cachedAddressTable, rpcCall, editing, crossed>> /\ Kept

\* addRow of an address to send to looks for a duplicate and lets go of cs_wallet before it adds.
AddRow(a, label) ==
    /\ editing = <<>> /\ rpcCall = <<>> /\ a \notin DOMAIN addressBook /\ Counted
    /\ editing' = <<"add", a, label>>
    /\ UNCHANGED <<addressBook, ownKeys, bookEvents, cachedAddressTable, rpcCall, crossed, dropped>> /\ Kept

RowIsAdded ==
    /\ editing # <<>> /\ editing[1] = "add" /\ rpcCall = <<>>
    /\ LET a == editing[2]
       IN  /\ addressBook' = Named(addressBook, a, editing[3])
           /\ bookEvents' = Append(bookEvents, Event(a, editing[3], a \in ownKeys, NameStatus(a)))
    /\ editing' = <<>>
    /\ UNCHANGED <<ownKeys, cachedAddressTable, rpcCall, edits, crossed, dropped>> /\ Kept

\* removeRows: one row, which is not an address to receive with.
RemoveRow(row) ==
    /\ editing = <<>> /\ rpcCall = <<>> /\ row \in DOMAIN cachedAddressTable /\ MayEdit(row) /\ Counted
    /\ LET a == cachedAddressTable[row].address
       IN  /\ addressBook' = Without(addressBook, a)
           /\ dropped' = dropped \cup ({a} \cap ownKeys)
           /\ bookEvents' = Append(bookEvents, Event(a, "", a \in ownKeys, "CT_DELETED"))
    /\ UNCHANGED <<ownKeys, cachedAddressTable, rpcCall, editing, crossed>> /\ Kept

updateAddressBook ==
    /\ editing = <<>> /\ bookEvents # <<>>
    /\ cachedAddressTable' = UpdatedTable(cachedAddressTable, Head(bookEvents))
    /\ bookEvents' = Tail(bookEvents)
    /\ UNCHANGED <<addressBook, ownKeys, rpcCall, editing, edits, crossed, dropped>> /\ Kept

BookInit ==
    /\ addressBook \in OldBooks /\ ownKeys = OwnAddresses
    /\ bookEvents = <<>> /\ cachedAddressTable = Refreshed(addressBook)
    /\ rpcCall = <<>> /\ editing = <<>> /\ edits = 0
    /\ startedSorted = \A i, j \in DOMAIN cachedAddressTable :
                           i < j => cachedAddressTable[i].address < cachedAddressTable[j].address
    /\ crossed = FALSE /\ imported = {} /\ dropped = {}

BookNext ==
    \/ RpcNotifies \/ EditNotifies \/ RowIsAdded \/ updateAddressBook
    \/ \E a \in Addresses, label \in BookLabels :
        AddRow(a, label) \/ RpcNames(a, label, FALSE) \/ RpcNames(a, label, TRUE)
    \/ \E row \in DOMAIN cachedAddressTable :
        \/ RemoveRow(row)
        \/ \E label \in BookLabels : EditLabel(row, label)
        \/ \E a \in Addresses : EditAddress(row, a)

-----------------------------------------------------------------------------
Quiet == bookEvents = <<>> /\ rpcCall = <<>> /\ editing = <<>>

\* When all events are handled the table is the wallet's address book, sorted by text, if it was
\* sorted when it was filled and no edit of a label crossed an RPC; an imported key's address may
\* still be shown as one to send to.
TableMirrorsBook ==
    Quiet /\ startedSorted /\ ~crossed =>
    LET sorted == SetToSortSeq(DOMAIN addressBook, <)
    IN  /\ Len(cachedAddressTable) = Len(sorted)
        /\ \A i \in DOMAIN sorted :
            /\ cachedAddressTable[i].address = sorted[i]
            /\ cachedAddressTable[i].label = addressBook[sorted[i]]
            /\ sorted[i] \notin imported => cachedAddressTable[i].type = TypeOf(sorted[i] \in ownKeys)

\* The interface takes no address that the wallet receives with out of the book ("Also refuse to
\* remove receiving addresses", addresstablemodel.cpp), but for one whose key was imported.
ReceivingStays == dropped \subseteq imported

AddressTableIsRight == TableMirrorsBook /\ ReceivingStays

\* The table is the book, whatever its order (refreshAddressTable).
TableAlwaysMirrorsBook ==
    Quiet => {<<e.address, e.label>> : e \in ToSet(cachedAddressTable)} = {<<a, addressBook[a]>> : a \in DOMAIN addressBook}
=============================================================================
