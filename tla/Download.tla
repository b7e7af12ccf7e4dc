------------------------------- MODULE Download -------------------------------
(***************************************************************************)
(* How a node gets the chain of one peer: version, inv, getblocks, getdata *)
(* and block messages (ProcessMessage and SendMessages, main.cpp), both    *)
(* ends of one connection with their queues, the filters that suppress a   *)
(* repeated request (PushGetBlocks) or a repeated inv (setInventoryKnown), *)
(* and the batches of getblocks with the hash that continues them.  Blocks *)
(* are valid; their processing is that of OrphanBlocks in one step.        *)
(***************************************************************************)
EXTENDS Integers, Sequences, FiniteSets

LOCAL INSTANCE SequencesExt

CONSTANTS
    Root,           \* the genesis block
    Item,           \* the blocks
    Parent,         \* [Item \ {Root} -> Item]: hashPrevBlock
    Branch,         \* [Item -> a block with all its ancestors]
    High,           \* [Item -> nHeight]
    Kernel,         \* [proof-of-stake blocks -> the block of the kernel's transaction]
    Time,           \* [Item -> Nat]: GetBlockTime()
    MinAge,         \* nStakeMinAge
    Limit,          \* nLimit of getblocks: 500
    Dense,          \* the ancestors a locator lists one by one: 10
    Starts,         \* best blocks of node and peer to begin with
    MaxTips,        \* new best blocks of the peer
    MaxLosses,      \* connections that break
    OtherPeers,     \* the node has more connections, which stay silent
    NoItem          \* the null hash, or no request yet


ASSUME DownloadAssumption ==
    /\ Root \in Item /\ NoItem \notin Item
    /\ Parent \in [Item \ {Root} -> Item]
    /\ Branch \in [Item -> SUBSET Item] /\ Branch[Root] = {Root}
    /\ \A b \in Item \ {Root} : Branch[b] = Branch[Parent[b]] \cup {b} /\ b \notin Branch[Parent[b]]
    /\ High \in [Item -> Nat] /\ \A b \in Item : High[b] = Cardinality(Branch[b]) - 1
    /\ DOMAIN Kernel \subseteq Item \ {Root}
    /\ \A b \in DOMAIN Kernel : Kernel[b] \in Branch[Parent[b]]
    /\ Time \in [Item -> Nat] /\ MinAge \in Nat
    /\ Limit \in Nat \ {0} /\ Dense \in Nat \ {0}
    /\ Starts \subseteq Item \X Item
    /\ MaxTips \in Nat /\ MaxLosses \in Nat /\ OtherPeers \in BOOLEAN

VARIABLES
    mapBlocks,      \* the blocks in mapBlockIndex of the node
    bestItem,       \* pindexBest of the node
    waiting,        \* mapOrphanBlocks of the node
    mapAsked,       \* mapAlreadyAskedFor: blocks asked of some connection
    tip,            \* pindexBest of the peer
    tips, losses,   \* how many new best blocks and broken connections there were
    near,           \* the node's CNode for the peer
    far,            \* the peer's CNode for the node
    up, down        \* the messages to the peer and to the node

ends == <<near, far, up, down>>
downloadVars == <<mapBlocks, bestItem, waiting, mapAsked, tip, tips, losses, ends>>

(***************************************************************************)
(* near: mapAskFor with the requests that are due and, in retry, those     *)
(* AskFor put off by two minutes; the arguments of the last PushGetBlocks; *)
(* clean says that the version handler did ask for blocks, and that        *)
(* nothing was left in mapAlreadyAskedFor from an earlier connection.      *)
(* far: setInventoryKnown, vInventoryToSend, hashContinue.                 *)
(***************************************************************************)
NewNear == [mapAskFor |-> << >>, retry |-> << >>, last |-> <<NoItem, NoItem>>, clean |-> FALSE]
NewFar == [known |-> {}, toSend |-> << >>, hashContinue |-> NoItem]
Closed == [NewNear EXCEPT !.last = << >>]

DownloadInit ==
    /\ \E s \in Starts : bestItem = s[1] /\ tip = s[2]
    /\ mapBlocks = Branch[bestItem] /\ waiting = {} /\ mapAsked = {}
    /\ tips = 0 /\ losses = 0
    /\ near = Closed /\ far = NewFar
    /\ up = << >> /\ down = << >>

Connected == near # Closed

-----------------------------------------------------------------------------
(* CBlockLocator: how far back its k-th entry lies, and the blocks it lists. *)
Back[k \in 0 .. Cardinality(Item)] ==
    IF k = 0 THEN 0 ELSE Back[k - 1] + 2 ^ (IF k - 1 > Dense THEN k - 1 - Dense ELSE 0)

\* The block of the branch of b at height h.
At(b, h) == CHOOSE a \in Branch[b] : High[a] = h

Locator(b) == {Root} \cup {At(b, High[b] - d) : d \in {Back[k] : k \in DOMAIN Back} \cap 0 .. High[b]}

\* CBlockLocator::GetBlockIndex at the peer.
LastCommon(from) ==
    At(tip, CHOOSE h \in {High[a] : a \in Locator(from) \cap Branch[tip]} :
                \A a \in Locator(from) \cap Branch[tip] : High[a] <= h)

IsStake(b) == b \in DOMAIN Kernel

\* GetLastBlockIndex(pindexBest, false) of the peer.
LastProofOfWork ==
    At(tip, CHOOSE h \in 0 .. High[tip] :
                /\ ~IsStake(At(tip, h))
                /\ \A i \in h + 1 .. High[tip] : IsStake(At(tip, i)))

Have(b) == b \in mapBlocks \cup waiting

\* GetOrphanRoot, also of a block that is not yet in mapOrphanBlocks itself.
RootOf(b) ==
    At(b, CHOOSE h \in 1 .. High[b] :
              /\ Parent[At(b, h)] \notin waiting
              /\ \A i \in h .. High[b] - 1 : At(b, i) \in waiting)

-----------------------------------------------------------------------------
(* The calls the handlers of the node make; d holds what they change.      *)
PushGetBlocks(d, begin, end) ==
    IF <<begin, end>> = d.near.last THEN d
    ELSE [d EXCEPT !.near.last = <<begin, end>>,
                   !.up = Append(@, [type |-> "getblocks", from |-> begin, stop |-> end])]

\* A block asked for before, of whichever connection, is asked for again later.
AskFor(d, b) ==
    IF b \in d.asked
    THEN IF b \in Range(d.near.mapAskFor \o d.near.retry) THEN d
         ELSE [d EXCEPT !.near.retry = Append(@, b)]
    ELSE [d EXCEPT !.asked = @ \cup {b}, !.near.mapAskFor = Append(@, b)]

Now == [near |-> near, up |-> up, asked |-> mapAsked]
Becomes(d) == near' = d.near /\ up' = d.up /\ mapAsked' = d.asked

\* The version handler: with other connections only the first peer is asked.
Connect ==
    /\ ~Connected
    /\ LET fresh == [Now EXCEPT !.near = NewNear] IN
       IF OtherPeers /\ losses > 0
       THEN Becomes(fresh)
       ELSE Becomes([PushGetBlocks(fresh, bestItem, NoItem) EXCEPT !.near.clean = (mapAsked = {})])
    /\ UNCHANGED <<mapBlocks, bestItem, waiting, tip, tips, losses, far, down>>

\* The inv handler at one entry of the message.
InvEntry(d, b, fLast) ==
    IF ~Have(b) THEN AskFor(d, b)
    ELSE IF b \in waiting THEN PushGetBlocks(d, bestItem, RootOf(b))
    ELSE IF fLast THEN PushGetBlocks(d, b, NoItem)
    ELSE d

Received(type) == Connected /\ down # << >> /\ Head(down).type = type

HandleInv ==
    /\ Received("inv")
    /\ LET inv == Head(down).blocks IN
       Becomes(FoldLeft(LAMBDA d, i : InvEntry(d, inv[i], i = Len(inv)),
                        Now, [i \in 1 .. Len(inv) |-> i]))
    /\ down' = Tail(down)
    /\ UNCHANGED <<mapBlocks, bestItem, waiting, tip, tips, losses, far>>

\* CheckProofOfStake finds the kernel's transaction in the best chain.
StakeConnects(b) == IsStake(b) => Kernel[b] \in Branch[bestItem]

\* Altered: every orphan comes with b.
Accepted_All(b) == {b} \cup waiting

\* b and the orphans that come with it, when its parent is there.
Accepted(b) == {b} \cup {o \in waiting : Branch[o] \ mapBlocks \subseteq waiting \cup {b}}

\* The best block afterwards; the first one to get there stays.
NewBest(blocks) ==
    {c \in blocks \cup {bestItem} : /\ \A a \in blocks \cup {bestItem} : High[a] <= High[c]
                                    /\ High[c] = High[bestItem] => c = bestItem}

\* Altered: the orphan root is not asked for.
Missing_Nothing(d, b) == d
Missing(d, b) == PushGetBlocks(d, bestItem, RootOf(b))

\* The block handler and ProcessBlock, during the initial download or not.
HandleBlock(initialDownload) ==
    /\ Received("block")
    /\ down' = Tail(down)
    /\ UNCHANGED <<tip, tips, losses, far>>
    /\ LET b == Head(down).block IN
       IF Have(b) \/ ~StakeConnects(b)
       THEN UNCHANGED <<mapBlocks, bestItem, waiting, near, up, mapAsked>>
       ELSE IF Parent[b] \in mapBlocks
       THEN /\ mapBlocks' = mapBlocks \cup Accepted(b)
            /\ waiting' = waiting \ Accepted(b)
            /\ bestItem' \in NewBest(Accepted(b))
            /\ mapAsked' = mapAsked \ {b}
            /\ UNCHANGED <<near, up>>
       ELSE /\ waiting' = waiting \cup {b}
            /\ LET d == Missing(Now, b)
                   e == IF initialDownload THEN d ELSE AskFor(d, Parent[RootOf(b)]) IN
               Becomes([e EXCEPT !.asked = @ \ {b}])
            /\ UNCHANGED <<mapBlocks, bestItem>>

\* SendMessages of the node: mapAskFor as far as it is due.
SendGetData ==
    /\ Connected /\ near.mapAskFor # << >>
    /\ LET wanted == SelectSeq(near.mapAskFor, LAMBDA b : ~Have(b)) IN
       up' = IF wanted = << >> THEN up ELSE Append(up, [type |-> "getdata", blocks |-> wanted])
    /\ near' = [near EXCEPT !.mapAskFor = << >>]
    /\ UNCHANGED <<mapBlocks, bestItem, waiting, mapAsked, tip, tips, losses, far, down>>

\* Two minutes later.
RetryIsDue ==
    /\ Connected /\ near.retry # << >>
    /\ near' = [near EXCEPT !.retry = Tail(@), !.mapAskFor = Append(@, Head(near.retry))]
    /\ UNCHANGED <<mapBlocks, bestItem, waiting, mapAsked, tip, tips, losses, far, up, down>>

-----------------------------------------------------------------------------
(* The peer.  SendMessages sends a repeated entry once, so it is kept once. *)
PushInventory(f, b) ==
    IF b \in f.known \cup Range(f.toSend) THEN f ELSE [f EXCEPT !.toSend = Append(@, b)]

\* Altered: the end of a batch is not noted.
Continue_Never(f, b) == f
Continue(f, b) == [f EXCEPT !.hashContinue = b]

\* The getblocks handler of the peer.
Listed(from, stop) ==
    LET first == High[LastCommon(from)] + 1
        stops == stop \in Branch[tip] /\ High[stop] >= first
        end == IF stops THEN High[stop] - 1 ELSE High[tip]
        full == end - first + 1 >= Limit
        last == IF full THEN first + Limit - 1 ELSE end
        f == FoldLeft(PushInventory, far,
                      [i \in 1 .. last - first + 1 |-> At(tip, first + i - 1)]) IN
    IF full THEN Continue(f, At(tip, last))
    ELSE IF stops /\ stop # tip /\ Time[stop] + MinAge > Time[tip] THEN PushInventory(f, tip)
    ELSE f

Requested(type) == Connected /\ up # << >> /\ Head(up).type = type

ServeGetBlocks ==
    /\ Requested("getblocks")
    /\ far' = Listed(Head(up).from, Head(up).stop)
    /\ up' = Tail(up)
    /\ UNCHANGED <<mapBlocks, bestItem, waiting, mapAsked, tip, tips, losses, near, down>>

\* What the getdata handler does at one block: s is <<hashContinue, messages>>.
Serve(s, b) ==
    LET sent == Append(s[2], [type |-> "block", block |-> b]) IN
    IF b = s[1] THEN <<NoItem, Append(sent, [type |-> "inv", blocks |-> <<LastProofOfWork>>])>>
    ELSE <<s[1], sent>>

ServeGetData ==
    /\ Requested("getdata")
    /\ LET s == FoldLeft(Serve, <<far.hashContinue, down>>, Head(up).blocks) IN
       /\ far' = [far EXCEPT !.hashContinue = s[1]]
       /\ down' = s[2]
    /\ up' = Tail(up)
    /\ UNCHANGED <<mapBlocks, bestItem, waiting, mapAsked, tip, tips, losses, near>>

SendInv ==
    /\ Connected /\ far.toSend # << >>
    /\ down' = Append(down, [type |-> "inv", blocks |-> far.toSend])
    /\ far' = [far EXCEPT !.known = @ \cup Range(far.toSend), !.toSend = << >>]
    /\ UNCHANGED <<mapBlocks, bestItem, waiting, mapAsked, tip, tips, losses, near, up>>

\* The peer gets a new best block, perhaps on another branch, and relays it.
NewTip(b) ==
    /\ tips < MaxTips /\ tips' = tips + 1
    /\ High[b] = High[tip] + 1
    /\ tip' = b
    /\ far' = IF Connected THEN PushInventory(far, b) ELSE far
    /\ UNCHANGED <<mapBlocks, bestItem, waiting, mapAsked, losses, near, up, down>>

\* The connection breaks; what belongs to it is lost.
LoseConnection ==
    /\ Connected
    /\ losses < MaxLosses /\ losses' = losses + 1
    /\ near' = Closed /\ far' = NewFar /\ up' = << >> /\ down' = << >>
    /\ UNCHANGED <<mapBlocks, bestItem, waiting, mapAsked, tip, tips>>

NodeStep == \/ Connect \/ HandleInv \/ SendGetData \/ RetryIsDue
            \/ \E i \in BOOLEAN : HandleBlock(i)
PeerStep == ServeGetBlocks \/ ServeGetData \/ SendInv

DownloadNext == NodeStep \/ PeerStep \/ LoseConnection \/ \E b \in Item : NewTip(b)

(***************************************************************************)
(* ThreadMessageHandler visits every connection and calls ProcessMessages  *)
(* and SendMessages in turn, ThreadOpenConnections connects again: weak    *)
(* fairness of NodeStep and of PeerStep, with ENABLED written out (TLC     *)
(* evaluates ENABLED of these actions very slowly).                        *)
(***************************************************************************)
NodeHasWork == \/ ~Connected
               \/ down # << >> \/ near.mapAskFor # << >> \/ near.retry # << >>
PeerHasWork == Connected /\ (up # << >> \/ far.toSend # << >>)

DownloadFairness ==
    /\ []<>(~NodeHasWork) \/ []<><<NodeStep>>_downloadVars
    /\ []<>(~PeerHasWork) \/ []<><<PeerStep>>_downloadVars

DownloadSpec == DownloadInit /\ [][DownloadNext]_downloadVars /\ DownloadFairness

-----------------------------------------------------------------------------
DownloadTypeOK ==
    /\ mapBlocks \subseteq Item /\ waiting \subseteq Item \ mapBlocks /\ mapAsked \subseteq Item
    /\ bestItem \in mapBlocks /\ tip \in Item
    /\ \A b \in mapBlocks : Branch[b] \subseteq mapBlocks
    /\ Range(near.retry) \subseteq Item /\ near.clean \in BOOLEAN
    /\ Range(near.mapAskFor) \subseteq Item
    /\ Range(far.toSend) \cap far.known = {}
    /\ far.known \subseteq Item /\ far.hashContinue \in Item \cup {NoItem}

\* Nothing is under way on the connection.
Quiet == /\ Connected /\ up = << >> /\ down = << >>
         /\ near.mapAskFor = << >> /\ near.retry = << >> /\ far.toSend = << >>

\* When the connection falls silent the node has at least the last proof-of-work
\* block of the peer's chain: PushGetBlocks' filter, setInventoryKnown,
\* hashContinue and the requests for orphan roots lose nothing of it together.
SilenceMeansSynced == Quiet /\ near.clean => High[bestItem] >= High[LastProofOfWork]

\* Both: what the node knows and has asked for agree, and a silent connection has nothing
\* left to fetch.
DownloadIsSound == DownloadTypeOK /\ SilenceMeansSynced

\* Under fair scheduling of the two message threads the node comes to that block
\* for good, whatever the order and timing of messages and new blocks.
EventuallyDownloaded == <>[](near.clean => High[bestItem] >= High[LastProofOfWork])

\* main.cpp:3374 says that the inv at the end of a batch is to trigger a request
\* for the next one: the connection does not fall silent with blocks missing.
NextBatchIsRequested == Quiet /\ near.clean => High[bestItem] >= High[tip]
=============================================================================
