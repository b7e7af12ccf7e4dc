------------------------------ MODULE Messages ------------------------------
(***************************************************************************)
(* What comes out of a peer's byte stream, and what the node makes of an   *)
(* alert: net.cpp, main.cpp, alert.cpp.                                    *)
(***************************************************************************)
EXTENDS Integers, Sequences, SequencesExt, FiniteSets

-----------------------------------------------------------------------------
(***************************************************************************)
(* Messages between two nodes as cells of a stream: threads put them into  *)
(* vSend under cs_vSend, the socket thread sends what is there, the other  *)
(* node's appends to vRecv what comes, and ProcessMessages takes the       *)
(* messages out of it again.  The link may damage a cell.                  *)
(***************************************************************************)
CONSTANTS
    Sender,       \* threads that push messages
    Payloads,     \* the data of messages, sequences of cells
    RecvLimit,    \* ReceiveBufferSize
    MaxPushed, MaxDamages   \* bounds

VARIABLES
    csSend,       \* the thread that has cs_vSend, NoThread
    vSend,
    nHeaderStart, \* cells of vSend before the message that is being made, -1
    wireCells,
    vRecv,
    closed,       \* fDisconnect of the receiver
    sentFrames,   \* the messages completed, in order (history)
    processed,    \* the messages that ProcessMessage got, in order (history)
    hurt,         \* indices in sentFrames of the messages with a damaged cell (history)
    begun         \* messages begun (bound)

frameVars == <<csSend, vSend, nHeaderStart, wireCells, vRecv, closed, sentFrames, processed, hurt, begun>>

NoThread == "none"
FrameStart == <<<<"m">>, <<"g">>>>
HeaderSize == 4
CellsTo(n) == SubSeq(vSend, 1, IF n < Len(vSend) THEN n ELSE Len(vSend))
\* The fourth cell is the checksum, as strong as the data itself.
Header(data) == FrameStart \o <<<<"size", Len(data)>>, <<"sum", data>>>>
Frame(data) == Header(data) \o data

-----------------------------------------------------------------------------
FramingInit ==
    /\ csSend = NoThread /\ vSend = <<>> /\ nHeaderStart = -1
    /\ wireCells = <<>> /\ vRecv = <<>> /\ closed = FALSE
    /\ sentFrames = <<>> /\ processed = <<>> /\ hurt = {} /\ begun = 0

\* BeginMessage; a second one before EndMessage aborts the first.
BeginMessage(t) ==
    /\ csSend \in {NoThread, t} /\ begun < MaxPushed
    /\ csSend' = t /\ begun' = begun + 1
    /\ LET kept == IF nHeaderStart = -1 THEN vSend ELSE CellsTo(nHeaderStart) IN
       /\ nHeaderStart' = Len(kept)
       /\ vSend' = kept \o Header(<<>>)
    /\ UNCHANGED <<wireCells, vRecv, closed, sentFrames, processed, hurt>>

\* The data are streamed behind the header.
Stream(t) ==
    /\ csSend = t /\ Len(vSend) = nHeaderStart + HeaderSize
    /\ \E data \in Payloads : vSend' = vSend \o data
    /\ UNCHANGED <<csSend, nHeaderStart, wireCells, vRecv, closed, sentFrames, processed, hurt, begun>>

\* AbortMessage: an exception while streaming, or EndMessageAbortIfEmpty.
AbortMessage_KeepsHeader(t) ==
    /\ csSend = t
    /\ csSend' = NoThread /\ nHeaderStart' = -1
    /\ UNCHANGED <<vSend, wireCells, vRecv, closed, sentFrames, processed, hurt, begun>>

AbortMessage(t) ==
    /\ csSend = t
    /\ vSend' = CellsTo(nHeaderStart)
    /\ csSend' = NoThread /\ nHeaderStart' = -1
    /\ UNCHANGED <<wireCells, vRecv, closed, sentFrames, processed, hurt, begun>>

\* EndMessage sets the size and the checksum.
EndMessage(t) ==
    LET data == SubSeq(vSend, nHeaderStart + HeaderSize + 1, Len(vSend)) IN
    /\ csSend = t
    /\ vSend' = CellsTo(nHeaderStart) \o Frame(data)
    /\ sentFrames' = Append(sentFrames, data)
    /\ csSend' = NoThread /\ nHeaderStart' = -1
    /\ UNCHANGED <<wireCells, vRecv, closed, processed, hurt, begun>>

-----------------------------------------------------------------------------
\* send takes some of vSend; the thread only tries the lock.
SocketSend_NoLock ==
    /\ vSend # <<>> /\ ~closed
    /\ \E n \in 1 .. Len(vSend) :
        /\ wireCells' = wireCells \o SubSeq(vSend, 1, n)
        /\ vSend' = SubSeq(vSend, n + 1, Len(vSend))
    /\ UNCHANGED <<csSend, nHeaderStart, vRecv, closed, sentFrames, processed, hurt, begun>>

SocketSend ==
    /\ csSend = NoThread /\ vSend # <<>> /\ ~closed
    /\ \E n \in {1, Len(vSend)} :
        /\ wireCells' = wireCells \o SubSeq(vSend, 1, n)
        /\ vSend' = SubSeq(vSend, n + 1, Len(vSend))
    /\ UNCHANGED <<csSend, nHeaderStart, vRecv, closed, sentFrames, processed, hurt, begun>>

\* A buffer over the limit ends the connection, before anything more is read.
SocketReceive ==
    /\ wireCells # <<>> /\ ~closed
    /\ IF Len(vRecv) > RecvLimit
       THEN closed' = TRUE /\ UNCHANGED <<wireCells, vRecv>>
       ELSE /\ \E n \in {1, Len(wireCells)} :
                /\ vRecv' = vRecv \o SubSeq(wireCells, 1, n)
                /\ wireCells' = SubSeq(wireCells, n + 1, Len(wireCells))
            /\ UNCHANGED closed
    /\ UNCHANGED <<csSend, vSend, nHeaderStart, sentFrames, processed, hurt, begun>>

\* The message that holds the i-th last of the cells sent.
FramesAt(i) ==
    LET lens(k) == FoldLeft(+, 0, [j \in 1 .. Len(sentFrames) - k + 1 |->
                                     HeaderSize + Len(sentFrames[Len(sentFrames) - j + 1])])
        holders == {k \in DOMAIN sentFrames : lens(k) >= i /\ (k < Len(sentFrames) => lens(k + 1) < i)}
    IN  holders

Damage ==
    /\ Cardinality(hurt) < MaxDamages /\ csSend = NoThread
    /\ \E i \in DOMAIN wireCells :
        /\ wireCells' = [wireCells EXCEPT ![i] = IF @[1] = "size" THEN <<"size", @[2] + 1>> ELSE <<"x">>]
        /\ hurt' = hurt \cup FramesAt(Len(wireCells) - i + 1 + Len(vSend))
    /\ UNCHANGED <<csSend, vSend, nHeaderStart, vRecv, closed, sentFrames, processed, begun>>

-----------------------------------------------------------------------------
Starts(cells) ==
    {i \in 1 .. Len(cells) - 1 : cells[i] = FrameStart[1] /\ cells[i + 1] = FrameStart[2]}

\* The cells of vRecv from the first message start on.
FromStart ==
    IF Starts(vRecv) = {} THEN <<>>
    ELSE SubSeq(vRecv, CHOOSE i \in Starts(vRecv) : \A j \in Starts(vRecv) : i <= j, Len(vRecv))

\* No whole header: the last cells are kept, for a message start may be among them.
Skip_All == <<>>
Skip == IF Len(vRecv) > HeaderSize THEN SubSeq(vRecv, Len(vRecv) - HeaderSize + 1, Len(vRecv)) ELSE vRecv

\* After an error in the header or the checksum only the header is gone: the search for the
\* next message start goes on in the data.
AfterError_WholeMessage(cells) ==
    SubSeq(cells, HeaderSize + 1 + (IF cells[3][1] = "size" THEN cells[3][2] ELSE 0), Len(cells))
AfterError(cells) == SubSeq(cells, HeaderSize + 1, Len(cells))

\* One turn of the loop of ProcessMessages, and whether there is another.
ProcessMessages ==
    LET cells == FromStart
        size  == IF cells[3][1] = "size" THEN cells[3][2] ELSE 0
        data  == SubSeq(cells, HeaderSize + 1, HeaderSize + size)
        rest  == SubSeq(cells, HeaderSize + size + 1, Len(cells))
    IN
    /\ ~closed
    /\ IF Len(cells) < HeaderSize
       THEN vRecv' = Skip /\ vRecv' # vRecv /\ UNCHANGED processed
       ELSE \/ /\ cells[3][1] # "size"
               /\ vRecv' = AfterError(cells) /\ UNCHANGED processed
            \/ /\ cells[3][1] = "size" /\ HeaderSize + size <= Len(cells)
               /\ IF cells[4] = <<"sum", data>>
                  THEN vRecv' = rest /\ processed' = Append(processed, data)
                  ELSE vRecv' = AfterError(cells) /\ UNCHANGED processed
    /\ UNCHANGED <<csSend, vSend, nHeaderStart, wireCells, closed, sentFrames, hurt, begun>>

FramingNext ==
    \/ \E t \in Sender : BeginMessage(t) \/ Stream(t) \/ AbortMessage(t) \/ EndMessage(t)
    \/ SocketSend \/ SocketReceive \/ Damage \/ ProcessMessages

-----------------------------------------------------------------------------
\* What was sent and came whole, in order.
Unhurt == SelectSeq([i \in DOMAIN sentFrames |-> <<i, sentFrames[i]>>], LAMBDA f : f[1] \notin hurt)
Expected == [i \in DOMAIN Unhurt |-> Unhurt[i][2]]

\* Whatever threads push and wherever the stream is cut, the other node gets the messages
\* that were completed, once and in their order, and none that was aborted (net.h:338,
\* main.cpp:3743).
FramesKeepOrder == hurt = {} => IsPrefix(processed, sentFrames)

\* A damaged message costs only itself: when nothing is on its way and ProcessMessages has
\* nothing to do, the others have come, unless it still waits for data that a damaged size
\* promised, or the damaged data hold a message start, which then passes for a header.
Waits == FromStart # <<>> /\ (Len(FromStart) < HeaderSize \/ FromStart[3][1] = "size")
DamageIsLocal ==
    /\ csSend = NoThread /\ vSend = <<>> /\ wireCells = <<>> /\ ~closed
    /\ ~ENABLED ProcessMessages /\ ~Waits
    /\ \A i \in hurt : Starts(sentFrames[i]) = {}
    => processed = Expected

FramesArrive == FramesKeepOrder /\ DamageIsLocal

-----------------------------------------------------------------------------
(***************************************************************************)
(* Alerts of the operator on the way through the nodes: sendalert,         *)
(* ProcessAlert with its cancellations, RelayTo, the version handler that  *)
(* hands on what a node holds, and what GetWarnings makes of it.  A link   *)
(* may break and lose what is on its way; nodes share one clock.           *)
(***************************************************************************)
CONSTANTS
    Host,
    Priority,    \* nPriority of the alerts the operator sends, by nID
    Conditions,  \* [priority, rpc] of what GetWarnings looks at before the alerts
    Lifetime,    \* nExpiration - now at sendalert, also nRelayUntil
    MaxAlerts,   \* bound on the alerts sent
    MaxAlertTime,\* bound on the clock
    MaxLinks     \* bound on the connections made

\* Each alert the operator may send has a priority; of what GetWarnings looks at before, the
\* invalid checkpoint alone has one above 1000, and it is a safe mode.
ASSUME AlertAssumption ==
    /\ Lifetime \in Nat /\ MaxAlerts \in Nat
    /\ 1 .. MaxAlerts \subseteq DOMAIN Priority
    /\ \A a \in 1 .. MaxAlerts : Priority[a] \in Int
    /\ Conditions \subseteq [priority : Nat, rpc : BOOLEAN]
    /\ \A c \in Conditions : c.priority > 1000 => c.rpc

VARIABLES
    issued,      \* the alerts sent so far, by nID: each was sent with a new, higher one
    mapAlerts,   \* [node -> the nIDs it holds]
    links,       \* <<m, n>> when m has connected to n
    wire,        \* [<<m, n>> -> messages from m to n]: Version or an nID
    nVersion,    \* <<n, m>> when n has the version message of m
    setKnown,    \* [<<n, m>> -> nIDs that m has, as n believes]
    alertTime, linkCount,
    early        \* <<n, m, id>>: id was pushed to m before the version message of n (history)

alertVars == <<issued, mapAlerts, links, wire, nVersion, setKnown, alertTime, linkCount, early>>

Version == 0
Pair == {p \in Host \X Host : p[1] # p[2]}
Linked(m, n) == <<m, n>> \in links \/ <<n, m>> \in links
Peers(n) == {m \in Host : m # n /\ Linked(m, n)}

IsInEffect(a) == alertTime < issued[a].expires
Cancels(a, b) == IsInEffect(a) /\ b <= issued[a].cancel

\* What ProcessAlert leaves in mapAlerts of what was there.
Left(n, a) == {b \in mapAlerts[n] : ~Cancels(a, b) /\ IsInEffect(b)}

Cancelled_Never(n, a) == FALSE
Cancelled(n, a) == \E b \in Left(n, a) : Cancels(b, a)

\* mapAlerts after ProcessAlert; an alert that is refused may still have cancelled others.
AfterProcess(n, a) ==
    IF ~IsInEffect(a) THEN mapAlerts[n]
    ELSE Left(n, a) \cup (IF Cancelled(n, a) THEN {} ELSE {a})

\* The orders in which a loop over the map may find the alerts of S: that of their hashes.
Orders(S) == {s \in [1 .. Cardinality(S) -> S] : {s[i] : i \in DOMAIN s} = S}

\* The alerts that RelayTo, called for each, pushes from n to m.
Pushed(n, m) == {a \in mapAlerts[n] : IsInEffect(a) /\ a \notin setKnown[<<n, m>>]}

-----------------------------------------------------------------------------
AlertsInit ==
    /\ issued = <<>>
    /\ mapAlerts = [n \in Host |-> {}]
    /\ links = {} /\ nVersion = {}
    /\ wire = [p \in Pair |-> <<>>] /\ setKnown = [p \in Pair |-> {}]
    /\ alertTime = 0 /\ linkCount = 0
    /\ early = {}

\* RelayTo for each of vNodes, whose handshake it does not wait for.
Relay(n, a, known, w) ==
    LET to == {m \in Peers(n) : a \notin known[<<n, m>>]} IN
    /\ setKnown' = [p \in Pair |-> IF p[1] = n /\ p[2] \in to THEN known[p] \cup {a} ELSE known[p]]
    /\ wire' = [p \in Pair |-> IF p[1] = n /\ p[2] \in to THEN Append(w[p], a) ELSE w[p]]
    /\ early' = early \cup {<<n, m, a>> : m \in {m \in to : /\ <<m, n>> \in links
                                                            /\ <<n, m>> \notin nVersion}}

\* sendalert at node n: the next nID, cancelling up to an earlier one.
SendAlert(n) ==
    /\ Len(issued) < MaxAlerts
    /\ \E cancel \in 0 .. Len(issued) :
        issued' = Append(issued, [cancel |-> cancel, expires |-> alertTime + Lifetime])
    /\ LET a == Len(issued') IN
       /\ mapAlerts' = [mapAlerts EXCEPT ![n] =
            {b \in @ : b > issued'[a].cancel /\ IsInEffect(b)} \cup {a}]
       /\ Relay(n, a, setKnown, wire)
    /\ UNCHANGED <<links, nVersion, alertTime, linkCount>>

-----------------------------------------------------------------------------
\* OpenNetworkConnection: the node that connects sends its version message at once.
Connect(m, n) ==
    /\ ~Linked(m, n) /\ linkCount < MaxLinks
    /\ links' = links \cup {<<m, n>>} /\ linkCount' = linkCount + 1
    /\ wire' = [wire EXCEPT ![<<m, n>>] = <<Version>>]
    /\ UNCHANGED <<issued, mapAlerts, nVersion, setKnown, alertTime, early>>

\* The link breaks; both nodes delete their CNode.
Disconnect(m, n) ==
    /\ <<m, n>> \in links
    /\ links' = links \ {<<m, n>>}
    /\ wire' = [wire EXCEPT ![<<m, n>>] = <<>>, ![<<n, m>>] = <<>>]
    /\ nVersion' = nVersion \ {<<m, n>>, <<n, m>>}
    /\ setKnown' = [setKnown EXCEPT ![<<m, n>>] = {}, ![<<n, m>>] = {}]
    /\ early' = {e \in early : {e[1], e[2]} # {m, n}}
    /\ UNCHANGED <<issued, mapAlerts, alertTime, linkCount>>

\* The version handler: an accepted connection answers with its own, then the alerts follow.
OnVersion_NoAlerts(m, n) ==
    /\ nVersion' = nVersion \cup {<<n, m>>}
    /\ wire' = [wire EXCEPT ![<<m, n>>] = Tail(@),
                            ![<<n, m>>] = @ \o (IF <<m, n>> \in links THEN <<Version>> ELSE <<>>)]
    /\ UNCHANGED <<issued, mapAlerts, links, setKnown, alertTime, linkCount, early>>

OnVersion(m, n) ==
    /\ nVersion' = nVersion \cup {<<n, m>>}
    /\ \E todo \in Orders(Pushed(n, m)) :
        wire' = [wire EXCEPT ![<<m, n>>] = Tail(@),
                             ![<<n, m>>] = @ \o (IF <<m, n>> \in links THEN <<Version>> ELSE <<>>)
                                             \o todo]
    /\ setKnown' = [setKnown EXCEPT ![<<n, m>>] = @ \cup Pushed(n, m)]
    /\ UNCHANGED <<issued, mapAlerts, links, alertTime, linkCount, early>>

\* The alert handler.  A message before the version message is refused (Misbehaving(1)),
\* an alert that ProcessAlert refuses costs the peer 10.
OnAlert(m, n, a) ==
    LET popped == [wire EXCEPT ![<<m, n>>] = Tail(@)] IN
    /\ UNCHANGED <<issued, links, nVersion, alertTime, linkCount>>
    /\ IF <<n, m>> \notin nVersion \/ a \in setKnown[<<n, m>>]
       THEN wire' = popped /\ UNCHANGED <<mapAlerts, setKnown, early>>
       ELSE /\ mapAlerts' = [mapAlerts EXCEPT ![n] = AfterProcess(n, a)]
            /\ IF IsInEffect(a) /\ ~Cancelled(n, a)
               THEN Relay(n, a, [setKnown EXCEPT ![<<n, m>>] = @ \cup {a}], popped)
               ELSE wire' = popped /\ UNCHANGED <<setKnown, early>>

ReceiveFrom(m, n) ==
    /\ wire[<<m, n>>] # <<>>
    /\ \/ /\ Head(wire[<<m, n>>]) = Version
          /\ OnVersion(m, n)
       \/ /\ Head(wire[<<m, n>>]) # Version
          /\ OnAlert(m, n, Head(wire[<<m, n>>]))

AlertTick ==
    /\ alertTime < MaxAlertTime
    /\ alertTime' = alertTime + 1
    /\ UNCHANGED <<issued, mapAlerts, links, wire, nVersion, setKnown, linkCount, early>>

AlertsNext ==
    \/ \E n \in Host : SendAlert(n)
    \/ \E p \in Pair : Connect(p[1], p[2]) \/ Disconnect(p[1], p[2]) \/ ReceiveFrom(p[1], p[2])
    \/ AlertTick

AlertsSpec == AlertsInit /\ [][AlertsNext]_alertVars

-----------------------------------------------------------------------------
\* GetWarnings over the alerts in the order of mapAlerts, which is that of their hashes.
Warn_AtOnce(found, priority) ==
    IF priority > found.priority THEN [priority |-> priority, rpc |-> TRUE] ELSE found

Warn(found, priority) ==
    IF priority > found.priority
    THEN [priority |-> priority, rpc |-> found.rpc \/ priority > 1000] ELSE found

GetWarnings(order, before) ==
    LET found[i \in 0 .. Len(order)] ==
          IF i = 0 THEN before
          ELSE Warn(found[i - 1], IF IsInEffect(order[i]) THEN Priority[order[i]] ELSE -1)
    IN  found[Len(order)]

\* A node shows no alert that another one it holds has cancelled, in whatever order the two
\* came (alert.cpp:185-214).
AlertsAreCurrent ==
    \A n \in Host : \A a, b \in mapAlerts[n] : a # b /\ IsInEffect(b) => ~Cancels(a, b)

\* When nothing is on its way between two nodes, what one of them holds the other holds or
\* has seen cancelled - but for an alert that RelayTo pushed before the handshake: it is
\* marked known and refused, and the version handler skips it (alert.cpp:134, main.cpp:3184).
AlertsArrive(but) ==
    \A p \in Pair : LET m == p[1]  n == p[2] IN
        /\ Linked(m, n) /\ {p, <<n, m>>} \subseteq nVersion
        /\ wire[p] = <<>> /\ wire[<<n, m>>] = <<>>
        => \A a \in mapAlerts[m] : IsInEffect(a) /\ <<m, n, a>> \notin but
            => a \in mapAlerts[n] \/ \E b \in mapAlerts[n] : Cancels(b, a)

\* Safe mode follows from what is in effect, not from the order of the hashes.
SafeModeIsRight ==
    \A n \in Host, before \in Conditions :
        \A order \in Orders(mapAlerts[n]) :
            GetWarnings(order, before).rpc
            <=> before.rpc \/ \E a \in mapAlerts[n] : IsInEffect(a) /\ Priority[a] > 1000

AlertsAreRight == AlertsAreCurrent /\ AlertsArrive(early) /\ SafeModeIsRight

\* Without the exception: what the code does not keep.
EveryAlertArrives == AlertsArrive({})
=============================================================================
