-------------------------------- MODULE Peers --------------------------------
(***************************************************************************)
(* The connections of the node (CNode, net.cpp) and the threads that open, *)
(* serve and close them: ThreadSocketHandler, ThreadMessageHandler, and    *)
(* ThreadOpenConnections and ThreadOpenAddedConnections, which share the   *)
(* slots of semOutbound.  vNodes is read and changed under cs_vNodes, each *)
(* such section is one step; what a thread does with a CNode* between two  *)
(* sections is protected by nRefCount alone.  (The one AddRef outside of   *)
(* the lock, in ConnectNode, is taken to be atomic.)                       *)
(***************************************************************************)
EXTENDS Integers, FiniteSets

CONSTANTS
    Node,           \* connections, one after the other
    Addr,           \* the addresses of peers
    Opener,         \* the threads that open connections
    MaxOutbound,    \* MAX_OUTBOUND_CONNECTIONS
    MaxInbound,     \* -maxconnections less MAX_OUTBOUND_CONNECTIONS
    NoNode

ASSUME PeersAssumption ==
    /\ NoNode \notin Node
    /\ MaxOutbound \in Nat /\ MaxInbound \in Nat
    /\ IsFiniteSet(Opener)

VARIABLES
    node,           \* [Node -> the connection], see Connection
    semOutbound,    \* the free slots
    setBanned,      \* addresses that are banned now
    opener,         \* [Opener -> where it is, its grant, address and CNode*]
    inUse           \* [thread -> vNodesCopy], every element has been AddRef'ed

peersVars == <<node, semOutbound, setBanned, opener, inUse>>

Handler == {"socket", "message"}

(***************************************************************************)
(* state is "new" before the constructor and "gone" after the destructor;  *)
(* a node is in vNodes while "open", in vNodesDisconnected while "closed". *)
(* held says that nReleaseTime is in the future.                           *)
(***************************************************************************)
Connection == [state : {"new", "open", "closed", "gone"}, addr : Addr \cup {NoNode},
               fInbound : BOOLEAN, fNetworkNode : BOOLEAN, fDisconnect : BOOLEAN,
               nRefCount : Int, held : BOOLEAN, grantOutbound : BOOLEAN]

Unborn == [state |-> "new", addr |-> NoNode, fInbound |-> FALSE, fNetworkNode |-> FALSE,
           fDisconnect |-> FALSE, nRefCount |-> 0, held |-> FALSE, grantOutbound |-> FALSE]

PeersInit ==
    /\ node = [n \in Node |-> Unborn]
    /\ semOutbound = MaxOutbound
    /\ setBanned = {}
    /\ opener = [t \in Opener |-> [at |-> "idle", grant |-> FALSE, addr |-> NoNode, pnode |-> NoNode]]
    /\ inUse = [h \in Handler |-> {}]

vNodes == {n \in Node : node[n].state = "open"}
vNodesDisconnected == {n \in Node : node[n].state = "closed"}

GetRefCount(n) == (IF node[n].nRefCount > 0 THEN node[n].nRefCount ELSE 0)
                  + (IF node[n].held THEN 1 ELSE 0)

\* A new CNode with a reference; new ones are taken in one order.
MakeNode(n, a, inbound) ==
    /\ node[n].state = "new"
    /\ n = CHOOSE m \in Node : node[m].state = "new"
    /\ node' = [node EXCEPT ![n].state = "open", ![n].addr = a, ![n].fInbound = inbound,
                            ![n].nRefCount = 1]

Grants(ns) == Cardinality({n \in ns : node[n].grantOutbound})

-----------------------------------------------------------------------------
(***************************************************************************)
(* OpenNetworkConnection and ConnectNode, of thread t.                     *)
(***************************************************************************)
\* CSemaphoreGrant grant(*semOutbound) waits for a slot.
TakeSlot(t) ==
    /\ opener[t].at = "idle"
    /\ semOutbound > 0
    /\ semOutbound' = semOutbound - 1
    /\ opener' = [opener EXCEPT ![t].at = "granted", ![t].grant = TRUE]
    /\ UNCHANGED <<node, setBanned, inUse>>

\* The grant's destructor.
GiveUp(t) ==
    /\ opener' = [opener EXCEPT ![t] = [at |-> "idle", grant |-> FALSE, addr |-> NoNode, pnode |-> NoNode]]
    /\ semOutbound' = semOutbound + (IF opener[t].grant THEN 1 ELSE 0)

\* An address nobody is connected to and that is not banned, or none.
ChooseAddress(t) ==
    /\ opener[t].at = "granted"
    /\ \/ GiveUp(t)
       \/ \E a \in Addr \ setBanned :
             /\ \A n \in vNodes : node[n].addr # a
             /\ opener' = [opener EXCEPT ![t].at = "checked", ![t].addr = a]
             /\ UNCHANGED semOutbound
    /\ UNCHANGED <<node, setBanned, inUse>>

\* FindNode: somebody may have connected since.
LookForExisting(t) ==
    /\ opener[t].at = "checked"
    /\ IF \E n \in vNodes : node[n].addr = opener[t].addr
       THEN \E n \in vNodes :
               /\ node[n].addr = opener[t].addr
               /\ opener' = [opener EXCEPT ![t].at = "found", ![t].pnode = n]
       ELSE opener' = [opener EXCEPT ![t].at = "connecting"]
    /\ UNCHANGED <<node, semOutbound, setBanned, inUse>>

AddRefExisting(t) ==
    LET n == opener[t].pnode
    IN  /\ opener[t].at = "found"
        /\ node' = [node EXCEPT ![n].nRefCount = @ + 1]
        /\ opener' = [opener EXCEPT ![t].at = "connected"]
        /\ UNCHANGED <<semOutbound, setBanned, inUse>>

\* ConnectSocket succeeds or fails; another thread may have connected meanwhile.
ConnectNode(t) ==
    /\ opener[t].at = "connecting"
    /\ \/ \E n \in Node : /\ MakeNode(n, opener[t].addr, FALSE)
                          /\ opener' = [opener EXCEPT ![t].at = "connected", ![t].pnode = n]
                          /\ UNCHANGED semOutbound
       \/ GiveUp(t) /\ UNCHANGED node
    /\ UNCHANGED <<setBanned, inUse>>

\* Altered: a grant the node has already is overwritten.
MoveTo_Overwrite(n) == 0

\* The slots CSemaphoreGrant::MoveTo releases: the one n has had.
MoveTo(n) == IF node[n].grantOutbound THEN 1 ELSE 0

\* The rest of OpenNetworkConnection; the node may be closed by now.
LinkNode(t) ==
    LET n == opener[t].pnode
    IN  /\ opener[t].at = "connected"
        /\ node' = [node EXCEPT ![n].grantOutbound = TRUE, ![n].fNetworkNode = TRUE]
        /\ semOutbound' = semOutbound + MoveTo(n)
        /\ opener' = [opener EXCEPT ![t] = [at |-> "idle", grant |-> FALSE, addr |-> NoNode,
                                            pnode |-> NoNode]]
        /\ UNCHANGED <<setBanned, inUse>>

-----------------------------------------------------------------------------
(***************************************************************************)
(* ThreadSocketHandler.                                                    *)
(***************************************************************************)
\* Closed, or nobody uses it and its buffers are empty.
Unused == {n \in vNodes : node[n].fDisconnect \/ GetRefCount(n) <= 0}

\* Altered: the reference of the connection is released whoever has made it.
Closed_Releases(c) == [c EXCEPT !.state = "closed", !.fDisconnect = TRUE, !.grantOutbound = FALSE,
                                !.held = TRUE, !.nRefCount = @ - 1]

\* A connection c after it was taken out of vNodes.
Closed(c) == [c EXCEPT !.state = "closed", !.fDisconnect = TRUE, !.grantOutbound = FALSE,
                       !.held = TRUE,
                       !.nRefCount = IF c.fNetworkNode \/ c.fInbound THEN @ - 1 ELSE @]

DisconnectNodes ==
    /\ inUse["socket"] = {}
    /\ Unused # {}
    /\ node' = [n \in Node |-> IF n \in Unused THEN Closed(node[n]) ELSE node[n]]
    /\ semOutbound' = semOutbound + Grants(Unused)
    /\ UNCHANGED <<setBanned, opener, inUse>>

\* No thread is using it.
MayDelete(n) == GetRefCount(n) <= 0

\* In the same section; a lock that is taken (TRY_LOCK) puts it off.
DeleteNode(n) ==
    /\ inUse["socket"] = {}
    /\ n \in vNodesDisconnected
    /\ MayDelete(n)
    /\ node' = [node EXCEPT ![n] = [Unborn EXCEPT !.state = "gone"]]
    /\ semOutbound' = semOutbound + Grants({n})
    /\ UNCHANGED <<setBanned, opener, inUse>>

\* Altered: one connection too many is accepted.
Full_OneMore == Cardinality({n \in vNodes : node[n].fInbound}) > MaxInbound

Full == Cardinality({n \in vNodes : node[n].fInbound}) >= MaxInbound

AcceptConnection(a) ==
    /\ inUse["socket"] = {}
    /\ ~Full
    /\ a \notin setBanned
    /\ \E n \in Node : MakeNode(n, a, TRUE)
    /\ UNCHANGED <<semOutbound, setBanned, opener, inUse>>

\* The socket is closed by the peer, fails, floods, or has been silent too long.
SocketCloses(n) ==
    /\ n \in inUse["socket"]
    /\ ~node[n].fDisconnect
    /\ node' = [node EXCEPT ![n].fDisconnect = TRUE]
    /\ UNCHANGED <<semOutbound, setBanned, opener, inUse>>

-----------------------------------------------------------------------------
(***************************************************************************)
(* The loops over vNodesCopy of the socket and of the message handler.     *)
(***************************************************************************)
CopyNodes(h) ==
    /\ inUse[h] = {}
    /\ vNodes # {}
    /\ inUse' = [inUse EXCEPT ![h] = vNodes]
    /\ node' = [n \in Node |-> IF n \in vNodes THEN [node[n] EXCEPT !.nRefCount = @ + 1] ELSE node[n]]
    /\ UNCHANGED <<semOutbound, setBanned, opener>>

ReleaseNodes(h) ==
    /\ inUse[h] # {}
    /\ inUse' = [inUse EXCEPT ![h] = {}]
    /\ node' = [n \in Node |->
                   IF n \in inUse[h] THEN [node[n] EXCEPT !.nRefCount = @ - 1] ELSE node[n]]
    /\ UNCHANGED <<semOutbound, setBanned, opener>>

\* A message after which the misbehaviour of the peer has reached -banscore.
Misbehaving(n) ==
    /\ n \in inUse["message"]
    /\ setBanned' = setBanned \cup {node[n].addr}
    /\ node' = [node EXCEPT ![n].fDisconnect = TRUE]
    /\ UNCHANGED <<semOutbound, opener, inUse>>

BanExpires(a) ==
    /\ a \in setBanned
    /\ setBanned' = setBanned \ {a}
    /\ UNCHANGED <<node, semOutbound, opener, inUse>>

(***************************************************************************)
(* The fifteen minutes of nReleaseTime are over, which is longer than a    *)
(* thread takes from FindNode to AddRef.                                   *)
(***************************************************************************)
ReleaseTimePasses(n) ==
    /\ node[n].held
    /\ \A t \in Opener : opener[t].at = "found" => opener[t].pnode # n
    /\ node' = [node EXCEPT ![n].held = FALSE]
    /\ UNCHANGED <<semOutbound, setBanned, opener, inUse>>

OpenerStep(t) ==
    \/ TakeSlot(t) \/ ChooseAddress(t) \/ LookForExisting(t) \/ AddRefExisting(t)
    \/ ConnectNode(t) \/ LinkNode(t)

PeersNext ==
    \/ \E t \in Opener : OpenerStep(t)
    \/ DisconnectNodes
    \/ \E a \in Addr : AcceptConnection(a) \/ BanExpires(a)
    \/ \E n \in Node : DeleteNode(n) \/ SocketCloses(n) \/ Misbehaving(n) \/ ReleaseTimePasses(n)
    \/ \E h \in Handler : CopyNodes(h) \/ ReleaseNodes(h)

PeersSpec == PeersInit /\ [][PeersNext]_peersVars

-----------------------------------------------------------------------------
\* Every variable has its type, inbound connections leave room for outbound ones.
PeersTypeOK ==
    /\ node \in [Node -> Connection]
    /\ semOutbound \in 0 .. MaxOutbound
    /\ setBanned \subseteq Addr
    /\ \A t \in Opener : /\ opener[t].at \in {"idle", "granted", "checked", "found",
                                              "connecting", "connected"}
                         /\ opener[t].pnode \in Node \cup {NoNode}
    /\ \A h \in Handler : inUse[h] \subseteq Node
    /\ Cardinality({n \in vNodes : node[n].fInbound}) <= MaxInbound

(***************************************************************************)
(* No thread holds a pointer to a CNode that was deleted: neither the      *)
(* handlers in their copies of vNodes nor an opener between FindNode or    *)
(* vNodes.push_back and its last assignment.                               *)
(***************************************************************************)
NoUseAfterDelete ==
    \A n \in Node : node[n].state = "gone" =>
        /\ \A h \in Handler : n \notin inUse[h]
        /\ \A t \in Opener : opener[t].pnode # n

(***************************************************************************)
(* A slot of semOutbound is free, or some thread or some node has it, also *)
(* when two threads connect to the same peer and the node gets two grants. *)
(***************************************************************************)
SlotsAreConserved ==
    semOutbound + Cardinality({t \in Opener : opener[t].grant})
                + Grants({n \in Node : node[n].state # "gone"}) = MaxOutbound

(***************************************************************************)
(* OpenNetworkConnection "moves the passed grant to the constructed node"  *)
(* and ThreadSocketHandler releases it with the connection: while no       *)
(* thread is opening one, a slot that no open connection has is free.      *)
(***************************************************************************)
SlotsComeBack ==
    (\A t \in Opener : opener[t].at = "idle") => semOutbound + Grants(vNodes) = MaxOutbound

(***************************************************************************)
(* All of it: no connection is used once deleted, and none takes a slot of *)
(* the outbound limit with it.                                             *)
(***************************************************************************)
ConnectionsAreSound == PeersTypeOK /\ NoUseAfterDelete /\ SlotsAreConserved

=============================================================================
