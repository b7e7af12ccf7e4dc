---------------------------- MODULE ThreadsProofs ----------------------------
(***************************************************************************)
(* The threads of the process: the connections of Peers, the threads that  *)
(* Shutdown waits for, the timers of WalletLock, and the locks that all    *)
(* take (LockOrder).  Whatever the peers and the threads do, in whatever   *)
(* order, no CNode is used after its destructor and no slot of semOutbound *)
(* is lost, nothing is closed or deleted under a thread that uses it, no   *)
(* timer locks the wallet before its time, and no threads wait for each    *)
(* other's locks for ever.  In RpcServer, a caller has its answers, each   *)
(* to its request, or a closed connection, and a miner can hand in a job   *)
(* on the best block, however calls and blocks follow each other.          *)
(***************************************************************************)
EXTENDS Peers, Shutdown, WalletLock, LockOrder, RpcServer, FiniteSetTheorems, SequenceTheorems, TLAPS

-----------------------------------------------------------------------------
(***************************************************************************)
(* The inductive invariant.  An opener has a CNode* from FindNode or from  *)
(* ConnectNode to its last assignment, and only then; until AddRef the     *)
(* release time alone keeps that node, and from then on a reference does.  *)
(***************************************************************************)
Place == [at : {"idle", "granted", "checked", "found", "connecting", "connected"},
          grant : BOOLEAN, addr : Addr \cup {NoNode}, pnode : Node \cup {NoNode}]

PeersShape ==
    /\ node \in [Node -> Connection]
    /\ semOutbound \in Nat
    /\ setBanned \subseteq Addr
    /\ opener \in [Opener -> Place]
    /\ inUse \in [Handler -> SUBSET Node]

IsAlive(n) == n \in Node /\ node[n].state \in {"open", "closed"}

PlaceIsRight(t) ==
    /\ opener[t].grant <=> opener[t].at # "idle"
    /\ opener[t].at \in {"checked", "connecting"} => opener[t].addr \in Addr
    /\ IF opener[t].at \in {"found", "connected"} THEN IsAlive(opener[t].pnode)
       ELSE opener[t].pnode = NoNode
    /\ opener[t].at = "found" =>
          node[opener[t].pnode].state = "open" \/ node[opener[t].pnode].held

NodeIsKnown(n) ==
    /\ IsAlive(n) => node[n].addr \in Addr
    /\ node[n].state = "new" => node[n] = Unborn

PointersAreAlive ==
    /\ \A t \in Opener : PlaceIsRight(t)
    /\ \A h \in Handler : \A n \in inUse[h] : IsAlive(n)
    /\ \A n \in Node : NodeIsKnown(n)

\* The references that a node needs: of the handlers, of the openers that have a
\* reference, and the one of the connection that Closed releases.
Linking(n) == {t \in Opener : opener[t].at = "connected" /\ opener[t].pnode = n}
Handling(n) == (IF n \in inUse["socket"] THEN 1 ELSE 0) + (IF n \in inUse["message"] THEN 1 ELSE 0)
OwnRef(n) == IF node[n].state = "open" /\ (node[n].fNetworkNode \/ node[n].fInbound) THEN 1 ELSE 0

Suffices(n) == IsAlive(n) => node[n].nRefCount >= Cardinality(Linking(n)) + Handling(n) + OwnRef(n)

RefsSuffice == \A n \in Node : Suffices(n)

EverOpen == {n \in Node : node[n].state # "new"}
Granted == {t \in Opener : opener[t].grant}
HoldingSlot == {n \in Node : node[n].state # "gone" /\ node[n].grantOutbound}
Inbound == {n \in vNodes : node[n].fInbound}

SlotsFit ==
    /\ IsFiniteSet(EverOpen)
    /\ semOutbound + Cardinality(Granted) + Cardinality(HoldingSlot) = MaxOutbound
    /\ Cardinality(Inbound) <= MaxInbound

PeersInv == PeersShape /\ PointersAreAlive /\ RefsSuffice /\ SlotsFit

-----------------------------------------------------------------------------
(* Sets that gain or lose one element. *)

LEMMA OneMore ==
  ASSUME NEW S, NEW x, IsFiniteSet(S), x \notin S
  PROVE  IsFiniteSet(S \cup {x}) /\ Cardinality(S) \in Nat
         /\ Cardinality(S \cup {x}) = Cardinality(S) + 1
BY FS_AddElement, FS_CardinalityType

LEMMA OneLess ==
  ASSUME NEW S, NEW x, IsFiniteSet(S), x \in S
  PROVE  IsFiniteSet(S \ {x}) /\ Cardinality(S) \in Nat
         /\ Cardinality(S \ {x}) = Cardinality(S) - 1
BY FS_RemoveElement, FS_CardinalityType

LEMMA Disjoint ==
  ASSUME NEW S, IsFiniteSet(S), NEW T, T \subseteq S
  PROVE  /\ IsFiniteSet(T) /\ IsFiniteSet(S \ T)
         /\ Cardinality(T) \in Nat /\ Cardinality(S \ T) \in Nat /\ Cardinality(S) \in Nat
         /\ Cardinality(S \ T) = Cardinality(S) - Cardinality(T)
<1>1. IsFiniteSet(T) /\ IsFiniteSet(S \ T)
  BY FS_Subset
<1>2. Cardinality(T \cup (S \ T)) = Cardinality(T) + Cardinality(S \ T) - Cardinality(T \cap (S \ T))
  BY <1>1, FS_Union
<1>3. T \cup (S \ T) = S /\ T \cap (S \ T) = {}
  OBVIOUS
<1>4. /\ Cardinality(T) \in Nat /\ Cardinality(S \ T) \in Nat /\ Cardinality(S) \in Nat
      /\ Cardinality({}) = 0
  BY <1>1, FS_EmptySet, FS_CardinalityType
<1>5. Cardinality(S) = Cardinality(T) + Cardinality(S \ T) - 0
  BY <1>2, <1>3, <1>4
<1> QED
  BY <1>1, <1>4, <1>5

\* The sets that are counted are finite.
LEMMA CountsAreFinite ==
  ASSUME PeersShape, PointersAreAlive, IsFiniteSet(EverOpen)
  PROVE  /\ IsFiniteSet(Granted) /\ Cardinality(Granted) \in Nat
         /\ IsFiniteSet(HoldingSlot) /\ Cardinality(HoldingSlot) \in Nat
         /\ IsFiniteSet(Inbound) /\ Cardinality(Inbound) \in Nat
         /\ \A n \in Node : IsFiniteSet(Linking(n)) /\ Cardinality(Linking(n)) \in Nat
<1>1. Granted \subseteq Opener /\ \A n \in Node : Linking(n) \subseteq Opener
  BY DEF Granted, Linking
<1>2. HoldingSlot \subseteq EverOpen
  BY DEF HoldingSlot, EverOpen, PointersAreAlive, NodeIsKnown, Unborn
<1>3. Inbound \subseteq EverOpen
  BY DEF Inbound, vNodes, EverOpen
<1> QED
  BY <1>1, <1>2, <1>3, FS_Subset, FS_CardinalityType, PeersAssumption

-----------------------------------------------------------------------------
(* What is done to a connection gives a connection. *)

LEMMA FieldUpdates ==
  /\ \A c \in Connection, s \in {"new", "open", "closed", "gone"} : [c EXCEPT !.state = s] \in Connection
  /\ \A c \in Connection, a \in Addr \cup {NoNode} : [c EXCEPT !.addr = a] \in Connection
  /\ \A c \in Connection, k \in Int : [c EXCEPT !.nRefCount = k] \in Connection
  /\ \A c \in Connection, b \in BOOLEAN :
        /\ [c EXCEPT !.fInbound = b] \in Connection
        /\ [c EXCEPT !.fDisconnect = b] \in Connection
        /\ [c EXCEPT !.fNetworkNode = b] \in Connection
        /\ [c EXCEPT !.held = b] \in Connection
        /\ [c EXCEPT !.grantOutbound = b] \in Connection
<1>1. \A c \in Connection, s \in {"new", "open", "closed", "gone"} : [c EXCEPT !.state = s] \in Connection
  BY DEF Connection
<1>2. \A c \in Connection, a \in Addr \cup {NoNode} : [c EXCEPT !.addr = a] \in Connection
  BY DEF Connection
<1>3. \A c \in Connection, k \in Int : [c EXCEPT !.nRefCount = k] \in Connection
  BY DEF Connection
<1>4. \A c \in Connection, b \in BOOLEAN :
        /\ [c EXCEPT !.fInbound = b] \in Connection
        /\ [c EXCEPT !.fDisconnect = b] \in Connection
        /\ [c EXCEPT !.fNetworkNode = b] \in Connection
  BY DEF Connection
<1>5. \A c \in Connection, b \in BOOLEAN :
        /\ [c EXCEPT !.held = b] \in Connection
        /\ [c EXCEPT !.grantOutbound = b] \in Connection
  BY DEF Connection
<1> QED
  BY <1>1, <1>2, <1>3, <1>4, <1>5

LEMMA ChangedConnections ==
  ASSUME NEW c \in Connection
  PROVE  /\ \A a \in Addr, i \in BOOLEAN :
               [c EXCEPT !.state = "open", !.addr = a, !.fInbound = i, !.nRefCount = 1] \in Connection
         /\ [c EXCEPT !.nRefCount = @ + 1] \in Connection
         /\ [c EXCEPT !.nRefCount = @ - 1] \in Connection
         /\ [c EXCEPT !.grantOutbound = TRUE, !.fNetworkNode = TRUE] \in Connection
         /\ Closed(c) \in Connection
         /\ [Unborn EXCEPT !.state = "gone"] \in Connection
<1>0. 1 \in Int /\ c.nRefCount \in Int /\ c.nRefCount + 1 \in Int /\ c.nRefCount - 1 \in Int
  BY DEF Connection
<1>1. ASSUME NEW a \in Addr, NEW i \in BOOLEAN
      PROVE  [c EXCEPT !.state = "open", !.addr = a, !.fInbound = i, !.nRefCount = 1] \in Connection
  <2>1. [c EXCEPT !.state = "open", !.addr = a, !.fInbound = i] \in Connection
    BY DEF Connection
  <2>2. [[c EXCEPT !.state = "open", !.addr = a, !.fInbound = i] EXCEPT !.nRefCount = 1] \in Connection
    BY Zenon, <1>0, <2>1, FieldUpdates
  <2>3. [c EXCEPT !.state = "open", !.addr = a, !.fInbound = i, !.nRefCount = 1] =
        [[c EXCEPT !.state = "open", !.addr = a, !.fInbound = i] EXCEPT !.nRefCount = 1]
    BY DEF Connection
  <2> QED
    BY <2>2, <2>3
<1>2. [c EXCEPT !.nRefCount = @ + 1] \in Connection
  BY <1>0, FieldUpdates
<1>3. [c EXCEPT !.nRefCount = @ - 1] \in Connection
  BY <1>0, FieldUpdates
<1>4. [c EXCEPT !.grantOutbound = TRUE, !.fNetworkNode = TRUE] \in Connection
  BY DEF Connection
<1>5. Closed(c) \in Connection
  <2> DEFINE d == [c EXCEPT !.state = "closed", !.fDisconnect = TRUE, !.grantOutbound = FALSE, !.held = TRUE]
             k == IF c.fNetworkNode \/ c.fInbound THEN c.nRefCount - 1 ELSE c.nRefCount
  <2>1. d \in Connection
    BY DEF Connection
  <2>2. k \in Int
    BY <1>0
  <2>3. [d EXCEPT !.nRefCount = k] \in Connection
    BY Zenon, <2>1, <2>2, FieldUpdates
  <2>4. Closed(c) = [d EXCEPT !.nRefCount = k]
    BY DEF Connection, Closed
  <2> QED
    BY <2>3, <2>4
<1>6. [Unborn EXCEPT !.state = "gone"] \in Connection
  <2>1. Unborn \in Connection
    BY DEF Connection, Unborn
  <2> QED
    BY <2>1, FieldUpdates
<1> QED
  BY <1>1, <1>2, <1>3, <1>4, <1>5, <1>6

LEMMA GrantsAreFinite ==
  ASSUME NEW S, IsFiniteSet(S)
  PROVE  Grants(S) \in Nat
BY FS_Subset, FS_CardinalityType DEF Grants

LEMMA NoPlace == [at |-> "idle", grant |-> FALSE, addr |-> NoNode, pnode |-> NoNode] \in Place
BY DEF Place

LEMMA OpenIsStarted == vNodes \subseteq EverOpen /\ Unused \subseteq EverOpen
/\ vNodesDisconnected \subseteq EverOpen
BY DEF vNodes, Unused, vNodesDisconnected, EverOpen

-----------------------------------------------------------------------------
(* One step. *)

LEMMA ShapeStep ==
  ASSUME PeersShape, PointersAreAlive, IsFiniteSet(EverOpen), [PeersNext]_peersVars
  PROVE  PeersShape'
<1> USE PeersAssumption DEF PeersShape
<1>1. ASSUME NEW t \in Opener, TakeSlot(t)
      PROVE  PeersShape'
  <2>1. opener' \in [Opener -> Place]
    BY <1>1 DEF TakeSlot, Place
  <2>2. semOutbound' \in Nat
    BY <1>1 DEF TakeSlot
  <2> QED
    BY <1>1, <2>1, <2>2 DEF TakeSlot
<1>2. ASSUME NEW t \in Opener, ChooseAddress(t)
      PROVE  PeersShape'
  <2>1. opener' \in [Opener -> Place]
    <3>1. CASE GiveUp(t)
      BY <3>1, NoPlace DEF GiveUp
    <3>2. ASSUME NEW a \in Addr, opener' = [opener EXCEPT ![t].at = "checked", ![t].addr = a]
          PROVE  opener' \in [Opener -> Place]
      BY <3>2 DEF Place
    <3> QED
      BY <1>2, <3>1, <3>2 DEF ChooseAddress
  <2>2. semOutbound' \in Nat
    BY <1>2 DEF ChooseAddress, GiveUp
  <2> QED
    BY <1>2, <2>1, <2>2 DEF ChooseAddress
<1>3. ASSUME NEW t \in Opener, LookForExisting(t)
      PROVE  PeersShape'
  <2>1. opener' \in [Opener -> Place]
    BY <1>3 DEF LookForExisting, vNodes, Place
  <2> QED
    BY <1>3, <2>1 DEF LookForExisting
<1>4. ASSUME NEW t \in Opener, AddRefExisting(t)
      PROVE  PeersShape'
  <2>1. node' \in [Node -> Connection]
    <3>1. node' = [node EXCEPT ![opener[t].pnode] = [node[opener[t].pnode] EXCEPT !.nRefCount = @ + 1]]
      BY <1>4 DEF AddRefExisting
    <3> QED
      BY <3>1, ChangedConnections, FieldUpdates
  <2>2. opener' \in [Opener -> Place]
    BY <1>4 DEF AddRefExisting, Place
  <2> QED
    BY <1>4, <2>1, <2>2 DEF AddRefExisting
<1>5. ASSUME NEW t \in Opener, ConnectNode(t)
      PROVE  PeersShape'
  <2>1. node' \in [Node -> Connection]
    <3>1. opener[t].addr \in Addr
      BY <1>5 DEF ConnectNode, PointersAreAlive, PlaceIsRight
    <3>2. ASSUME NEW n \in Node, MakeNode(n, opener[t].addr, FALSE)
          PROVE  node' \in [Node -> Connection]
      <4>1. node' = [node EXCEPT ![n] = [node[n] EXCEPT !.state = "open", !.addr = opener[t].addr,
                                                        !.fInbound = FALSE, !.nRefCount = 1]]
        BY <3>2 DEF MakeNode
      <4> QED
        BY <3>1, <4>1, ChangedConnections
    <3> QED
      BY <1>5, <3>2 DEF ConnectNode
  <2>2. semOutbound' \in Nat
    <3>1. semOutbound' = semOutbound \/ semOutbound' = semOutbound + 1 \/ semOutbound' = semOutbound + 0
      BY <1>5 DEF ConnectNode, GiveUp
    <3> QED
      BY <3>1
  <2>3. opener' \in [Opener -> Place]
    <3>1. CASE GiveUp(t)
      BY <3>1, NoPlace DEF GiveUp
    <3>2. ASSUME NEW n \in Node, opener' = [opener EXCEPT ![t].at = "connected", ![t].pnode = n]
          PROVE  opener' \in [Opener -> Place]
      BY <3>2 DEF Place
    <3> QED
      BY <1>5, <3>1, <3>2 DEF ConnectNode
  <2> QED
    BY <1>5, <2>1, <2>2, <2>3 DEF ConnectNode
<1>6. ASSUME NEW t \in Opener, LinkNode(t)
      PROVE  PeersShape'
  <2>1. node' \in [Node -> Connection]
    <3>1. node' = [node EXCEPT ![opener[t].pnode] = [node[opener[t].pnode] EXCEPT !.grantOutbound = TRUE, !.fNetworkNode = TRUE]]
      BY <1>6 DEF LinkNode
    <3> QED
      BY <3>1, ChangedConnections, FieldUpdates
  <2>2. semOutbound' \in Nat
    BY <1>6 DEF LinkNode, MoveTo
  <2>3. opener' \in [Opener -> Place]
    BY <1>6 DEF LinkNode, Place
  <2> QED
    BY <1>6, <2>1, <2>2, <2>3 DEF LinkNode
<1>7. CASE DisconnectNodes
  <2>1. node' \in [Node -> Connection]
    <3>1. \A n \in Node : node'[n] \in {node[n], Closed(node[n])}
      BY <1>7 DEF DisconnectNodes
    <3>2. node' = [n \in Node |-> node'[n]]
      BY <1>7 DEF DisconnectNodes
    <3> QED
      BY <3>1, <3>2, ChangedConnections
  <2>2. semOutbound' \in Nat
    BY <1>7, GrantsAreFinite, OpenIsStarted, FS_Subset DEF DisconnectNodes
  <2> QED
    BY <1>7, <2>1, <2>2 DEF DisconnectNodes
<1>8. ASSUME NEW a \in Addr, AcceptConnection(a)
      PROVE  PeersShape'
  <2>1. node' \in [Node -> Connection]
    <3>1. PICK n \in Node : node' = [node EXCEPT ![n] =
              [node[n] EXCEPT !.state = "open", !.addr = a, !.fInbound = TRUE, !.nRefCount = 1]]
      BY <1>8 DEF AcceptConnection, MakeNode
    <3> QED
      BY <3>1, ChangedConnections
  <2> QED
    BY <1>8, <2>1 DEF AcceptConnection
<1>9. ASSUME NEW a \in Addr, BanExpires(a)
      PROVE  PeersShape'
  <2>1. setBanned' \subseteq Addr
    BY <1>9 DEF BanExpires
  <2> QED
    BY <1>9, <2>1 DEF BanExpires
<1>10. ASSUME NEW n \in Node, DeleteNode(n)
      PROVE  PeersShape'
  <2>1. node' \in [Node -> Connection]
    <3>1. node' = [node EXCEPT ![n] = [Unborn EXCEPT !.state = "gone"]]
      BY <1>10 DEF DeleteNode
    <3> QED
      BY <3>1, ChangedConnections, FieldUpdates
  <2>2. semOutbound' \in Nat
    <3>1. IsFiniteSet({n}) /\ semOutbound' = semOutbound + Grants({n})
      BY <1>10, FS_Singleton DEF DeleteNode
    <3> QED
      BY <3>1, GrantsAreFinite
  <2> QED
    BY <1>10, <2>1, <2>2 DEF DeleteNode
<1>11. ASSUME NEW n \in Node, SocketCloses(n)
      PROVE  PeersShape'
  <2>1. node' \in [Node -> Connection]
    <3>1. node' = [node EXCEPT ![n] = [node[n] EXCEPT !.fDisconnect = TRUE]]
      BY <1>11 DEF SocketCloses
    <3> QED
      BY <3>1, ChangedConnections, FieldUpdates
  <2> QED
    BY <1>11, <2>1 DEF SocketCloses
<1>12. ASSUME NEW n \in Node, Misbehaving(n)
      PROVE  PeersShape'
  <2>1. node' \in [Node -> Connection]
    <3>1. node' = [node EXCEPT ![n] = [node[n] EXCEPT !.fDisconnect = TRUE]]
      BY <1>12 DEF Misbehaving
    <3> QED
      BY <3>1, ChangedConnections, FieldUpdates
  <2>2. setBanned' \subseteq Addr
    BY <1>12 DEF Misbehaving, PointersAreAlive, NodeIsKnown, IsAlive, Handler
  <2> QED
    BY <1>12, <2>1, <2>2 DEF Misbehaving
<1>13. ASSUME NEW n \in Node, ReleaseTimePasses(n)
      PROVE  PeersShape'
  <2>1. node' \in [Node -> Connection]
    <3>1. node' = [node EXCEPT ![n] = [node[n] EXCEPT !.held = FALSE]]
      BY <1>13 DEF ReleaseTimePasses
    <3> QED
      BY <3>1, ChangedConnections, FieldUpdates
  <2> QED
    BY <1>13, <2>1 DEF ReleaseTimePasses
<1>14. ASSUME NEW h \in Handler, CopyNodes(h)
      PROVE  PeersShape'
  <2>1. node' \in [Node -> Connection]
    <3>1. ASSUME NEW n \in Node
          PROVE  node'[n] \in Connection
      <4>1. node'[n] = node[n] \/ node'[n] = [node[n] EXCEPT !.nRefCount = @ + 1]
        BY <1>14 DEF CopyNodes
      <4> QED
        BY <4>1, ChangedConnections
    <3>2. node' = [n \in Node |-> node'[n]]
      BY <1>14 DEF CopyNodes
    <3> QED
      BY <3>1, <3>2
  <2>2. inUse' \in [Handler -> SUBSET Node]
    BY <1>14 DEF CopyNodes, vNodes
  <2> QED
    BY <1>14, <2>1, <2>2 DEF CopyNodes
<1>15. ASSUME NEW h \in Handler, ReleaseNodes(h)
      PROVE  PeersShape'
  <2>1. node' \in [Node -> Connection]
    <3>1. ASSUME NEW n \in Node
          PROVE  node'[n] \in Connection
      <4>1. node'[n] = node[n] \/ node'[n] = [node[n] EXCEPT !.nRefCount = @ - 1]
        BY <1>15 DEF ReleaseNodes
      <4> QED
        BY <4>1, ChangedConnections
    <3>2. node' = [n \in Node |-> node'[n]]
      BY <1>15 DEF ReleaseNodes
    <3> QED
      BY <3>1, <3>2
  <2>2. inUse' \in [Handler -> SUBSET Node]
    BY <1>15 DEF ReleaseNodes
  <2> QED
    BY <1>15, <2>1, <2>2 DEF ReleaseNodes
<1>16. CASE UNCHANGED peersVars
  BY <1>16 DEF peersVars
<1> QED
  BY <1>1, <1>2, <1>3, <1>4, <1>5, <1>6, <1>7, <1>8, <1>9, <1>10, <1>11, <1>12, <1>13, <1>14, <1>15,
     <1>16 DEF PeersNext, OpenerStep

-----------------------------------------------------------------------------
(***************************************************************************)
(* Pointers.  Most steps change no connection from living to dead or back, *)
(* and shorten the release time of none.                                   *)
(***************************************************************************)
Agree(n) ==
    /\ IsAlive(n)' = IsAlive(n)
    /\ node'[n].addr = node[n].addr
    /\ node[n].state = "open" \/ node[n].held => node'[n].state = "open" \/ node'[n].held
    /\ node[n].state = "new" => node'[n] = node[n]
    /\ node'[n].state = "new" => node[n].state = "new"

LEMMA AgreeKnown ==
  ASSUME PointersAreAlive, \A n \in Node : Agree(n)
  PROVE  /\ \A n \in Node : NodeIsKnown(n)'
         /\ \A t \in Opener : opener'[t] = opener[t] => PlaceIsRight(t)'
         /\ \A h \in Handler : inUse'[h] \subseteq inUse[h] => \A n \in inUse'[h] : IsAlive(n)'
<1>1. \A n \in Node : NodeIsKnown(n)'
  BY DEF PointersAreAlive, NodeIsKnown, Agree
<1>2. ASSUME NEW t \in Opener, opener'[t] = opener[t]
      PROVE  PlaceIsRight(t)'
  <2>1. CASE opener[t].at \in {"found", "connected"}
    <3>0. opener[t].pnode \in Node
      BY <2>1 DEF PointersAreAlive, PlaceIsRight, IsAlive
    <3>1. Agree(opener[t].pnode)
      BY <3>0
    <3> QED
      BY <1>2, <2>1, <3>0, <3>1 DEF PointersAreAlive, PlaceIsRight, Agree
  <2>2. CASE opener[t].at \notin {"found", "connected"}
    BY <1>2, <2>2 DEF PointersAreAlive, PlaceIsRight
  <2> QED
    BY <2>1, <2>2
<1>3. \A h \in Handler : inUse'[h] \subseteq inUse[h] => \A n \in inUse'[h] : IsAlive(n)'
  BY DEF PointersAreAlive, IsAlive, Agree
<1> QED
  BY <1>1, <1>2, <1>3

\* One connection changes, and is as alive as it was.
LEMMA OneAgrees ==
  ASSUME PeersShape, NEW n \in Node, NEW c \in Connection, node' = [node EXCEPT ![n] = c],
         IsAlive(n), c.state \in {"open", "closed"}, c.addr = node[n].addr,
         node[n].state = "open" \/ node[n].held => c.state = "open" \/ c.held
  PROVE  \A m \in Node : Agree(m)
<1>1. node'[n] = c /\ \A m \in Node : m # n => node'[m] = node[m]
  BY DEF PeersShape
<1> QED
  BY <1>1 DEF Agree, IsAlive

\* The destructor is called when nobody has a pointer to the connection.
LEMMA DeletedIsUnused ==
  ASSUME PeersInv, NEW n \in Node, DeleteNode(n)
  PROVE  /\ IsAlive(n)
         /\ \A t \in Opener : opener[t].pnode # n
         /\ \A h \in Handler : n \notin inUse[h]
<1>1. IsAlive(n) /\ node[n].state = "closed"
  BY DEF DeleteNode, vNodesDisconnected, IsAlive
<1>2. node[n].nRefCount <= 0 /\ ~node[n].held
  <2>1. node[n].nRefCount \in Int /\ node[n].held \in BOOLEAN
    BY DEF PeersInv, PeersShape, Connection
  <2> QED
    BY <2>1 DEF DeleteNode, MayDelete, GetRefCount
<1>3. IsFiniteSet(Linking(n)) /\ Cardinality(Linking(n)) \in Nat /\ Handling(n) \in 0 .. 2
      /\ OwnRef(n) \in {0, 1}
  BY CountsAreFinite DEF PeersInv, SlotsFit, Handling, OwnRef
<1>4. node[n].nRefCount >= Cardinality(Linking(n)) + Handling(n) + OwnRef(n) /\ node[n].nRefCount \in Int
  BY <1>1 DEF PeersInv, RefsSuffice, Suffices, PeersShape, Connection
<1>5. Cardinality(Linking(n)) = 0 /\ Handling(n) = 0
  BY <1>2, <1>3, <1>4
<1>6. Linking(n) = {}
  BY <1>3, <1>5, FS_EmptySet
<1>7. \A t \in Opener : opener[t].pnode # n
  <2> SUFFICES ASSUME NEW t \in Opener, opener[t].pnode = n PROVE FALSE
    OBVIOUS
  <2>1. PlaceIsRight(t) /\ NoNode \notin Node
    BY PeersAssumption DEF PeersInv, PointersAreAlive
  <2>2. opener[t].at = "found"
    BY <1>6, <2>1 DEF PlaceIsRight, Linking
  <2> QED
    BY <1>1, <1>2, <2>1, <2>2 DEF PlaceIsRight
<1>8. \A h \in Handler : n \notin inUse[h]
  BY <1>5 DEF Handling, Handler
<1> QED
  BY <1>1, <1>7, <1>8

\* A connection that is made was not known to anybody.
LEMMA NewIsUnknown ==
  ASSUME PeersShape, PointersAreAlive, NEW n \in Node, node[n].state = "new"
  PROVE  /\ node[n] = Unborn
         /\ \A t \in Opener : opener[t].pnode # n
         /\ \A h \in Handler : n \notin inUse[h]
         /\ Linking(n) = {} /\ Handling(n) = 0
<1>1. ~IsAlive(n) /\ node[n] = Unborn
  BY DEF PointersAreAlive, NodeIsKnown, IsAlive
<1>2. \A t \in Opener : opener[t].pnode # n
  BY <1>1, PeersAssumption DEF PointersAreAlive, PlaceIsRight
<1>3. \A h \in Handler : n \notin inUse[h]
  BY <1>1 DEF PointersAreAlive
<1> QED
  BY <1>1, <1>2, <1>3 DEF Linking, Handling, Handler

LEMMA MadeNode ==
  ASSUME PeersShape, PointersAreAlive, NEW n \in Node, NEW a \in Addr, NEW i \in BOOLEAN, MakeNode(n, a, i)
  PROVE  /\ node[n].state = "new"
         /\ node'[n].state = "open" /\ node'[n].addr = a /\ node'[n].fInbound = i
         /\ node'[n].nRefCount = 1
         /\ ~node'[n].fNetworkNode /\ ~node'[n].grantOutbound /\ ~node'[n].held
         /\ \A m \in Node : m # n => node'[m] = node[m]
<1>1. node[n].state = "new" /\ node[n] = Unborn
  BY NewIsUnknown DEF MakeNode
<1>2. node' = [node EXCEPT ![n] = [Unborn EXCEPT !.state = "open", !.addr = a, !.fInbound = i, !.nRefCount = 1]]
  BY <1>1 DEF MakeNode
<1>3. \A m \in Node : m # n => node'[m] = node[m]
  BY <1>2 DEF PeersShape
<1>4. node'[n] = [Unborn EXCEPT !.state = "open", !.addr = a, !.fInbound = i, !.nRefCount = 1]
  BY <1>2 DEF PeersShape
<1> QED
  BY <1>1, <1>3, <1>4 DEF Unborn

LEMMA MadeIsAlive ==
  ASSUME PeersShape, PointersAreAlive, NEW n \in Node, NEW a \in Addr, NEW i \in BOOLEAN, MakeNode(n, a, i)
  PROVE  /\ IsAlive(n)'
         /\ \A m \in Node : NodeIsKnown(m)'
         /\ \A t \in Opener : opener'[t] = opener[t] => PlaceIsRight(t)'
         /\ \A h \in Handler : \A m \in inUse[h] : IsAlive(m)'
<1>1. IsAlive(n)' /\ ~IsAlive(n) /\ \A m \in Node : m # n => node'[m] = node[m]
  BY MadeNode DEF IsAlive
<1>2. \A m \in Node : NodeIsKnown(m)'
  BY <1>1, MadeNode DEF PointersAreAlive, NodeIsKnown, IsAlive
<1>3. \A m \in Node : IsAlive(m) => IsAlive(m)' /\ node'[m] = node[m]
  BY <1>1 DEF IsAlive
<1>4. ASSUME NEW t \in Opener, opener'[t] = opener[t]
      PROVE  PlaceIsRight(t)'
  <2>1. CASE opener[t].at \in {"found", "connected"}
    <3>1. IsAlive(opener[t].pnode) /\ opener[t].pnode \in Node
      BY <2>1 DEF PointersAreAlive, PlaceIsRight, IsAlive
    <3>2. IsAlive(opener[t].pnode)' /\ node'[opener[t].pnode] = node[opener[t].pnode]
      BY <1>3, <1>4, <3>1 DEF IsAlive
    <3> QED
      BY <1>4, <2>1, <3>2 DEF PointersAreAlive, PlaceIsRight
  <2>2. CASE opener[t].at \notin {"found", "connected"}
    BY <1>4, <2>2 DEF PointersAreAlive, PlaceIsRight
  <2> QED
    BY <2>1, <2>2
<1>5. \A h \in Handler : \A m \in inUse[h] : IsAlive(m)'
  BY <1>3 DEF PointersAreAlive, IsAlive
<1> QED
  BY <1>1, <1>2, <1>4, <1>5

LEMMA GivenUp ==
  ASSUME PeersShape, NEW t \in Opener, GiveUp(t)
  PROVE  /\ PlaceIsRight(t)'
         /\ opener'[t] = [at |-> "idle", grant |-> FALSE, addr |-> NoNode, pnode |-> NoNode]
         /\ \A u \in Opener : u # t => opener'[u] = opener[u]
<1>1. opener'[t] = [at |-> "idle", grant |-> FALSE, addr |-> NoNode, pnode |-> NoNode]
  BY DEF GiveUp, PeersShape
<1>2. \A u \in Opener : u # t => opener'[u] = opener[u]
  BY DEF GiveUp, PeersShape
<1>3. PlaceIsRight(t)'
  BY <1>1 DEF PlaceIsRight
<1> QED
  BY <1>1, <1>2, <1>3

LEMMA AliveStep ==
  ASSUME PeersInv, [PeersNext]_peersVars
  PROVE  PointersAreAlive'
<1>0. PeersShape /\ PointersAreAlive /\ NoNode \notin Node
  BY PeersAssumption DEF PeersInv
<1>. USE <1>0
<1>1. ASSUME UNCHANGED node
      PROVE  \A n \in Node : Agree(n)
  BY <1>1 DEF Agree, IsAlive
<1>2. ASSUME NEW t \in Opener, NEW p, opener' = [opener EXCEPT ![t] = p]
      PROVE  opener'[t] = p /\ \A u \in Opener : u # t => opener'[u] = opener[u]
  BY <1>2 DEF PeersShape
<1>3. ASSUME NEW t \in Opener, TakeSlot(t)
      PROVE  PointersAreAlive'
  <2>1. \A u \in Opener : PlaceIsRight(u)'
    <3>1. opener' = [opener EXCEPT ![t] = [opener[t] EXCEPT !.at = "granted", !.grant = TRUE]]
      BY <1>3 DEF TakeSlot
    <3>2. PlaceIsRight(t)'
      BY <1>2, <1>3, <3>1 DEF TakeSlot, PointersAreAlive, PlaceIsRight, PeersShape, Place
    <3> QED
      BY <1>1, <1>2, <1>3, <3>1, <3>2, AgreeKnown DEF TakeSlot
  <2> QED
    BY <1>1, <1>3, <2>1, AgreeKnown DEF TakeSlot, PointersAreAlive
<1>4. ASSUME NEW t \in Opener, ChooseAddress(t)
      PROVE  PointersAreAlive'
  <2>1. \A u \in Opener : PlaceIsRight(u)'
    <3>1. PlaceIsRight(t)'
      <4>1. CASE GiveUp(t)
        BY <4>1, GivenUp
      <4>2. ASSUME NEW a \in Addr, opener' = [opener EXCEPT ![t].at = "checked", ![t].addr = a]
            PROVE  PlaceIsRight(t)'
        <5>1. opener'[t] = [opener[t] EXCEPT !.at = "checked", !.addr = a]
          BY <4>2 DEF PeersShape
        <5>2. opener'[t].at = "checked" /\ opener'[t].addr = a /\ opener'[t].grant
              /\ opener'[t].pnode = NoNode
          BY <1>4, <5>1 DEF ChooseAddress, PointersAreAlive, PlaceIsRight, PeersShape, Place
        <5> QED
          BY <5>2 DEF PlaceIsRight
      <4> QED
        BY <1>4, <4>1, <4>2 DEF ChooseAddress
    <3>2. \A u \in Opener : u # t => opener'[u] = opener[u]
      BY <1>4 DEF ChooseAddress, GiveUp, PeersShape
    <3> QED
      BY <1>1, <1>4, <3>1, <3>2, AgreeKnown DEF ChooseAddress
  <2> QED
    BY <1>1, <1>4, <2>1, AgreeKnown DEF ChooseAddress, PointersAreAlive
<1>5. ASSUME NEW t \in Opener, LookForExisting(t)
      PROVE  PointersAreAlive'
  <2>1. \A u \in Opener : PlaceIsRight(u)'
    <3>1. PlaceIsRight(t)'
      <4>1. CASE \E n \in vNodes : opener' = [opener EXCEPT ![t].at = "found", ![t].pnode = n]
        <5>1. PICK n \in vNodes : opener' = [opener EXCEPT ![t] = [opener[t] EXCEPT !.at = "found", !.pnode = n]]
          BY <4>1
        <5>2. opener'[t] = [opener[t] EXCEPT !.at = "found", !.pnode = n]
          BY <1>2, <5>1
        <5>3. opener[t].at = "checked" /\ opener[t].grant /\ UNCHANGED node
          BY <1>5 DEF LookForExisting, PointersAreAlive, PlaceIsRight
        <5>4. opener'[t].at = "found" /\ opener'[t].pnode = n /\ opener'[t].grant
          BY <5>2, <5>3 DEF PeersShape, Place
        <5>5. n \in Node /\ node[n].state = "open"
          BY DEF vNodes
        <5> QED
          BY <5>3, <5>4, <5>5 DEF PlaceIsRight, IsAlive
      <4>2. CASE opener' = [opener EXCEPT ![t].at = "connecting"]
        <5>1. opener' = [opener EXCEPT ![t] = [opener[t] EXCEPT !.at = "connecting"]]
          BY <4>2
        <5>2. opener'[t] = [opener[t] EXCEPT !.at = "connecting"]
          BY <1>2, <5>1
        <5> QED
          BY <1>5, <5>2 DEF LookForExisting, PointersAreAlive, PlaceIsRight, PeersShape, Place
      <4> QED
        BY <1>5, <4>1, <4>2 DEF LookForExisting
    <3>2. \A u \in Opener : u # t => opener'[u] = opener[u]
      BY <1>5 DEF LookForExisting, PeersShape
    <3> QED
      BY <1>1, <1>5, <3>1, <3>2, AgreeKnown DEF LookForExisting
  <2> QED
    BY <1>1, <1>5, <2>1, AgreeKnown DEF LookForExisting, PointersAreAlive
<1>6. ASSUME NEW t \in Opener, AddRefExisting(t)
      PROVE  PointersAreAlive'
  <2> DEFINE n == opener[t].pnode
  <2>1. IsAlive(n)
    BY <1>6 DEF AddRefExisting, PointersAreAlive, PlaceIsRight
  <2>2. \A m \in Node : Agree(m)
    <3>1. n \in Node /\ node' = [node EXCEPT ![n] = [node[n] EXCEPT !.nRefCount = @ + 1]]
      BY <1>6, <2>1 DEF AddRefExisting, IsAlive
    <3>2. node[n] \in Connection /\ [node[n] EXCEPT !.nRefCount = @ + 1] \in Connection
      BY <3>1, ChangedConnections DEF PeersShape
    <3> HIDE DEF n
    <3> QED
      BY <2>1, <3>1, <3>2, OneAgrees DEF IsAlive, Connection
  <2>3. PlaceIsRight(t)'
    <3>1. opener'[t] = [opener[t] EXCEPT !.at = "connected"]
      BY <1>2, <1>6 DEF AddRefExisting, PeersShape
    <3>2. n \in Node /\ node'[n].state \in {"open", "closed"}
      BY <2>1, <2>2 DEF Agree, IsAlive
    <3>3. opener'[t].at = "connected" /\ opener'[t].pnode = n /\ opener'[t].grant
      BY <1>6, <3>1 DEF AddRefExisting, PointersAreAlive, PlaceIsRight, PeersShape, Place
    <3> QED
      BY <3>2, <3>3 DEF PlaceIsRight, IsAlive
  <2>4. \A u \in Opener : u # t => opener'[u] = opener[u]
    BY <1>6 DEF AddRefExisting, PeersShape
  <2> QED
    BY <1>6, <2>2, <2>3, <2>4, AgreeKnown DEF AddRefExisting, PointersAreAlive
<1>7. ASSUME NEW t \in Opener, ConnectNode(t)
      PROVE  PointersAreAlive'
  <2>1. CASE GiveUp(t) /\ UNCHANGED node
    <3>1. PlaceIsRight(t)'
      BY <2>1, GivenUp
    <3>2. \A u \in Opener : u # t => opener'[u] = opener[u]
      BY <2>1 DEF GiveUp, PeersShape
    <3> QED
      BY <1>1, <1>7, <2>1, <3>1, <3>2, AgreeKnown DEF ConnectNode, PointersAreAlive
  <2>2. ASSUME NEW n \in Node, MakeNode(n, opener[t].addr, FALSE),
               opener' = [opener EXCEPT ![t].at = "connected", ![t].pnode = n]
        PROVE  PointersAreAlive'
    <3>1. opener[t].addr \in Addr
      BY <1>7 DEF ConnectNode, PointersAreAlive, PlaceIsRight
    <3>2. PlaceIsRight(t)'
      <4>1. opener'[t] = [opener[t] EXCEPT !.at = "connected", !.pnode = n]
        BY <1>2, <2>2 DEF PeersShape
      <4>2. opener'[t].at = "connected" /\ opener'[t].pnode = n /\ opener'[t].grant
        BY <1>7, <4>1 DEF ConnectNode, PointersAreAlive, PlaceIsRight, PeersShape, Place
      <4> QED
        BY <2>2, <3>1, <4>2, MadeIsAlive DEF PlaceIsRight
    <3>3. \A u \in Opener : u # t => opener'[u] = opener[u]
      BY <2>2 DEF PeersShape
    <3> QED
      BY <1>7, <2>2, <3>1, <3>2, <3>3, MadeIsAlive DEF ConnectNode, PointersAreAlive
  <2> QED
    BY <1>7, <2>1, <2>2 DEF ConnectNode
<1>8. ASSUME NEW t \in Opener, LinkNode(t)
      PROVE  PointersAreAlive'
  <2> DEFINE n == opener[t].pnode
  <2>1. IsAlive(n)
    BY <1>8 DEF LinkNode, PointersAreAlive, PlaceIsRight
  <2>2. \A m \in Node : Agree(m)
    <3>1. n \in Node
          /\ node' = [node EXCEPT ![n] = [node[n] EXCEPT !.grantOutbound = TRUE, !.fNetworkNode = TRUE]]
      BY <1>8, <2>1 DEF LinkNode, IsAlive
    <3>2. node[n] \in Connection
          /\ [node[n] EXCEPT !.grantOutbound = TRUE, !.fNetworkNode = TRUE] \in Connection
      BY <3>1, ChangedConnections DEF PeersShape
    <3> HIDE DEF n
    <3> QED
      BY <2>1, <3>1, <3>2, OneAgrees DEF IsAlive, Connection
  <2>3. PlaceIsRight(t)'
    <3>1. opener'[t] = [at |-> "idle", grant |-> FALSE, addr |-> NoNode, pnode |-> NoNode]
      BY <1>8 DEF LinkNode, PeersShape
    <3> QED
      BY <3>1 DEF PlaceIsRight
  <2>4. \A u \in Opener : u # t => opener'[u] = opener[u]
    BY <1>8 DEF LinkNode, PeersShape
  <2> QED
    BY <1>8, <2>2, <2>3, <2>4, AgreeKnown DEF LinkNode, PointersAreAlive
<1>9. CASE DisconnectNodes
  <2>1. ASSUME NEW n \in Node PROVE Agree(n)
    <3>1. CASE n \in Unused
      <4>1. node'[n] = Closed(node[n]) /\ node[n].state = "open" /\ node[n] \in Connection
        BY <1>9, <3>1 DEF DisconnectNodes, Unused, vNodes, PeersShape
      <4>2. node'[n].state = "closed" /\ node'[n].addr = node[n].addr /\ node'[n].held
        BY <4>1 DEF Closed, Connection
      <4> QED
        BY <4>1, <4>2 DEF Agree, IsAlive
    <3>2. CASE n \notin Unused
      BY <1>9, <3>2 DEF DisconnectNodes, Agree, IsAlive
    <3> QED
      BY <3>1, <3>2
  <2> QED
    BY <1>9, <2>1, AgreeKnown DEF DisconnectNodes, PointersAreAlive
<1>10. ASSUME NEW a \in Addr, AcceptConnection(a)
       PROVE  PointersAreAlive'
  BY <1>10, MadeIsAlive DEF AcceptConnection, PointersAreAlive
<1>11. ASSUME NEW a \in Addr, BanExpires(a)
       PROVE  PointersAreAlive'
  BY <1>1, <1>11, AgreeKnown DEF BanExpires, PointersAreAlive
<1>12. ASSUME NEW n \in Node, DeleteNode(n)
       PROVE  PointersAreAlive'
  <2>1. UNCHANGED <<opener, inUse>> /\ \A m \in Node : m # n => node'[m] = node[m]
    BY <1>12 DEF DeleteNode, PeersShape
  <2>2. node'[n].state = "gone"
    BY <1>12 DEF DeleteNode, PeersShape, Unborn
  <2>3. \A m \in Node : NodeIsKnown(m)'
    BY <2>1, <2>2 DEF PointersAreAlive, NodeIsKnown, IsAlive
  <2>4. ASSUME NEW t \in Opener PROVE PlaceIsRight(t)'
    <3>1. opener[t].pnode # n /\ PlaceIsRight(t)
      BY <1>12, DeletedIsUnused DEF PointersAreAlive
    <3>2. opener[t].pnode \in Node => node'[opener[t].pnode] = node[opener[t].pnode]
      BY <2>1, <3>1
    <3> QED
      BY <2>1, <3>1, <3>2 DEF PlaceIsRight, IsAlive
  <2>5. \A h \in Handler : \A m \in inUse[h] : IsAlive(m)'
    BY <1>12, <2>1, DeletedIsUnused DEF PointersAreAlive, IsAlive
  <2> QED
    BY <2>1, <2>3, <2>4, <2>5 DEF PointersAreAlive
<1>13. ASSUME NEW n \in Node, NEW h \in Handler, n \in inUse[h],
              node' = [node EXCEPT ![n].fDisconnect = TRUE]
       PROVE  \A m \in Node : Agree(m)
  <2>1. IsAlive(n) /\ node' = [node EXCEPT ![n] = [node[n] EXCEPT !.fDisconnect = TRUE]]
    BY <1>13 DEF PointersAreAlive
  <2>2. node[n] \in Connection /\ [node[n] EXCEPT !.fDisconnect = TRUE] \in Connection
    BY FieldUpdates DEF PeersShape
  <2> QED
    BY <2>1, <2>2, OneAgrees DEF IsAlive, Connection
<1>14. ASSUME NEW n \in Node, SocketCloses(n)
       PROVE  PointersAreAlive'
  <2>1. \A m \in Node : Agree(m)
    BY <1>13, <1>14 DEF SocketCloses, Handler
  <2> QED
    BY <1>14, <2>1, AgreeKnown DEF SocketCloses, PointersAreAlive
<1>15. ASSUME NEW n \in Node, Misbehaving(n)
       PROVE  PointersAreAlive'
  <2>1. \A m \in Node : Agree(m)
    BY <1>13, <1>15 DEF Misbehaving, Handler
  <2> QED
    BY <1>15, <2>1, AgreeKnown DEF Misbehaving, PointersAreAlive
<1>16. ASSUME NEW n \in Node, ReleaseTimePasses(n)
       PROVE  PointersAreAlive'
  <2>1. node'[n] = [node[n] EXCEPT !.held = FALSE] /\ \A m \in Node : m # n => node'[m] = node[m]
    BY <1>16 DEF ReleaseTimePasses, PeersShape
  <2>2. node[n] \in Connection /\ node[n].held /\ UNCHANGED <<opener, inUse>>
    BY <1>16 DEF ReleaseTimePasses, PeersShape
  <2>3. node'[n].state = node[n].state /\ node'[n].addr = node[n].addr /\ node[n].state # "new"
    BY <2>1, <2>2 DEF Connection, PointersAreAlive, NodeIsKnown, Unborn
  <2>4. \A m \in Node : NodeIsKnown(m)' /\ IsAlive(m)' = IsAlive(m)
    BY <2>1, <2>3 DEF PointersAreAlive, NodeIsKnown, IsAlive
  <2>5. ASSUME NEW t \in Opener PROVE PlaceIsRight(t)'
    <3>1. PlaceIsRight(t) /\ (opener[t].at = "found" => opener[t].pnode # n)
      BY <1>16 DEF ReleaseTimePasses, PointersAreAlive
    <3>2. opener'[t] = opener[t]
      BY <2>2
    <3>3. opener[t].at = "found" => node'[opener[t].pnode] = node[opener[t].pnode]
      BY <2>1, <3>1 DEF PlaceIsRight, IsAlive
    <3> QED
      BY <2>1, <2>3, <3>1, <3>2, <3>3 DEF PlaceIsRight, IsAlive
  <2>6. \A h \in Handler : \A m \in inUse[h] : IsAlive(m)'
    BY <2>4 DEF PointersAreAlive, IsAlive
  <2> QED
    BY <2>2, <2>4, <2>5, <2>6 DEF PointersAreAlive
<1>17. ASSUME NEW h \in Handler, CopyNodes(h)
       PROVE  PointersAreAlive'
  <2>1. ASSUME NEW n \in Node PROVE Agree(n)
    <3>1. CASE n \in vNodes
      <4>1. node'[n] = [node[n] EXCEPT !.nRefCount = @ + 1] /\ node[n].state = "open"
            /\ node[n] \in Connection
        BY <1>17, <3>1 DEF CopyNodes, vNodes, PeersShape
      <4>2. node'[n].state = "open" /\ node'[n].addr = node[n].addr
        BY <4>1 DEF Connection
      <4> QED
        BY <4>1, <4>2 DEF Agree, IsAlive
    <3>2. CASE n \notin vNodes
      BY <1>17, <3>2 DEF CopyNodes, Agree, IsAlive
    <3> QED
      BY <3>1, <3>2
  <2>2. \A g \in Handler : \A m \in inUse'[g] : IsAlive(m)'
    <3>1. inUse'[h] = vNodes /\ \A g \in Handler : g # h => inUse'[g] = inUse[g]
      BY <1>17 DEF CopyNodes, PeersShape
    <3>2. \A m \in vNodes : IsAlive(m)'
      BY <2>1 DEF vNodes, Agree, IsAlive
    <3> QED
      BY <2>1, <3>1, <3>2, AgreeKnown
  <2> QED
    BY <1>17, <2>1, <2>2, AgreeKnown DEF CopyNodes, PointersAreAlive
<1>18. ASSUME NEW h \in Handler, ReleaseNodes(h)
       PROVE  PointersAreAlive'
  <2>1. ASSUME NEW n \in Node PROVE Agree(n)
    <3>1. CASE n \in inUse[h]
      <4>1. node'[n] = [node[n] EXCEPT !.nRefCount = @ - 1] /\ node[n] \in Connection /\ IsAlive(n)
        BY <1>18, <3>1 DEF ReleaseNodes, PointersAreAlive, PeersShape
      <4>2. node'[n].state = node[n].state /\ node'[n].addr = node[n].addr /\ node'[n].held = node[n].held
        BY <4>1 DEF Connection
      <4> QED
        BY <4>1, <4>2 DEF Agree, IsAlive
    <3>2. CASE n \notin inUse[h]
      BY <1>18, <3>2 DEF ReleaseNodes, Agree, IsAlive
    <3> QED
      BY <3>1, <3>2
  <2>2. \A g \in Handler : inUse'[g] \subseteq inUse[g]
    BY <1>18 DEF ReleaseNodes, PeersShape
  <2> QED
    BY <1>18, <2>1, <2>2, AgreeKnown DEF ReleaseNodes, PointersAreAlive
<1>19. CASE UNCHANGED peersVars
  BY <1>1, <1>19, AgreeKnown DEF peersVars, PointersAreAlive
<1> QED
  BY <1>3, <1>4, <1>5, <1>6, <1>7, <1>8, <1>9, <1>10, <1>11, <1>12, <1>14, <1>15, <1>16, <1>17, <1>18,
     <1>19
     DEF PeersNext, OpenerStep

-----------------------------------------------------------------------------
(* References. *)

LEMMA Numbers ==
  ASSUME PeersInv, NEW n \in Node
  PROVE  /\ node[n].nRefCount \in Int
         /\ IsFiniteSet(Linking(n)) /\ Cardinality(Linking(n)) \in Nat
         /\ Handling(n) \in Int /\ OwnRef(n) \in {0, 1}
         /\ Suffices(n)
<1>1. node[n].nRefCount \in Int
  BY DEF PeersInv, PeersShape, Connection
<1>2. IsFiniteSet(Linking(n)) /\ Cardinality(Linking(n)) \in Nat
  BY CountsAreFinite DEF PeersInv, SlotsFit
<1> QED
  BY <1>1, <1>2 DEF PeersInv, RefsSuffice, Handling, OwnRef

\* A step without references of its own.
LEMMA SameRefs ==
  ASSUME PeersInv, NEW n \in Node,
         Linking(n)' = Linking(n), Handling(n)' = Handling(n),
         node'[n].nRefCount = node[n].nRefCount, OwnRef(n)' = OwnRef(n), IsAlive(n)' => IsAlive(n)
  PROVE  Suffices(n)'
BY Numbers DEF Suffices

LEMMA SameNode ==
  ASSUME PeersInv, NEW n \in Node, node'[n] = node[n], UNCHANGED inUse, Linking(n)' = Linking(n)
  PROVE  Suffices(n)'
<1>1. Handling(n)' = Handling(n) /\ OwnRef(n)' = OwnRef(n) /\ IsAlive(n)' = IsAlive(n)
  BY DEF Handling, OwnRef, IsAlive
<1> QED
  BY <1>1, SameRefs

\* Who links does not change with a thread that neither has nor gets a reference.
LEMMA SameLinking ==
  ASSUME PeersInv, NEW n \in Node, NEW t \in Opener,
         \A u \in Opener : u # t => opener'[u] = opener[u],
         opener[t].at # "connected" \/ opener[t].pnode # n,
         opener'[t].at # "connected" \/ opener'[t].pnode # n
  PROVE  Linking(n)' = Linking(n)
BY DEF Linking

LEMMA MoreLinking ==
  ASSUME PeersInv, NEW n \in Node, NEW t \in Opener,
         \A u \in Opener : u # t => opener'[u] = opener[u],
         opener[t].at # "connected",
         opener'[t].at = "connected", opener'[t].pnode = n
  PROVE  Cardinality(Linking(n)') = Cardinality(Linking(n)) + 1
<1>1. Linking(n)' = Linking(n) \cup {t} /\ t \notin Linking(n)
  BY DEF Linking
<1>2. IsFiniteSet(Linking(n))
  BY Numbers
<1>3. Cardinality(Linking(n) \cup {t}) = Cardinality(Linking(n)) + 1
  BY <1>1, <1>2, OneMore
<1> QED
  BY <1>1, <1>3

LEMMA FewerLinking ==
  ASSUME PeersInv, NEW n \in Node, NEW t \in Opener,
         \A u \in Opener : u # t => opener'[u] = opener[u],
         opener[t].at = "connected", opener[t].pnode = n,
         opener'[t].at # "connected"
  PROVE  Cardinality(Linking(n)') = Cardinality(Linking(n)) - 1
<1>1. Linking(n)' = Linking(n) \ {t} /\ t \in Linking(n)
  BY DEF Linking
<1>2. IsFiniteSet(Linking(n))
  BY Numbers
<1>3. Cardinality(Linking(n) \ {t}) = Cardinality(Linking(n)) - 1
  BY <1>1, <1>2, OneLess
<1> QED
  BY <1>1, <1>3

LEMMA RefsStep ==
  ASSUME PeersInv, [PeersNext]_peersVars
  PROVE  RefsSuffice'
<1>0. PeersShape /\ PointersAreAlive /\ NoNode \notin Node
  BY PeersAssumption DEF PeersInv
<1>. USE <1>0
<1>. SUFFICES ASSUME NEW n \in Node PROVE Suffices(n)'
  BY DEF RefsSuffice
<1>1. ASSUME NEW t \in Opener, GiveUp(t), opener[t].at # "connected", UNCHANGED <<node, inUse>>
      PROVE  Suffices(n)'
  BY <1>1, GivenUp, SameLinking, SameNode
<1>2. ASSUME NEW t \in Opener, TakeSlot(t)
      PROVE  Suffices(n)'
  <2>1. opener'[t].at = "granted" /\ opener[t].at = "idle"
    BY <1>2 DEF TakeSlot, PeersShape, Place
  <2>2. \A u \in Opener : u # t => opener'[u] = opener[u]
    BY <1>2 DEF TakeSlot, PeersShape
  <2> QED
    BY <1>2, <2>1, <2>2, SameLinking, SameNode DEF TakeSlot
<1>3. ASSUME NEW t \in Opener, ChooseAddress(t)
      PROVE  Suffices(n)'
  <2>1. CASE GiveUp(t)
    BY <1>1, <1>3, <2>1 DEF ChooseAddress
  <2>2. ASSUME NEW a \in Addr, opener' = [opener EXCEPT ![t].at = "checked", ![t].addr = a]
        PROVE  Suffices(n)'
    <3>1. opener'[t].at = "checked" /\ opener[t].at = "granted"
      BY <1>3, <2>2 DEF ChooseAddress, PeersShape, Place
    <3>2. \A u \in Opener : u # t => opener'[u] = opener[u]
      BY <2>2 DEF PeersShape
    <3> QED
      BY <1>3, <3>1, <3>2, SameLinking, SameNode DEF ChooseAddress
  <2> QED
    BY <1>3, <2>1, <2>2 DEF ChooseAddress
<1>4. ASSUME NEW t \in Opener, LookForExisting(t)
      PROVE  Suffices(n)'
  <2>1. \A u \in Opener : u # t => opener'[u] = opener[u]
    BY <1>4 DEF LookForExisting, PeersShape
  <2>2. opener[t].at = "checked"
    BY <1>4 DEF LookForExisting
  <2>3. opener'[t].at # "connected"
    <3>1. CASE \E m \in vNodes : opener' = [opener EXCEPT ![t].at = "found", ![t].pnode = m]
      BY <3>1 DEF PeersShape, Place
    <3>2. CASE opener' = [opener EXCEPT ![t].at = "connecting"]
      BY <3>2 DEF PeersShape, Place
    <3> QED
      BY <1>4, <3>1, <3>2 DEF LookForExisting
  <2> QED
    BY <1>4, <2>1, <2>2, <2>3, SameLinking, SameNode DEF LookForExisting
<1>5. ASSUME NEW t \in Opener, AddRefExisting(t)
      PROVE  Suffices(n)'
  <2>1. \A u \in Opener : u # t => opener'[u] = opener[u]
    BY <1>5 DEF AddRefExisting, PeersShape
  <2>2. opener[t].at = "found" /\ opener'[t].at = "connected" /\ opener'[t].pnode = opener[t].pnode
    BY <1>5 DEF AddRefExisting, PeersShape, Place
  <2>3. IsAlive(opener[t].pnode)
    BY <2>2 DEF PointersAreAlive, PlaceIsRight
  <2>4. CASE opener[t].pnode # n
    <3>1. node'[n] = node[n] /\ UNCHANGED inUse
      BY <1>5, <2>4 DEF AddRefExisting, PeersShape
    <3> QED
      BY <2>1, <2>2, <2>4, <3>1, SameLinking, SameNode
  <2>5. CASE opener[t].pnode = n
    <3>1. node'[n] = [node[n] EXCEPT !.nRefCount = @ + 1] /\ UNCHANGED inUse /\ node[n] \in Connection
      BY <1>5, <2>5 DEF AddRefExisting, PeersShape
    <3>2. node'[n].nRefCount = node[n].nRefCount + 1
      BY <3>1 DEF Connection
    <3>3. node'[n].state = node[n].state /\ node'[n].fNetworkNode = node[n].fNetworkNode
          /\ node'[n].fInbound = node[n].fInbound
      BY <3>1 DEF Connection
    <3>4. Handling(n)' = Handling(n) /\ OwnRef(n)' = OwnRef(n) /\ IsAlive(n)
      BY <2>3, <2>5, <3>1, <3>3 DEF Handling, OwnRef
    <3>5. Cardinality(Linking(n)') = Cardinality(Linking(n)) + 1
      BY <2>1, <2>2, <2>5, MoreLinking
    <3> QED
      BY <3>2, <3>4, <3>5, Numbers DEF Suffices
  <2> QED
    BY <2>4, <2>5
<1>6. ASSUME NEW m \in Node, NEW a \in Addr, NEW i \in BOOLEAN, MakeNode(m, a, i), UNCHANGED inUse,
             i => UNCHANGED opener,
             ~i => \E t \in Opener : /\ opener[t].at = "connecting"
                                     /\ opener'[t].at = "connected" /\ opener'[t].pnode = m
                                     /\ \A u \in Opener : u # t => opener'[u] = opener[u]
      PROVE  Suffices(n)'
  <2>1. CASE n # m
    <3>1. node'[n] = node[n]
      BY <1>6, <2>1, MadeNode
    <3>2. Linking(n)' = Linking(n)
      <4>1. CASE i
        BY <1>6, <4>1 DEF Linking
      <4>2. CASE ~i
        <5>1. PICK t \in Opener : /\ opener[t].at = "connecting"
                                  /\ opener'[t].at = "connected" /\ opener'[t].pnode = m
                                  /\ \A u \in Opener : u # t => opener'[u] = opener[u]
          BY <1>6, <4>2
        <5> QED
          BY <2>1, <5>1, SameLinking
      <4> QED
        BY <4>1, <4>2
    <3> QED
      BY <1>6, <3>1, <3>2, SameNode
  <2>2. CASE n = m
    <3>1. Linking(n) = {} /\ Handling(n) = 0
      BY <1>6, <2>2, NewIsUnknown, MadeNode
    <3>2. node'[n].nRefCount = 1 /\ ~node'[n].fNetworkNode /\ node'[n].fInbound = i
          /\ node'[n].state = "open"
      BY <1>6, <2>2, MadeNode
    <3>3. Handling(n)' = 0 /\ OwnRef(n)' = (IF i THEN 1 ELSE 0)
      BY <1>6, <3>1, <3>2 DEF Handling, OwnRef
    <3>4. Cardinality(Linking(n)') = (IF i THEN 0 ELSE 1)
      <4>1. Cardinality(Linking(n)) = 0
        BY <3>1, FS_EmptySet
      <4>2. CASE i
        <5>1. Linking(n)' = Linking(n)
          BY <1>6, <4>2 DEF Linking
        <5> QED
          BY <4>1, <4>2, <5>1
      <4>3. CASE ~i
        <5>1. PICK t \in Opener : /\ opener[t].at = "connecting"
                                  /\ opener'[t].at = "connected" /\ opener'[t].pnode = m
                                  /\ \A u \in Opener : u # t => opener'[u] = opener[u]
          BY <1>6, <4>3
        <5>2. Cardinality(Linking(n)') = Cardinality(Linking(n)) + 1
          BY <2>2, <5>1, MoreLinking
        <5> QED
          BY <4>1, <4>3, <5>2
      <4> QED
        BY <4>2, <4>3
    <3> QED
      BY <3>2, <3>3, <3>4 DEF Suffices
  <2> QED
    BY <2>1, <2>2
<1>7. ASSUME NEW t \in Opener, ConnectNode(t)
      PROVE  Suffices(n)'
  <2>1. opener[t].at = "connecting" /\ opener[t].addr \in Addr
    BY <1>7 DEF ConnectNode, PointersAreAlive, PlaceIsRight
  <2>2. CASE GiveUp(t) /\ UNCHANGED node
    BY <1>1, <1>7, <2>1, <2>2 DEF ConnectNode
  <2>3. ASSUME NEW m \in Node, MakeNode(m, opener[t].addr, FALSE),
               opener' = [opener EXCEPT ![t].at = "connected", ![t].pnode = m]
        PROVE  Suffices(n)'
    <3>1. \A u \in Opener : u # t => opener'[u] = opener[u]
      BY <2>3 DEF PeersShape
    <3>2. opener'[t].at = "connected" /\ opener'[t].pnode = m
      BY <2>3 DEF PeersShape, Place
    <3>3. UNCHANGED inUse
      BY <1>7 DEF ConnectNode
    <3> QED
      BY <1>6, <2>1, <2>3, <3>1, <3>2, <3>3
  <2> QED
    BY <1>7, <2>2, <2>3 DEF ConnectNode
<1>8. ASSUME NEW t \in Opener, LinkNode(t)
      PROVE  Suffices(n)'
  <2>1. \A u \in Opener : u # t => opener'[u] = opener[u]
    BY <1>8 DEF LinkNode, PeersShape
  <2>2. opener[t].at = "connected" /\ opener'[t].at # "connected"
    BY <1>8 DEF LinkNode, PeersShape
  <2>3. IsAlive(opener[t].pnode)
    BY <2>2 DEF PointersAreAlive, PlaceIsRight
  <2>4. CASE opener[t].pnode # n
    <3>1. node'[n] = node[n] /\ UNCHANGED inUse
      BY <1>8, <2>4 DEF LinkNode, PeersShape
    <3> QED
      BY <2>1, <2>2, <2>4, <3>1, SameLinking, SameNode
  <2>5. CASE opener[t].pnode = n
    <3>1. node'[n] = [node[n] EXCEPT !.grantOutbound = TRUE, !.fNetworkNode = TRUE] /\ UNCHANGED inUse
          /\ node[n] \in Connection
      BY <1>8, <2>5 DEF LinkNode, PeersShape
    <3>2. node'[n].nRefCount = node[n].nRefCount
      BY <3>1 DEF Connection
    <3>3. Handling(n)' = Handling(n) /\ OwnRef(n)' \in {0, 1} /\ IsAlive(n)
      BY <2>3, <2>5, <3>1 DEF Handling, OwnRef
    <3>4. Cardinality(Linking(n)') = Cardinality(Linking(n)) - 1
      BY <2>1, <2>2, <2>5, FewerLinking
    <3> QED
      BY <3>2, <3>3, <3>4, Numbers DEF Suffices
  <2> QED
    BY <2>4, <2>5
<1>9. CASE DisconnectNodes
  <2>1. UNCHANGED <<opener, inUse>>
    BY <1>9 DEF DisconnectNodes
  <2>2. Linking(n)' = Linking(n) /\ Handling(n)' = Handling(n)
    BY <2>1 DEF Linking, Handling
  <2>3. CASE n \notin Unused
    BY <1>9, <2>1, <2>2, <2>3, SameNode DEF DisconnectNodes
  <2>4. CASE n \in Unused
    <3>1. node'[n] = Closed(node[n]) /\ node[n].state = "open" /\ node[n] \in Connection /\ IsAlive(n)
      BY <1>9, <2>4 DEF DisconnectNodes, Unused, vNodes, PeersShape, IsAlive
    <3>2. OwnRef(n)' = 0
      BY <3>1 DEF OwnRef, Closed, Connection
    <3>3. node'[n].nRefCount = node[n].nRefCount - OwnRef(n)
      BY <3>1 DEF OwnRef, Closed, Connection
    <3> QED
      BY <2>2, <3>1, <3>2, <3>3, Numbers DEF Suffices
  <2> QED
    BY <2>3, <2>4
<1>10. ASSUME NEW a \in Addr, AcceptConnection(a)
       PROVE  Suffices(n)'
  <2>1. UNCHANGED <<opener, inUse>> /\ \E m \in Node : MakeNode(m, a, TRUE)
    BY <1>10 DEF AcceptConnection
  <2> QED
    BY <1>6, <2>1
<1>11. ASSUME UNCHANGED <<node, opener, inUse>>
       PROVE  Suffices(n)'
  BY <1>11, SameNode DEF Linking
<1>12. ASSUME NEW m \in Node, DeleteNode(m)
       PROVE  Suffices(n)'
  <2>1. UNCHANGED <<opener, inUse>> /\ (n # m => node'[n] = node[n]) /\ node'[m].state = "gone"
    BY <1>12 DEF DeleteNode, PeersShape, Unborn
  <2>2. CASE n # m
    BY <2>1, <2>2, SameNode DEF Linking
  <2>3. CASE n = m
    BY <2>1, <2>3 DEF Suffices, IsAlive
  <2> QED
    BY <2>2, <2>3
<1>13. ASSUME NEW m \in Node, UNCHANGED <<opener, inUse>>,
              \/ node' = [node EXCEPT ![m].fDisconnect = TRUE]
              \/ node' = [node EXCEPT ![m].held = FALSE]
       PROVE  Suffices(n)'
  <2>1. node'[n] \in {node[n], [node[n] EXCEPT !.fDisconnect = TRUE], [node[n] EXCEPT !.held = FALSE]}
    BY <1>13 DEF PeersShape
  <2>2. node[n] \in Connection
    BY DEF PeersShape
  <2>3. node'[n].state = node[n].state /\ node'[n].nRefCount = node[n].nRefCount
        /\ node'[n].fNetworkNode = node[n].fNetworkNode /\ node'[n].fInbound = node[n].fInbound
    BY <2>1, <2>2 DEF Connection
  <2> QED
    BY <1>13, <2>3, SameRefs DEF Linking, Handling, OwnRef, IsAlive
<1>14. ASSUME NEW h \in Handler, CopyNodes(h)
       PROVE  Suffices(n)'
  <2>1. UNCHANGED opener /\ inUse[h] = {} /\ inUse'[h] = vNodes
        /\ \A g \in Handler : g # h => inUse'[g] = inUse[g]
    BY <1>14 DEF CopyNodes, PeersShape
  <2>2. Linking(n)' = Linking(n)
    BY <2>1 DEF Linking
  <2>3. CASE n \in vNodes
    <3>1. node'[n] = [node[n] EXCEPT !.nRefCount = @ + 1] /\ node[n] \in Connection
      BY <1>14, <2>3 DEF CopyNodes, PeersShape
    <3>2. node'[n].state = node[n].state /\ node'[n].nRefCount = node[n].nRefCount + 1
          /\ node'[n].fNetworkNode = node[n].fNetworkNode /\ node'[n].fInbound = node[n].fInbound
      BY <3>1 DEF Connection
    <3>3. Handling(n)' = Handling(n) + 1
      BY <2>1, <2>3 DEF Handling, Handler
    <3>4. OwnRef(n)' = OwnRef(n) /\ IsAlive(n)
      BY <2>3, <3>2 DEF OwnRef, IsAlive, vNodes
    <3> QED
      BY <2>2, <3>2, <3>3, <3>4, Numbers DEF Suffices
  <2>4. CASE n \notin vNodes
    <3>1. node'[n] = node[n]
      BY <1>14, <2>4 DEF CopyNodes
    <3>2. Handling(n)' = Handling(n)
      BY <2>1, <2>4 DEF Handling, Handler
    <3> QED
      BY <2>2, <3>1, <3>2, SameRefs DEF OwnRef, IsAlive
  <2> QED
    BY <2>3, <2>4
<1>15. ASSUME NEW h \in Handler, ReleaseNodes(h)
       PROVE  Suffices(n)'
  <2>1. UNCHANGED opener /\ inUse'[h] = {} /\ \A g \in Handler : g # h => inUse'[g] = inUse[g]
    BY <1>15 DEF ReleaseNodes, PeersShape
  <2>2. Linking(n)' = Linking(n)
    BY <2>1 DEF Linking
  <2>3. CASE n \in inUse[h]
    <3>1. node'[n] = [node[n] EXCEPT !.nRefCount = @ - 1] /\ node[n] \in Connection /\ IsAlive(n)
      BY <1>15, <2>3 DEF ReleaseNodes, PeersShape, PointersAreAlive
    <3>2. node'[n].state = node[n].state /\ node'[n].nRefCount = node[n].nRefCount - 1
          /\ node'[n].fNetworkNode = node[n].fNetworkNode /\ node'[n].fInbound = node[n].fInbound
      BY <3>1 DEF Connection
    <3>3. Handling(n)' = Handling(n) - 1
      BY <2>1, <2>3 DEF Handling, Handler
    <3>4. OwnRef(n)' = OwnRef(n)
      BY <3>2 DEF OwnRef
    <3> QED
      BY <2>2, <3>1, <3>2, <3>3, <3>4, Numbers DEF Suffices
  <2>4. CASE n \notin inUse[h]
    <3>1. node'[n] = node[n]
      BY <1>15, <2>4 DEF ReleaseNodes
    <3>2. Handling(n)' = Handling(n)
      BY <2>1, <2>4 DEF Handling, Handler
    <3> QED
      BY <2>2, <3>1, <3>2, SameRefs DEF OwnRef, IsAlive
  <2> QED
    BY <2>3, <2>4
<1> QED
  BY <1>2, <1>3, <1>4, <1>5, <1>7, <1>8, <1>9, <1>10, <1>11, <1>12, <1>13, <1>14, <1>15
     DEF PeersNext, OpenerStep, BanExpires, SocketCloses, Misbehaving, ReleaseTimePasses, peersVars

-----------------------------------------------------------------------------
(* Slots. *)

\* The slots that threads and connections have, when one of the three counts changes.
Kept(n) == /\ node'[n].state = node[n].state
           /\ node'[n].grantOutbound = node[n].grantOutbound
           /\ node'[n].fInbound = node[n].fInbound

LEMMA SameSlots ==
  ASSUME \A n \in Node : Kept(n)
  PROVE  EverOpen' = EverOpen /\ HoldingSlot' = HoldingSlot /\ Inbound' = Inbound
BY DEF Kept, EverOpen, HoldingSlot, Inbound, vNodes

LEMMA OneKept ==
  ASSUME PeersShape, NEW n \in Node, NEW c \in Connection, node' = [node EXCEPT ![n] = c],
         c.state = node[n].state, c.grantOutbound = node[n].grantOutbound, c.fInbound = node[n].fInbound
  PROVE  \A m \in Node : Kept(m)
<1>1. node'[n] = c /\ \A m \in Node : m # n => node'[m] = node[m]
  BY DEF PeersShape
<1> QED
  BY <1>1 DEF Kept

LEMMA SlotNumbers ==
  ASSUME PeersInv
  PROVE  /\ IsFiniteSet(Granted) /\ IsFiniteSet(HoldingSlot) /\ IsFiniteSet(Inbound) /\ IsFiniteSet(EverOpen)
         /\ Cardinality(Granted) \in Nat /\ Cardinality(HoldingSlot) \in Nat /\ Cardinality(Inbound) \in Nat
         /\ semOutbound \in Nat
BY CountsAreFinite DEF PeersInv, PeersShape, SlotsFit

LEMMA SlotsMove ==
  ASSUME PeersInv, SlotsFit, NEW t \in Opener, opener[t].at # "idle", opener'[t].grant = FALSE,
         \A u \in Opener : u # t => opener'[u] = opener[u]
  PROVE  Cardinality(Granted)' = Cardinality(Granted) - 1
<1>1. t \in Granted
  BY DEF Granted, PeersInv, PointersAreAlive, PlaceIsRight
<1>2. Granted' = Granted \ {t}
  BY DEF Granted
<1>3. Cardinality(Granted \ {t}) = Cardinality(Granted) - 1
  BY <1>1, SlotNumbers, OneLess
<1> QED
  BY <1>2, <1>3

\* A connection is made: it is started, and has no slot.
LEMMA MadeSlots ==
  ASSUME PeersInv, NEW n \in Node, NEW a \in Addr, NEW i \in BOOLEAN, MakeNode(n, a, i)
  PROVE  /\ IsFiniteSet(EverOpen') /\ HoldingSlot' = HoldingSlot
         /\ Inbound' = IF i THEN Inbound \cup {n} ELSE Inbound
         /\ n \notin Inbound
<1>0. PeersShape /\ PointersAreAlive
  BY DEF PeersInv
<1>1. node[n].state = "new" /\ node[n] = Unborn
  BY <1>0, MadeNode, NewIsUnknown
<1>2. /\ node'[n].state = "open" /\ node'[n].fInbound = i /\ ~node'[n].grantOutbound
      /\ \A m \in Node : m # n => node'[m] = node[m]
  BY <1>0, MadeNode
<1>3. EverOpen' = EverOpen \cup {n}
  BY <1>2 DEF EverOpen
<1>4. HoldingSlot' = HoldingSlot
  BY <1>1, <1>2 DEF HoldingSlot, Unborn
<1>5. n \notin Inbound
  BY <1>1 DEF Inbound, vNodes
<1>6. CASE i
  <2>1. Inbound' = Inbound \cup {n}
    BY <1>2, <1>6 DEF Inbound, vNodes
  <2> QED
    BY <1>3, <1>4, <1>5, <1>6, <2>1, SlotNumbers, OneMore, FS_AddElement
<1>7. CASE ~i
  <2>1. Inbound' = Inbound
    BY <1>1, <1>2, <1>7 DEF Inbound, vNodes
  <2> QED
    BY <1>3, <1>4, <1>5, <1>7, <2>1, SlotNumbers, OneMore, FS_AddElement
<1> QED
  BY <1>6, <1>7

LEMMA SlotsStep ==
  ASSUME PeersInv, [PeersNext]_peersVars
  PROVE  SlotsFit'
<1>0. PeersShape /\ PointersAreAlive /\ SlotsFit
  BY DEF PeersInv
<1>. USE <1>0
<1>1. ASSUME UNCHANGED node
      PROVE  EverOpen' = EverOpen /\ HoldingSlot' = HoldingSlot /\ Inbound' = Inbound
  BY <1>1, SameSlots DEF Kept
<1>2. ASSUME NEW t \in Opener, GiveUp(t), opener[t].at # "idle", UNCHANGED node
      PROVE  SlotsFit'
  <2>1. Cardinality(Granted)' = Cardinality(Granted) - 1
    <3>1. opener'[t].grant = FALSE /\ \A u \in Opener : u # t => opener'[u] = opener[u]
      BY <1>2, GivenUp
    <3> QED
      BY <1>2, <3>1, SlotsMove
  <2>2. semOutbound' = semOutbound + 1
    BY <1>2 DEF GiveUp, PointersAreAlive, PlaceIsRight
  <2> QED
    BY <1>1, <1>2, <2>1, <2>2, SlotNumbers DEF SlotsFit
<1>3. ASSUME UNCHANGED semOutbound, \A u \in Opener : opener'[u].grant = opener[u].grant,
             \A n \in Node : Kept(n)
      PROVE  SlotsFit'
  <2>1. Granted' = Granted
    BY <1>3 DEF Granted
  <2> QED
    BY <1>3, <2>1, SameSlots DEF SlotsFit
<1>4. ASSUME NEW t \in Opener, TakeSlot(t)
      PROVE  SlotsFit'
  <2>1. \A u \in Opener : u # t => opener'[u] = opener[u]
    BY <1>4 DEF TakeSlot, PeersShape
  <2>2. opener'[t].grant /\ ~opener[t].grant
    BY <1>4 DEF TakeSlot, PeersShape, Place, PointersAreAlive, PlaceIsRight
  <2>3. Granted' = Granted \cup {t} /\ t \notin Granted
    BY <2>1, <2>2 DEF Granted
  <2>4. Cardinality(Granted \cup {t}) = Cardinality(Granted) + 1
    BY <2>3, SlotNumbers, OneMore
  <2>5. semOutbound' = semOutbound - 1 /\ UNCHANGED node
    BY <1>4 DEF TakeSlot
  <2> QED
    BY <1>1, <2>3, <2>4, <2>5, SlotNumbers DEF SlotsFit
<1>5. ASSUME NEW t \in Opener, ChooseAddress(t)
      PROVE  SlotsFit'
  <2>1. CASE GiveUp(t)
    BY <1>2, <1>5, <2>1 DEF ChooseAddress
  <2>2. ASSUME NEW a \in Addr, opener' = [opener EXCEPT ![t].at = "checked", ![t].addr = a], UNCHANGED semOutbound
        PROVE  SlotsFit'
    <3>1. \A u \in Opener : opener'[u].grant = opener[u].grant
      BY <2>2 DEF PeersShape, Place
    <3> QED
      BY <1>3, <1>5, <2>2, <3>1 DEF ChooseAddress, Kept
  <2> QED
    BY <1>5, <2>1, <2>2 DEF ChooseAddress
<1>6. ASSUME NEW t \in Opener, LookForExisting(t)
      PROVE  SlotsFit'
  <2>1. \A u \in Opener : opener'[u].grant = opener[u].grant
    <3>1. CASE \E m \in vNodes : opener' = [opener EXCEPT ![t].at = "found", ![t].pnode = m]
      BY <3>1 DEF PeersShape, Place
    <3>2. CASE opener' = [opener EXCEPT ![t].at = "connecting"]
      BY <3>2 DEF PeersShape, Place
    <3> QED
      BY <1>6, <3>1, <3>2 DEF LookForExisting
  <2> QED
    BY <1>3, <1>6, <2>1 DEF LookForExisting, Kept
<1>7. ASSUME NEW t \in Opener, AddRefExisting(t)
      PROVE  SlotsFit'
  <2>1. \A u \in Opener : opener'[u].grant = opener[u].grant
    BY <1>7 DEF AddRefExisting, PeersShape, Place
  <2>2. \A m \in Node : Kept(m)
    <3>1. opener[t].pnode \in Node
          /\ node' = [node EXCEPT ![opener[t].pnode] = [node[opener[t].pnode] EXCEPT !.nRefCount = @ + 1]]
      BY <1>7 DEF AddRefExisting, PointersAreAlive, PlaceIsRight, IsAlive
    <3>2. node[opener[t].pnode] \in Connection
          /\ [node[opener[t].pnode] EXCEPT !.nRefCount = @ + 1] \in Connection
      BY <3>1, ChangedConnections DEF PeersShape
    <3> QED
      BY <3>1, <3>2, OneKept DEF Connection
  <2> QED
    BY <1>3, <1>7, <2>1, <2>2 DEF AddRefExisting
<1>8. ASSUME NEW t \in Opener, ConnectNode(t)
      PROVE  SlotsFit'
  <2>1. opener[t].at = "connecting" /\ opener[t].addr \in Addr
    BY <1>8 DEF ConnectNode, PointersAreAlive, PlaceIsRight
  <2>2. CASE GiveUp(t) /\ UNCHANGED node
    BY <1>2, <2>1, <2>2
  <2>3. ASSUME NEW n \in Node, MakeNode(n, opener[t].addr, FALSE), UNCHANGED semOutbound,
               opener' = [opener EXCEPT ![t].at = "connected", ![t].pnode = n]
        PROVE  SlotsFit'
    <3>1. Granted' = Granted
      BY <2>3 DEF Granted, PeersShape, Place
    <3>2. IsFiniteSet(EverOpen') /\ HoldingSlot' = HoldingSlot /\ Inbound' = Inbound
      BY <2>1, <2>3, MadeSlots
    <3> QED
      BY <2>3, <3>1, <3>2 DEF SlotsFit
  <2> QED
    BY <1>8, <2>2, <2>3 DEF ConnectNode
<1>9. ASSUME NEW t \in Opener, LinkNode(t)
      PROVE  SlotsFit'
  <2> DEFINE n == opener[t].pnode
  <2>1. opener[t].at = "connected" /\ opener'[t].grant = FALSE
    BY <1>9 DEF LinkNode, PeersShape
  <2>2. \A u \in Opener : u # t => opener'[u] = opener[u]
    BY <1>9 DEF LinkNode, PeersShape
  <2>3. Cardinality(Granted)' = Cardinality(Granted) - 1
    BY <2>1, <2>2, SlotsMove
  <2>4. IsAlive(n) /\ n \in Node
    BY <2>1 DEF PointersAreAlive, PlaceIsRight, IsAlive
  <2>5. /\ \A m \in Node : m # n => node'[m] = node[m]
        /\ node'[n] = [node[n] EXCEPT !.grantOutbound = TRUE, !.fNetworkNode = TRUE]
        /\ node[n] \in Connection
    BY <1>9, <2>4 DEF LinkNode, PeersShape
  <2>6. node'[n].grantOutbound /\ node'[n].state = node[n].state /\ node'[n].fInbound = node[n].fInbound
    BY <2>5 DEF Connection
  <2> HIDE DEF n
  <2>7. EverOpen' = EverOpen
    BY <2>5, <2>6 DEF EverOpen
  <2>8. Inbound' = Inbound
    <3>1. \A m \in Node : m \in Inbound' <=> m \in Inbound
      BY <2>5, <2>6 DEF Inbound, vNodes
    <3>2. Inbound \subseteq Node /\ Inbound' \subseteq Node
      BY DEF Inbound, vNodes
    <3> QED
      BY <3>1, <3>2
  <2>9. HoldingSlot' = HoldingSlot \cup {n}
    <3>1. \A m \in Node : m \in HoldingSlot' <=> m \in HoldingSlot \/ m = n
      BY <2>4, <2>5, <2>6 DEF HoldingSlot, IsAlive
    <3> QED
      BY <2>4, <3>1 DEF HoldingSlot
  <2>10. semOutbound' = semOutbound + MoveTo(n)
    BY <1>9 DEF LinkNode, n
  <2>11. CASE node[n].grantOutbound
    <3>1. HoldingSlot' = HoldingSlot
      BY <2>4, <2>9, <2>11 DEF HoldingSlot, IsAlive
    <3>2. MoveTo(n) = 1
      BY <2>11 DEF MoveTo
    <3> QED
      BY <2>3, <2>7, <2>8, <2>10, <3>1, <3>2, SlotNumbers DEF SlotsFit
  <2>12. CASE ~node[n].grantOutbound
    <3>1. n \notin HoldingSlot
      BY <2>12 DEF HoldingSlot
    <3>2. Cardinality(HoldingSlot') = Cardinality(HoldingSlot) + 1
      BY <2>9, <3>1, SlotNumbers, OneMore
    <3>3. MoveTo(n) = 0
      BY <2>12 DEF MoveTo
    <3> QED
      BY <2>3, <2>7, <2>8, <2>10, <3>2, <3>3, SlotNumbers DEF SlotsFit
  <2> QED
    BY <2>11, <2>12
<1>10. CASE DisconnectNodes
  <2> DEFINE T == {n \in Unused : node[n].grantOutbound}
  <2>1. ASSUME NEW n \in Unused
        PROVE  /\ node[n].state = "open" /\ node'[n].state = "closed" /\ ~node'[n].grantOutbound
               /\ node'[n].fInbound = node[n].fInbound
    <3>1. n \in Node /\ node[n].state = "open" /\ node'[n] = Closed(node[n]) /\ node[n] \in Connection
      BY <1>10 DEF DisconnectNodes, Unused, vNodes, PeersShape
    <3> QED
      BY <3>1 DEF Closed, Connection
  <2>2. \A n \in Node : n \notin Unused => node'[n] = node[n]
    BY <1>10 DEF DisconnectNodes
  <2>3. Unused \subseteq Node
    BY DEF Unused, vNodes
  <2>4. HoldingSlot' = HoldingSlot \ T /\ T \subseteq HoldingSlot
    <3>1. \A n \in Node : n \in HoldingSlot' <=> n \in HoldingSlot /\ n \notin T
      BY <2>1, <2>2 DEF HoldingSlot
    <3>2. T \subseteq HoldingSlot
      BY <2>1, <2>3 DEF HoldingSlot
    <3> QED
      BY <3>1, <3>2 DEF HoldingSlot
  <2>5. EverOpen' = EverOpen
    <3>1. \A n \in Node : n \in EverOpen' <=> n \in EverOpen
      BY <2>1, <2>2 DEF EverOpen
    <3> QED
      BY <3>1 DEF EverOpen
  <2>6. Inbound' \subseteq Inbound
    BY <2>1, <2>2 DEF Inbound, vNodes
  <2>7. Cardinality(Inbound') <= Cardinality(Inbound) /\ Cardinality(Inbound') \in Nat
    BY <2>6, SlotNumbers, FS_Subset, FS_CardinalityType
  <2>8. semOutbound' = semOutbound + Cardinality(T) /\ UNCHANGED opener
    BY <1>10 DEF DisconnectNodes, Grants
  <2> HIDE DEF T
  <2>9. /\ Cardinality(T) \in Nat /\ Cardinality(HoldingSlot \ T) = Cardinality(HoldingSlot) - Cardinality(T)
    BY <2>4, SlotNumbers, Disjoint
  <2>10. Granted' = Granted
    BY <2>8 DEF Granted
  <2>11. Cardinality(Inbound') <= MaxInbound
    BY <2>7, SlotNumbers, PeersAssumption DEF SlotsFit
  <2> QED
    BY <2>4, <2>5, <2>8, <2>9, <2>10, <2>11, SlotNumbers DEF SlotsFit
<1>11. ASSUME NEW a \in Addr, AcceptConnection(a)
       PROVE  SlotsFit'
  <2>1. PICK n \in Node : MakeNode(n, a, TRUE)
    BY <1>11 DEF AcceptConnection
  <2>2. UNCHANGED <<semOutbound, opener>> /\ Cardinality(Inbound) < MaxInbound
    <3>1. ~(Cardinality(Inbound) >= MaxInbound)
      BY <1>11 DEF AcceptConnection, Full, Inbound
    <3> QED
      BY <1>11, <3>1, SlotNumbers, PeersAssumption DEF AcceptConnection
  <2>3. IsFiniteSet(EverOpen') /\ HoldingSlot' = HoldingSlot /\ Inbound' = Inbound \cup {n} /\ n \notin Inbound
    BY <2>1, MadeSlots
  <2>4. Cardinality(Inbound') <= MaxInbound
    <3>1. Cardinality(Inbound') = Cardinality(Inbound) + 1
      BY <2>3, SlotNumbers, OneMore
    <3> QED
      BY <2>2, <3>1, SlotNumbers, PeersAssumption
  <2>5. Granted' = Granted
    BY <2>2 DEF Granted
  <2> QED
    BY <2>2, <2>3, <2>4, <2>5 DEF SlotsFit
<1>12. ASSUME NEW n \in Node, DeleteNode(n)
       PROVE  SlotsFit'
  <2>1. /\ \A m \in Node : m # n => node'[m] = node[m]
        /\ node'[n].state = "gone" /\ node[n].state = "closed"
    BY <1>12 DEF DeleteNode, PeersShape, Unborn, vNodesDisconnected
  <2>2. UNCHANGED opener /\ semOutbound' = semOutbound + Grants({n})
    BY <1>12 DEF DeleteNode
  <2>3. HoldingSlot' = HoldingSlot \ {n}
    <3>1. \A m \in Node : m \in HoldingSlot' <=> m \in HoldingSlot /\ m # n
      BY <2>1 DEF HoldingSlot
    <3> QED
      BY <3>1 DEF HoldingSlot
  <2>4. EverOpen' = EverOpen
    <3>1. \A m \in Node : m \in EverOpen' <=> m \in EverOpen
      BY <2>1 DEF EverOpen
    <3> QED
      BY <3>1 DEF EverOpen
  <2>5. Inbound' = Inbound
    <3>1. \A m \in Node : m \in Inbound' <=> m \in Inbound
      BY <2>1 DEF Inbound, vNodes
    <3>2. Inbound \subseteq Node /\ Inbound' \subseteq Node
      BY DEF Inbound, vNodes
    <3> QED
      BY <3>1, <3>2
  <2>6. Granted' = Granted
    BY <2>2 DEF Granted
  <2>7. CASE n \in HoldingSlot
    <3>1. {m \in {n} : node[m].grantOutbound} = {n}
      BY <2>7 DEF HoldingSlot
    <3>2. Grants({n}) = 1
      BY <3>1, FS_Singleton DEF Grants
    <3>3. Cardinality(HoldingSlot \ {n}) = Cardinality(HoldingSlot) - 1
      BY <2>7, SlotNumbers, OneLess
    <3> QED
      BY <2>2, <2>3, <2>4, <2>5, <2>6, <3>2, <3>3, SlotNumbers DEF SlotsFit
  <2>8. CASE n \notin HoldingSlot
    <3>1. {m \in {n} : node[m].grantOutbound} = {}
      BY <2>1, <2>8 DEF HoldingSlot
    <3>2. Grants({n}) = 0
      BY <3>1, FS_EmptySet DEF Grants
    <3>3. HoldingSlot' = HoldingSlot
      BY <2>3, <2>8
    <3> QED
      BY <2>2, <2>4, <2>5, <2>6, <3>2, <3>3, SlotNumbers DEF SlotsFit
  <2> QED
    BY <2>7, <2>8
<1>13. ASSUME NEW n \in Node, UNCHANGED <<semOutbound, opener>>,
              \/ node' = [node EXCEPT ![n].fDisconnect = TRUE]
              \/ node' = [node EXCEPT ![n].held = FALSE]
       PROVE  SlotsFit'
  <2>1. node[n] \in Connection
    BY DEF PeersShape
  <2>2. CASE node' = [node EXCEPT ![n].fDisconnect = TRUE]
    <3>1. node' = [node EXCEPT ![n] = [node[n] EXCEPT !.fDisconnect = TRUE]]
      BY <2>2
    <3>2. [node[n] EXCEPT !.fDisconnect = TRUE] \in Connection
      BY <2>1, FieldUpdates
    <3>3. \A m \in Node : Kept(m)
      BY <2>1, <3>1, <3>2, OneKept DEF Connection
    <3> QED
      BY <1>3, <1>13, <3>3
  <2>3. CASE node' = [node EXCEPT ![n].held = FALSE]
    <3>1. node' = [node EXCEPT ![n] = [node[n] EXCEPT !.held = FALSE]]
      BY <2>3
    <3>2. [node[n] EXCEPT !.held = FALSE] \in Connection
      BY <2>1, FieldUpdates
    <3>3. \A m \in Node : Kept(m)
      BY <2>1, <3>1, <3>2, OneKept DEF Connection
    <3> QED
      BY <1>3, <1>13, <3>3
  <2> QED
    BY <1>13, <2>2, <2>3
<1>14. ASSUME NEW h \in Handler, CopyNodes(h) \/ ReleaseNodes(h)
       PROVE  SlotsFit'
  <2>1. UNCHANGED <<semOutbound, opener>>
    BY <1>14 DEF CopyNodes, ReleaseNodes
  <2>2. ASSUME NEW n \in Node PROVE Kept(n)
    <3>1. \/ node'[n] = node[n]
          \/ node'[n] = [node[n] EXCEPT !.nRefCount = @ + 1]
          \/ node'[n] = [node[n] EXCEPT !.nRefCount = @ - 1]
      BY <1>14 DEF CopyNodes, ReleaseNodes
    <3>2. node[n] \in Connection
      BY DEF PeersShape
    <3> QED
      BY <3>1, <3>2 DEF Kept, Connection
  <2> QED
    BY <1>3, <2>1, <2>2
<1>15. ASSUME UNCHANGED <<node, semOutbound, opener>>
       PROVE  SlotsFit'
  BY <1>3, <1>15 DEF Kept
<1> QED
  BY <1>4, <1>5, <1>6, <1>7, <1>8, <1>9, <1>10, <1>11, <1>12, <1>13, <1>14, <1>15
     DEF PeersNext, OpenerStep, BanExpires, SocketCloses, Misbehaving, ReleaseTimePasses, peersVars

-----------------------------------------------------------------------------
(***************************************************************************)
(* The node starts without connections, and every step of every thread     *)
(* keeps enough references on each connection that somebody points to, and *)
(* every slot of semOutbound with a thread, a connection or the semaphore. *)
(***************************************************************************)
THEOREM PeersInvariant == PeersSpec => []PeersInv
<1>1. PeersInit => PeersInv
  <2> SUFFICES ASSUME PeersInit PROVE PeersInv
    OBVIOUS
  <2> USE PeersAssumption
  <2>1. Unborn \in Connection
    BY DEF Unborn, Connection
  <2>2. PeersShape
    <3>1. node \in [Node -> Connection] /\ semOutbound \in Nat /\ setBanned \subseteq Addr
      BY <2>1 DEF PeersInit
    <3>2. opener \in [Opener -> Place]
      BY NoPlace DEF PeersInit
    <3>3. inUse \in [Handler -> SUBSET Node]
      BY DEF PeersInit
    <3> QED
      BY <3>1, <3>2, <3>3 DEF PeersShape
  <2>3. PointersAreAlive
    <3>1. \A t \in Opener : PlaceIsRight(t)
      BY DEF PeersInit, PlaceIsRight
    <3>2. \A n \in Node : node[n] = Unborn /\ ~IsAlive(n)
      BY DEF PeersInit, IsAlive, Unborn
    <3> QED
      BY <3>1, <3>2 DEF PeersInit, PointersAreAlive, NodeIsKnown
  <2>4. RefsSuffice
    BY DEF PeersInit, RefsSuffice, Suffices, IsAlive, Unborn
  <2>5. SlotsFit
    <3>1. EverOpen = {} /\ Granted = {} /\ HoldingSlot = {} /\ Inbound = {}
      BY DEF PeersInit, EverOpen, Granted, HoldingSlot, Inbound, vNodes, Unborn
    <3> QED
      BY <3>1, FS_EmptySet DEF SlotsFit, PeersInit
  <2> QED
    BY <2>2, <2>3, <2>4, <2>5 DEF PeersInv
<1>2. PeersInv /\ [PeersNext]_peersVars => PeersInv'
  <2> SUFFICES ASSUME PeersInv, [PeersNext]_peersVars PROVE PeersInv'
    OBVIOUS
  <2>1. PeersShape'
    BY ShapeStep DEF PeersInv, SlotsFit
  <2> QED
    BY <2>1, AliveStep, RefsStep, SlotsStep DEF PeersInv
<1> QED
  BY <1>1, <1>2, PTL DEF PeersSpec

(***************************************************************************)
(* No thread uses a CNode after its destructor, and semOutbound, the       *)
(* threads and the connections have MAX_OUTBOUND_CONNECTIONS slots between *)
(* them at any time, however many threads open connections to however      *)
(* many peers.                                                             *)
(***************************************************************************)
THEOREM ConnectionsStaySound == PeersSpec => []ConnectionsAreSound
<1>1. PeersInv => ConnectionsAreSound
  <2> SUFFICES ASSUME PeersInv PROVE ConnectionsAreSound
    OBVIOUS
  <2>1. PeersTypeOK
    <3>1. semOutbound \in 0 .. MaxOutbound
      BY SlotNumbers, PeersAssumption DEF PeersInv, SlotsFit
    <3>2. node \in [Node -> Connection] /\ setBanned \subseteq Addr
          /\ \A h \in Handler : inUse[h] \subseteq Node
      BY DEF PeersInv, PeersShape
    <3>3. \A t \in Opener : /\ opener[t].at \in {"idle", "granted", "checked", "found",
                                                 "connecting", "connected"}
                            /\ opener[t].pnode \in Node \cup {NoNode}
      BY DEF PeersInv, PeersShape, Place
    <3>4. Cardinality({n \in vNodes : node[n].fInbound}) <= MaxInbound
      BY DEF PeersInv, SlotsFit, Inbound
    <3> QED
      BY <3>1, <3>2, <3>3, <3>4 DEF PeersTypeOK
  <2>2. NoUseAfterDelete
    <3> SUFFICES ASSUME NEW n \in Node, node[n].state = "gone"
                 PROVE  /\ \A h \in Handler : n \notin inUse[h]
                        /\ \A t \in Opener : opener[t].pnode # n
      BY DEF NoUseAfterDelete
    <3>1. ~IsAlive(n) /\ n # NoNode
      BY PeersAssumption DEF IsAlive
    <3> QED
      BY <3>1 DEF PeersInv, PointersAreAlive, PlaceIsRight
  <2>3. SlotsAreConserved
    <3>1. Granted = {t \in Opener : opener[t].grant}
          /\ HoldingSlot = {n \in {m \in Node : node[m].state # "gone"} : node[n].grantOutbound}
      BY DEF Granted, HoldingSlot
    <3> QED
      BY <3>1 DEF SlotsAreConserved, PeersInv, SlotsFit, Grants
  <2> QED
    BY <2>1, <2>2, <2>3 DEF ConnectionsAreSound
<1> QED
  BY <1>1, PeersInvariant, PTL

-----------------------------------------------------------------------------
(* The shutdown. *)

(***************************************************************************)
(* A thread with a CDB is at work; from the last loop of StopNode on no    *)
(* thread is, except the minter.  What is not flushed has an entry.        *)
(***************************************************************************)
ShutdownShape ==
    /\ stage \in 1 .. 8 /\ fShutdown \in BOOLEAN /\ pwalletDeleted \in BOOLEAN
    /\ handler \in {"work", "sleep", "exited"} /\ minter \in {"locked", "work", "exited"}
    /\ rpc \in [Client -> {"none", "start", "read", "exec", "exited"}]
    /\ vnThreadsRunning \in [Counted -> Int]
    /\ usesDb \subseteq User /\ dbHandle \in BOOLEAN /\ dirty \in BOOLEAN /\ fDbEnvInit \in BOOLEAN

Serving == {c \in Client : rpc[c] \in {"read", "exec"}}

CountsAreRight ==
    /\ vnThreadsRunning["handler"] = IF handler = "work" THEN 1 ELSE 0
    /\ vnThreadsRunning["minter"] = IF minter = "exited" THEN 0 ELSE 1
    /\ vnThreadsRunning["rpc"] = Cardinality(Serving)

UsesAreRight ==
    /\ \A u \in usesDb : Working(u)
    /\ useCount = NoEntry => usesDb = {} /\ ~dirty
    /\ useCount # NoEntry => useCount = Cardinality(usesDb)
    /\ usesDb # {} => dbHandle /\ fDbEnvInit

StagesGoOn ==
    /\ fShutdown <=> stage > 1
    /\ stage > 5 => handler # "work" /\ Serving = {}
    /\ pwalletDeleted => stage = 8

ShutdownInv == ShutdownShape /\ CountsAreRight /\ UsesAreRight /\ StagesGoOn

LEMMA StageNumbers ==
  ASSUME stage \in 1 .. 8
  PROVE  /\ AtStage("running") <=> stage = 1
         /\ AtStage("flush") <=> stage = 2
         /\ AtStage("stop") <=> stage = 3
         /\ AtStage("wait") <=> stage = 4
         /\ AtStage("finalwait") <=> stage = 5
         /\ AtStage("flushall") <=> stage = 6
         /\ AtStage("delete") <=> stage = 7
         /\ AtStage("exit") <=> stage = 8
<1>1. /\ Stages[1] = "running" /\ Stages[2] = "flush" /\ Stages[3] = "stop" /\ Stages[4] = "wait"
      /\ Stages[5] = "finalwait" /\ Stages[6] = "flushall" /\ Stages[7] = "delete" /\ Stages[8] = "exit"
  BY DEF Stages
<1>2. stage \in {1, 2, 3, 4, 5, 6, 7, 8}
  OBVIOUS
<1> QED
  BY <1>1, <1>2 DEF AtStage

LEMMA UsesAreFinite ==
  /\ \A S \in SUBSET Client : IsFiniteSet(S) /\ Cardinality(S) \in Nat
  /\ \A S \in SUBSET User : IsFiniteSet(S) /\ Cardinality(S) \in Nat
<1>1. IsFiniteSet(Client)
  BY ShutdownAssumption
<1>2. IsFiniteSet(User)
  <2>1. IsFiniteSet({"handler", "minter"})
    <3>1. IsFiniteSet({"handler"})
      BY FS_Singleton
    <3>2. IsFiniteSet({"handler"} \cup {"minter"})
      BY <3>1, FS_AddElement
    <3>3. {"handler"} \cup {"minter"} = {"handler", "minter"}
      OBVIOUS
    <3> QED
      BY <3>2, <3>3
  <2> QED
    BY <1>1, <2>1, FS_Union DEF User
<1> QED
  BY <1>1, <1>2, FS_Subset, FS_CardinalityType

LEMMA ShutdownInvInit == ShutdownInit => ShutdownInv
<1> SUFFICES ASSUME ShutdownInit PROVE ShutdownInv
  OBVIOUS
<1> USE DEF ShutdownInit
<1>1. Serving = {} /\ Cardinality({}) = 0
  BY FS_EmptySet DEF Serving
<1>2. ShutdownShape
  <2>1. vnThreadsRunning \in [Counted -> Int]
    OBVIOUS
  <2>2. rpc \in [Client -> {"none", "start", "read", "exec", "exited"}]
    OBVIOUS
  <2>3. stage \in 1 .. 8 /\ fShutdown \in BOOLEAN /\ pwalletDeleted \in BOOLEAN
    <3>1. stage = 1 /\ fShutdown = FALSE /\ pwalletDeleted = FALSE
      OBVIOUS
    <3>2. 1 \in 1 .. 8
      OBVIOUS
    <3> QED
      BY <3>1, <3>2
  <2>4. handler \in {"work", "sleep", "exited"} /\ minter \in {"locked", "work", "exited"}
    OBVIOUS
  <2>5. usesDb \subseteq User /\ dbHandle \in BOOLEAN /\ dirty \in BOOLEAN /\ fDbEnvInit \in BOOLEAN
    OBVIOUS
  <2> QED
    BY <2>1, <2>2, <2>3, <2>4, <2>5 DEF ShutdownShape
<1>3. CountsAreRight
  BY <1>1 DEF CountsAreRight, Counted
<1>4. UsesAreRight
  BY DEF UsesAreRight, NoEntry
<1>5. StagesGoOn
  BY <1>1 DEF StagesGoOn
<1> QED
  BY <1>2, <1>3, <1>4, <1>5 DEF ShutdownInv

\* The thread of u opens or closes its CDB.
LEMMA OpenDbKeeps == ASSUME ShutdownInv, NEW u \in User, OpenDb(u) PROVE ShutdownInv'
<1>1. UNCHANGED <<stage, fShutdown, handler, minter, rpc, requests, vnThreadsRunning, fDbEnvInit,
                  dirty, pwalletDeleted>>
      /\ Working(u) /\ u \notin usesDb /\ fDbEnvInit /\ usesDb' = usesDb \cup {u} /\ dbHandle' = TRUE
  BY DEF OpenDb
<1>2. useCount' = (IF useCount = NoEntry THEN 1 ELSE useCount + 1)
  BY DEF OpenDb
<1>3. Cardinality(usesDb) \in Nat /\ Cardinality(usesDb') = Cardinality(usesDb) + 1
  BY <1>1, UsesAreFinite, FS_AddElement DEF ShutdownInv, ShutdownShape
<1>4. useCount' = Cardinality(usesDb') /\ useCount' # NoEntry
  <2>1. CASE useCount = NoEntry
    <3>1. Cardinality(usesDb) = 0
      BY <2>1, FS_EmptySet DEF ShutdownInv, UsesAreRight
    <3> QED
      BY <1>2, <1>3, <2>1, <3>1 DEF NoEntry
  <2>2. CASE useCount # NoEntry
    BY <1>2, <1>3, <2>2 DEF ShutdownInv, UsesAreRight, NoEntry
  <2> QED
    BY <2>1, <2>2
<1>5. ShutdownShape'
  BY <1>1 DEF ShutdownInv, ShutdownShape
<1>6. CountsAreRight' /\ StagesGoOn'
  BY <1>1 DEF ShutdownInv, CountsAreRight, StagesGoOn, Serving
<1>7. UsesAreRight'
  BY <1>1, <1>4 DEF ShutdownInv, UsesAreRight, Working
<1> QED
  BY <1>5, <1>6, <1>7 DEF ShutdownInv

LEMMA CloseCDBKeeps == ASSUME ShutdownInv, NEW u \in User, CloseCDB(u) PROVE ShutdownInv'
<1>1. UNCHANGED <<stage, fShutdown, handler, minter, rpc, requests, vnThreadsRunning, dbHandle,
                  fDbEnvInit, pwalletDeleted>>
      /\ u \in usesDb /\ usesDb' = usesDb \ {u} /\ dirty' = TRUE /\ useCount' = useCount - 1
  BY DEF CloseCDB, Released
<1>2. Cardinality(usesDb') \in Nat /\ Cardinality(usesDb') = Cardinality(usesDb) - 1
  BY <1>1, UsesAreFinite, FS_RemoveElement DEF ShutdownInv, ShutdownShape
<1>3. useCount = Cardinality(usesDb) /\ useCount # NoEntry
  BY <1>1 DEF ShutdownInv, UsesAreRight
<1>4. useCount' = Cardinality(usesDb') /\ useCount' # NoEntry
  BY <1>1, <1>2, <1>3 DEF NoEntry
<1>5. ShutdownShape'
  BY <1>1 DEF ShutdownInv, ShutdownShape
<1>6. CountsAreRight' /\ StagesGoOn'
  BY <1>1 DEF ShutdownInv, CountsAreRight, StagesGoOn, Serving
<1>7. UsesAreRight'
  BY <1>1, <1>4 DEF ShutdownInv, UsesAreRight, Working
<1> QED
  BY <1>5, <1>6, <1>7 DEF ShutdownInv

\* A file is flushed when nobody has it open.
LEMMA FlushRight ==
  ASSUME ShutdownInv, UNCHANGED <<handler, minter, rpc, usesDb>>, fDbEnvInit' = fDbEnvInit \/ usesDb = {},
         \/ MayFlush /\ FlushFile
         \/ UNCHANGED <<dbHandle, dirty, useCount>>
  PROVE  UsesAreRight' /\ dbHandle' \in BOOLEAN /\ dirty' \in BOOLEAN
<1>1. dbHandle' \in BOOLEAN /\ dirty' \in BOOLEAN
  BY DEF ShutdownInv, ShutdownShape, FlushFile
<1>2. CASE MayFlush /\ FlushFile
  <2>1. useCount = 0 /\ dbHandle' = FALSE /\ dirty' = FALSE /\ useCount' = NoEntry
    BY <1>2 DEF MayFlush, FlushFile
  <2>2. IsFiniteSet(usesDb) /\ Cardinality(usesDb) = 0
    BY <2>1, UsesAreFinite DEF ShutdownInv, ShutdownShape, UsesAreRight, NoEntry
  <2>3. usesDb = {}
    BY <2>2, FS_EmptySet
  <2> QED
    BY <1>1, <2>1, <2>3 DEF UsesAreRight
<1>3. CASE UNCHANGED <<dbHandle, dirty, useCount>>
  BY <1>1, <1>3 DEF ShutdownInv, UsesAreRight, Working
<1> QED
  BY <1>1, <1>2, <1>3

LEMMA FlushWalletKeeps == ASSUME ShutdownInv, FlushWallet PROVE ShutdownInv'
<1>1. UNCHANGED <<stage, fShutdown, handler, minter, rpc, requests, vnThreadsRunning, usesDb,
                  fDbEnvInit, pwalletDeleted>>
      /\ MayFlush /\ FlushFile
  BY DEF FlushWallet
<1>2. UsesAreRight' /\ dbHandle' \in BOOLEAN /\ dirty' \in BOOLEAN
  BY <1>1, FlushRight
<1>3. ShutdownShape' /\ CountsAreRight' /\ StagesGoOn'
  BY <1>1, <1>2 DEF ShutdownInv, ShutdownShape, CountsAreRight, StagesGoOn, Serving
<1> QED
  BY <1>2, <1>3 DEF ShutdownInv

\* The steps of StopNode and Shutdown.
LEMMA ShutdownGoesKeeps ==
  ASSUME ShutdownInv, ShutdownStep \/ StartShutdown
  PROVE  ShutdownInv'
<1>1. stage \in 1 .. 8
  BY DEF ShutdownInv, ShutdownShape
<1>2. Others /\ stage' = stage + 1 /\ UNCHANGED usesDb /\ fShutdown' \in BOOLEAN
      /\ pwalletDeleted' \in BOOLEAN
  BY DEF ShutdownStep, FirstFlush, StopNodeBegins, WaitEnds, FinalWaitEnds, LastFlush, DeleteWallet,
         StartShutdown, Goes, dbVars, ShutdownInv, ShutdownShape
<1>3. stage < 8
  BY <1>1, StageNumbers DEF ShutdownStep, FirstFlush, StopNodeBegins, WaitEnds, FinalWaitEnds, LastFlush,
         DeleteWallet, StartShutdown
<1>4. (fShutdown' <=> stage' > 1) /\ (pwalletDeleted' => stage' = 8)
  BY <1>1, <1>2, StageNumbers
     DEF ShutdownStep, FirstFlush, StopNodeBegins, WaitEnds, FinalWaitEnds, LastFlush,
         DeleteWallet, StartShutdown, ShutdownInv, StagesGoOn
<1>5. stage = 5 => vnThreadsRunning["handler"] = 0 /\ vnThreadsRunning["rpc"] = 0
  BY <1>1, StageNumbers DEF ShutdownStep, FirstFlush, StopNodeBegins, WaitEnds, FinalWaitEnds, LastFlush,
         DeleteWallet, StartShutdown, MustEnd
<1>6. /\ \/ MayFlush /\ FlushFile
         \/ UNCHANGED <<dbHandle, dirty, useCount>>
      /\ fDbEnvInit' = fDbEnvInit \/ (fDbEnvInit' = (useCount' # NoEntry))
  BY DEF ShutdownStep, FirstFlush, StopNodeBegins, WaitEnds, FinalWaitEnds, LastFlush, DeleteWallet,
         StartShutdown, dbVars
<1>7. fDbEnvInit' \in BOOLEAN
  BY <1>6 DEF ShutdownInv, ShutdownShape
<1>8. fDbEnvInit' = fDbEnvInit \/ usesDb = {}
  <2>1. ASSUME usesDb # {}, fDbEnvInit' = (useCount' # NoEntry) PROVE fDbEnvInit' = fDbEnvInit
    <3>1. useCount = Cardinality(usesDb) /\ useCount # NoEntry /\ fDbEnvInit = TRUE
      BY <2>1 DEF ShutdownInv, UsesAreRight, ShutdownShape
    <3>2. Cardinality(usesDb) # 0
      BY <2>1, UsesAreFinite, FS_EmptySet DEF ShutdownInv, ShutdownShape
    <3>3. useCount' = useCount
      BY <1>6, <3>1, <3>2 DEF MayFlush
    <3> QED
      BY <2>1, <3>1, <3>3
  <2> QED
    BY <1>6, <2>1
<1>9. UsesAreRight' /\ dbHandle' \in BOOLEAN /\ dirty' \in BOOLEAN
  BY <1>2, <1>6, <1>8, FlushRight DEF Others
<1>10. ShutdownShape'
  BY <1>1, <1>2, <1>3, <1>7, <1>9 DEF ShutdownInv, ShutdownShape, Others
<1>11. CountsAreRight'
  BY <1>2 DEF Others, ShutdownInv, CountsAreRight, Serving
<1>12. StagesGoOn'
  <2>1. stage = 5 => handler # "work" /\ Serving = {}
    <3>1. Serving \subseteq Client
      BY DEF Serving
    <3> QED
      BY <1>5, <3>1, UsesAreFinite, FS_EmptySet DEF ShutdownInv, CountsAreRight
  <2>2. stage' > 5 => stage = 5 \/ stage > 5
    BY <1>1, <1>2
  <2>3. Serving' = Serving /\ handler' = handler
    BY <1>2 DEF Others, Serving
  <2> QED
    BY <1>4, <2>1, <2>2, <2>3 DEF ShutdownInv, StagesGoOn
<1> QED
  BY <1>9, <1>10, <1>11, <1>12 DEF ShutdownInv

LEMMA CountIs ==
  ASSUME ShutdownShape, NEW k \in Counted, NEW n, Counting(k, n)
  PROVE  /\ vnThreadsRunning'[k] = vnThreadsRunning[k] + n
         /\ \A j \in Counted \ {k} : vnThreadsRunning'[j] = vnThreadsRunning[j]
         /\ n \in Int => vnThreadsRunning' \in [Counted -> Int]
<1>1. vnThreadsRunning \in [Counted -> Int]
  BY DEF ShutdownShape
<1>2. vnThreadsRunning' = [vnThreadsRunning EXCEPT ![k] = @ + n]
  BY DEF Counting
<1> QED
  BY <1>1, <1>2

LEMMA HandlerKeeps == ASSUME ShutdownInv, HandlerSleeps \/ HandlerWakes PROVE ShutdownInv'
<1>1. UNCHANGED <<stage, fShutdown, minter, rpc, requests, pwalletDeleted, usesDb, useCount, dbHandle,
                  fDbEnvInit, dirty>>
      /\ handler' \in {"work", "sleep", "exited"} /\ "handler" \notin usesDb
  <2>1. UNCHANGED <<stage, fShutdown, minter, rpc, requests, pwalletDeleted, usesDb, useCount,
                    dbHandle, fDbEnvInit, dirty>>
        /\ handler' \in {"work", "sleep", "exited"}
    BY DEF HandlerSleeps, HandlerWakes, dbVars
  <2>2. "handler" \notin usesDb
    BY DEF HandlerSleeps, HandlerWakes, ShutdownInv, UsesAreRight, Working
  <2> QED
    BY <2>1, <2>2
<1>2. "handler" \in Counted /\ "minter" \in Counted /\ "rpc" \in Counted
  BY DEF Counted
<1>3. vnThreadsRunning'["handler"] = (IF handler' = "work" THEN 1 ELSE 0)
      /\ vnThreadsRunning'["minter"] = vnThreadsRunning["minter"]
      /\ vnThreadsRunning'["rpc"] = vnThreadsRunning["rpc"]
      /\ vnThreadsRunning' \in [Counted -> Int]
  <2>1. CASE HandlerSleeps
    <3>1. Counting("handler", -1) /\ handler = "work" /\ handler' # "work"
      BY <2>1 DEF HandlerSleeps
    <3> QED
      BY <1>2, <3>1, CountIs DEF ShutdownInv, CountsAreRight
  <2>2. CASE HandlerWakes
    <3>1. CASE handler' = "work" /\ Counting("handler", 1) /\ handler = "sleep"
      BY <1>2, <3>1, CountIs DEF ShutdownInv, CountsAreRight
    <3>2. CASE handler' = "exited" /\ UNCHANGED vnThreadsRunning /\ handler = "sleep"
      BY <3>2 DEF ShutdownInv, CountsAreRight, ShutdownShape
    <3> QED
      BY <2>2, <3>1, <3>2 DEF HandlerWakes
  <2> QED
    BY <2>1, <2>2
<1>4. handler' = "work" => handler = "work" \/ ~fShutdown
  BY DEF HandlerSleeps, HandlerWakes, Continues
<1>5. ShutdownShape'
  BY <1>1, <1>3 DEF ShutdownInv, ShutdownShape
<1>6. CountsAreRight'
  BY <1>1, <1>3 DEF ShutdownInv, CountsAreRight, Serving
<1>7. UsesAreRight'
  BY <1>1 DEF ShutdownInv, UsesAreRight, Working
<1>8. StagesGoOn'
  BY <1>1, <1>4 DEF ShutdownInv, StagesGoOn, Serving, ShutdownShape
<1> QED
  BY <1>5, <1>6, <1>7, <1>8 DEF ShutdownInv

LEMMA MinterKeeps == ASSUME ShutdownInv, MinterExits \/ MinterSeesLock PROVE ShutdownInv'
<1>1. UNCHANGED <<stage, fShutdown, handler, rpc, requests, pwalletDeleted, usesDb, useCount,
                  dbHandle, fDbEnvInit, dirty>>
      /\ minter' \in {"locked", "work", "exited"} /\ "minter" \notin usesDb /\ minter # "exited"
  BY DEF MinterExits, MinterSeesLock, dbVars, ShutdownInv, ShutdownShape
<1>2. "handler" \in Counted /\ "minter" \in Counted /\ "rpc" \in Counted
  BY DEF Counted
<1>3. vnThreadsRunning'["minter"] = (IF minter' = "exited" THEN 0 ELSE 1)
      /\ vnThreadsRunning'["handler"] = vnThreadsRunning["handler"]
      /\ vnThreadsRunning'["rpc"] = vnThreadsRunning["rpc"]
      /\ vnThreadsRunning' \in [Counted -> Int]
  <2>1. CASE MinterExits
    <3>1. Counting("minter", -1) /\ minter = "work" /\ minter' = "exited"
      BY <2>1 DEF MinterExits
    <3> QED
      BY <1>2, <3>1, CountIs DEF ShutdownInv, CountsAreRight
  <2>2. CASE MinterSeesLock
    <3>1. UNCHANGED vnThreadsRunning /\ minter' # "exited"
      BY <1>1, <2>2 DEF MinterSeesLock, ShutdownInv, ShutdownShape
    <3> QED
      BY <1>1, <3>1 DEF ShutdownInv, CountsAreRight, ShutdownShape
  <2> QED
    BY <2>1, <2>2
<1>4. ShutdownShape'
  BY <1>1, <1>3 DEF ShutdownInv, ShutdownShape
<1>5. CountsAreRight'
  BY <1>1, <1>3 DEF ShutdownInv, CountsAreRight, Serving
<1>6. UsesAreRight'
  BY <1>1 DEF ShutdownInv, UsesAreRight, Working
<1>7. StagesGoOn'
  BY <1>1 DEF ShutdownInv, StagesGoOn, Serving
<1> QED
  BY <1>4, <1>5, <1>6, <1>7 DEF ShutdownInv

\* A thread of the RPC server goes to another state, and its count with it.
LEMMA RpcGoesKeeps ==
  ASSUME ShutdownInv, NEW c \in Client, NEW to \in {"none", "start", "read", "exec", "exited"}, NEW n,
         RpcGoes(c, to, n), c \notin usesDb, to \in {"read", "exec"} => ~fShutdown \/ c \in Serving,
         n = (IF to \in {"read", "exec"} THEN 1 ELSE 0) - (IF rpc[c] \in {"read", "exec"} THEN 1 ELSE 0)
  PROVE  ShutdownInv'
<1>1. UNCHANGED <<stage, fShutdown, handler, minter, pwalletDeleted, usesDb, useCount, dbHandle,
                  fDbEnvInit, dirty>>
      /\ rpc' = [rpc EXCEPT ![c] = to]
  BY DEF RpcGoes, dbVars
<1>2. rpc' \in [Client -> {"none", "start", "read", "exec", "exited"}] /\ rpc'[c] = to
      /\ \A d \in Client \ {c} : rpc'[d] = rpc[d]
  BY <1>1 DEF ShutdownInv, ShutdownShape
<1>3. "handler" \in Counted /\ "minter" \in Counted /\ "rpc" \in Counted
  BY DEF Counted
<1>4. Serving' = IF to \in {"read", "exec"} THEN Serving \cup {c} ELSE Serving \ {c}
  BY <1>2 DEF Serving
<1>5. c \in Serving <=> rpc[c] \in {"read", "exec"}
  BY DEF Serving
<1>6. Cardinality(Serving) \in Nat /\ IsFiniteSet(Serving) /\ Serving \subseteq Client
  BY UsesAreFinite DEF Serving
<1>7. Cardinality(Serving') = Cardinality(Serving) + n
  <2>1. Cardinality(Serving \cup {c}) = IF c \in Serving THEN Cardinality(Serving) ELSE Cardinality(Serving) + 1
    BY <1>6, FS_AddElement
  <2>2. Cardinality(Serving \ {c}) = IF c \in Serving THEN Cardinality(Serving) - 1 ELSE Cardinality(Serving)
    BY <1>6, FS_RemoveElement
  <2> QED
    BY <1>4, <1>5, <1>6, <2>1, <2>2
<1>8. n \in Int
  OBVIOUS
<1>9. Counting("rpc", n)
  BY DEF RpcGoes
<1>10. vnThreadsRunning'["rpc"] = Cardinality(Serving')
       /\ vnThreadsRunning'["handler"] = vnThreadsRunning["handler"]
       /\ vnThreadsRunning'["minter"] = vnThreadsRunning["minter"]
       /\ vnThreadsRunning' \in [Counted -> Int]
  BY <1>3, <1>7, <1>8, <1>9, CountIs DEF ShutdownInv, CountsAreRight
<1>11. ShutdownShape'
  BY <1>1, <1>2, <1>10 DEF ShutdownInv, ShutdownShape
<1>12. CountsAreRight'
  BY <1>1, <1>10 DEF ShutdownInv, CountsAreRight
<1>13. UsesAreRight'
  <2>1. \A u \in usesDb : Working(u)'
    <3> TAKE u \in usesDb
    <3>1. u # c /\ u \in User /\ Working(u)
      BY DEF ShutdownInv, UsesAreRight, ShutdownShape
    <3> QED
      BY <1>1, <1>2, <3>1 DEF Working, User
  <2> QED
    BY <1>1, <2>1 DEF ShutdownInv, UsesAreRight
<1>14. StagesGoOn'
  <2>1. stage > 5 => Serving' = {}
    <3> SUFFICES ASSUME stage > 5 PROVE Serving' = {}
      OBVIOUS
    <3>1. Serving = {} /\ fShutdown
      BY DEF ShutdownInv, StagesGoOn, ShutdownShape
    <3> QED
      BY <1>4, <3>1
  <2> QED
    BY <1>1, <2>1 DEF ShutdownInv, StagesGoOn
<1> QED
  BY <1>11, <1>12, <1>13, <1>14 DEF ShutdownInv

LEMMA RpcKeeps ==
  ASSUME ShutdownInv, NEW c \in Client,
         Accept(c) \/ RpcStarts(c) \/ ClientSends(c) \/ ClientCloses(c) \/ RpcReplies(c)
  PROVE  ShutdownInv'
<1>1. c \in usesDb => rpc[c] = "exec"
  BY ShutdownAssumption DEF ShutdownInv, UsesAreRight, Working
<1>2. CASE Accept(c)
  BY <1>1, <1>2, RpcGoesKeeps DEF Accept
<1>3. CASE RpcStarts(c)
  BY <1>1, <1>3, RpcGoesKeeps DEF RpcStarts, Serves
<1>4. CASE ClientSends(c)
  BY <1>1, <1>4, RpcGoesKeeps DEF ClientSends, Serving
<1>5. CASE ClientCloses(c)
  BY <1>1, <1>5, RpcGoesKeeps DEF ClientCloses, Leaves
<1>6. CASE RpcReplies(c)
  BY <1>1, <1>6, RpcGoesKeeps DEF RpcReplies, Serves, Leaves, Serving
<1> QED
  BY <1>2, <1>3, <1>4, <1>5, <1>6

LEMMA ShutdownInvStep == ShutdownInv /\ [ShutdownNext]_stopVars => ShutdownInv'
<1> SUFFICES ASSUME ShutdownInv, [ShutdownNext]_stopVars PROVE ShutdownInv'
  OBVIOUS
<1>1. CASE ShutdownStep \/ StartShutdown
  BY <1>1, ShutdownGoesKeeps
<1>2. ASSUME NEW u \in User, OpenDb(u) PROVE ShutdownInv'
  BY <1>2, OpenDbKeeps
<1>3. ASSUME NEW u \in User, CloseCDB(u) PROVE ShutdownInv'
  BY <1>3, CloseCDBKeeps
<1>4. CASE FlushWallet
  BY <1>4, FlushWalletKeeps
<1>5. CASE HandlerSleeps \/ HandlerWakes
  BY <1>5, HandlerKeeps
<1>6. CASE MinterExits \/ MinterSeesLock
  BY <1>6, MinterKeeps
<1>7. ASSUME NEW c \in Client,
             Accept(c) \/ RpcStarts(c) \/ ClientSends(c) \/ ClientCloses(c) \/ RpcReplies(c)
      PROVE  ShutdownInv'
  BY <1>7, RpcKeeps
<1>8. CASE UNCHANGED stopVars
  BY <1>8
     DEF stopVars, ShutdownInv, ShutdownShape, CountsAreRight, UsesAreRight, StagesGoOn, Working, Serving
<1> QED
  BY <1>1, <1>2, <1>3, <1>4, <1>5, <1>6, <1>7, <1>8 DEF ShutdownNext, ThreadStep

LEMMA ShutdownInvIsOrderly == ShutdownInv => ShutdownIsOrderly
<1> SUFFICES ASSUME ShutdownInv PROVE ShutdownIsOrderly
  OBVIOUS
<1>1. ShutdownTypeOK
  <2>1. DOMAIN Stages = 1 .. 8
    BY DEF Stages
  <2> QED
    BY <2>1 DEF ShutdownInv, ShutdownTypeOK, ShutdownShape, CountsAreRight, UsesAreRight, Serving
<1>2. HandlesInUseAreOpen
  BY DEF HandlesInUseAreOpen, ShutdownInv, UsesAreRight
<1>3. NoCommandAfterDelete
  <2>1. pwalletDeleted => handler # "work" /\ Serving = {}
    BY DEF ShutdownInv, StagesGoOn
  <2> QED
    BY <2>1 DEF NoCommandAfterDelete, Serving
<1>4. FlushedAtExit
  BY DEF FlushedAtExit, ShutdownInv, UsesAreRight
<1> QED
  BY <1>1, <1>2, <1>3, <1>4 DEF ShutdownIsOrderly

\* Whatever thread is late when the process ends, for any number of RPC clients and
\* requests: no database handle is closed in use, no command runs on the deleted wallet
\* and wallet.dat is whole by itself once no file is left with an entry (Shutdown,
\* StopNode, CDBEnv::Flush).
THEOREM ShutdownStaysOrderly == ShutdownSpec => []ShutdownIsOrderly
<1>1. ShutdownSpec => []ShutdownInv
  BY ShutdownInvInit, ShutdownInvStep, PTL DEF ShutdownSpec
<1> QED
  BY <1>1, ShutdownInvIsOrderly, PTL

-----------------------------------------------------------------------------
(* The timers of walletpassphrase. *)

(***************************************************************************)
(* What the relocking threads rely on: as long as nobody has locked the    *)
(* wallet and left a time, a locked wallet has no time and no thread that  *)
(* will set one, one thread at most will set the time, it will set what    *)
(* was promised, and the time that is set is not before what was promised. *)
(***************************************************************************)
LockShape ==
    /\ wkLocked \in BOOLEAN /\ alive \in BOOLEAN /\ byTimer \in BOOLEAN /\ leftSet \in BOOLEAN
    /\ promised \in 0 .. MaxTimeout /\ filling \in 0 .. PoolGap
    /\ nWalletUnlockTime \in 0 .. MaxTimeout \cup {Unset}
    /\ timers \in [Timer -> [pc : {"new", "start", "sleep", "end"}, left : 0 .. MaxTimeout]]

HaveRun == {t \in Timer : timers[t].pc # "new"}

FillersAreFew == fillers \in Nat /\ fillers <= Cardinality(HaveRun)

SomebodyWaits ==
    nWalletUnlockTime # Unset =>
        \E t \in Timer : timers[t].pc = "sleep" /\ timers[t].left <= nWalletUnlockTime

TimeIsPromised ==
    /\ wkLocked => nWalletUnlockTime = Unset /\ ~Starting
    /\ Starting => nWalletUnlockTime = Unset
    /\ \A t, u \in Timer : timers[t].pc = "start" /\ timers[u].pc = "start" => t = u
    /\ \A t \in Timer : timers[t].pc = "start" => timers[t].left = promised
    /\ nWalletUnlockTime # Unset => promised <= nWalletUnlockTime

LockInv == LockShape /\ FillersAreFew /\ SomebodyWaits /\ (leftSet \/ TimeIsPromised)
LEMMA LockInvInit == WalletLockInit => LockInv
<1> SUFFICES ASSUME WalletLockInit PROVE LockInv
  OBVIOUS
<1>1. timers = [t \in Timer |-> NotStarted] /\ nWalletUnlockTime = Unset /\ leftSet = FALSE /\ fillers = 0
  BY DEF WalletLockInit
<1>2. LockShape
  <2>1. 0 \in 0 .. MaxTimeout /\ 0 \in 0 .. PoolGap
    BY WalletLockAssumption
  <2>2. timers \in [Timer -> [pc : {"new", "start", "sleep", "end"}, left : 0 .. MaxTimeout]]
    BY <1>1, <2>1 DEF NotStarted
  <2>3. /\ wkLocked \in BOOLEAN /\ alive \in BOOLEAN /\ byTimer \in BOOLEAN /\ leftSet \in BOOLEAN
        /\ promised = 0 /\ filling = 0
    BY DEF WalletLockInit
  <2> QED
    BY <1>1, <2>1, <2>2, <2>3 DEF LockShape
<1>3. \A t \in Timer : timers[t].pc = "new"
  BY <1>1 DEF NotStarted
<1>4. FillersAreFew
  <2>1. HaveRun = {}
    BY <1>3 DEF HaveRun
  <2> QED
    BY <1>1, <2>1, FS_EmptySet DEF FillersAreFew
<1>5. SomebodyWaits
  BY <1>1 DEF SomebodyWaits
<1>6. TimeIsPromised
  BY <1>1, <1>3 DEF TimeIsPromised, Starting
<1> QED
  BY <1>2, <1>4, <1>5, <1>6 DEF LockInv

LEMMA TimerFields ==
  ASSUME LockShape, NEW t \in Timer, NEW x
  PROVE  /\ [timers EXCEPT ![t].pc = x] = [timers EXCEPT ![t] = [pc |-> x, left |-> timers[t].left]]
         /\ [timers EXCEPT ![t].left = x] = [timers EXCEPT ![t] = [pc |-> timers[t].pc, left |-> x]]
<1>1. timers[t] \in [pc : {"new", "start", "sleep", "end"}, left : 0 .. MaxTimeout]
  BY DEF LockShape
<1>2. [timers[t] EXCEPT !.pc = x] = [pc |-> x, left |-> timers[t].left]
  BY <1>1
<1>3. [timers[t] EXCEPT !.left = x] = [pc |-> timers[t].pc, left |-> x]
  BY <1>1
<1>4. /\ [timers EXCEPT ![t].pc = x] = [timers EXCEPT ![t] = [timers[t] EXCEPT !.pc = x]]
      /\ [timers EXCEPT ![t].left = x] = [timers EXCEPT ![t] = [timers[t] EXCEPT !.left = x]]
  OBVIOUS
<1> QED
  BY <1>2, <1>3, <1>4

\* One thread goes to another place.
LEMMA TimerGoes ==
  ASSUME LockShape, NEW t \in Timer, NEW to \in {"start", "sleep", "end"}, NEW n \in 0 .. MaxTimeout,
         timers' = [timers EXCEPT ![t] = [pc |-> to, left |-> n]]
  PROVE  /\ timers' \in [Timer -> [pc : {"new", "start", "sleep", "end"}, left : 0 .. MaxTimeout]]
         /\ timers'[t].pc = to /\ timers'[t].left = n
         /\ \A u \in Timer \ {t} : timers'[u] = timers[u]
         /\ HaveRun' = HaveRun \cup {t}
<1>1. timers \in [Timer -> [pc : {"new", "start", "sleep", "end"}, left : 0 .. MaxTimeout]]
  BY DEF LockShape
<1>2. [pc |-> to, left |-> n] \in [pc : {"new", "start", "sleep", "end"}, left : 0 .. MaxTimeout]
  OBVIOUS
<1>3. timers'[t] = [pc |-> to, left |-> n] /\ \A u \in Timer \ {t} : timers'[u] = timers[u]
  BY <1>1
<1>4. timers' \in [Timer -> [pc : {"new", "start", "sleep", "end"}, left : 0 .. MaxTimeout]]
  BY <1>1, <1>2
<1>5. timers'[t].pc = to /\ timers'[t].left = n
  BY <1>3
<1>6. HaveRun' = HaveRun \cup {t}
  BY <1>3, <1>5 DEF HaveRun
<1> QED
  BY <1>3, <1>4, <1>5, <1>6

LEMMA RunsAreFinite ==
  /\ IsFiniteSet(HaveRun) /\ Cardinality(HaveRun) \in Nat
  /\ Cardinality(HaveRun) <= Cardinality(Timer)
  /\ \A t \in Timer : Cardinality(HaveRun \cup {t}) =
         IF t \in HaveRun THEN Cardinality(HaveRun) ELSE Cardinality(HaveRun) + 1
<1>1. IsFiniteSet(Timer) /\ HaveRun \subseteq Timer
  BY WalletLockAssumption DEF HaveRun
<1>2. IsFiniteSet(HaveRun) /\ Cardinality(HaveRun) <= Cardinality(Timer)
  BY <1>1, FS_Subset
<1> QED
  BY <1>2, FS_CardinalityType, FS_AddElement

LEMMA PassphraseKeeps ==
  ASSUME LockInv, NEW t \in Timer, NEW n \in 0 .. MaxTimeout, walletpassphrase(t, n)
  PROVE  LockInv'
<1>1. /\ wkLocked = TRUE /\ timers[t] = NotStarted /\ wkLocked' = FALSE /\ fillers' = fillers + 1
      /\ promised' = n /\ byTimer' = TRUE /\ UNCHANGED <<nWalletUnlockTime, filling, alive, leftSet>>
  BY DEF walletpassphrase, Unlocks, LockInv, LockShape
<1>2. timers' = [timers EXCEPT ![t] = [pc |-> "start", left |-> n]]
  BY DEF walletpassphrase, Started
<1>3. n \in 0 .. MaxTimeout /\ n \in Nat
  BY WalletLockAssumption
<1>4. /\ timers' \in [Timer -> [pc : {"new", "start", "sleep", "end"}, left : 0 .. MaxTimeout]]
      /\ timers'[t].pc = "start" /\ timers'[t].left = n
      /\ \A u \in Timer \ {t} : timers'[u] = timers[u]
      /\ HaveRun' = HaveRun \cup {t}
  BY <1>2, <1>3, TimerGoes DEF LockInv
<1>5. timers[t].pc = "new"
  BY <1>1 DEF NotStarted
<1>6. LockShape'
  BY <1>1, <1>3, <1>4 DEF LockInv, LockShape
<1>7. FillersAreFew'
  <2>1. t \notin HaveRun
    BY <1>5 DEF HaveRun
  <2>2. Cardinality(HaveRun') = Cardinality(HaveRun) + 1
    BY <1>4, <2>1, RunsAreFinite
  <2> QED
    BY <1>1, <2>2, RunsAreFinite DEF LockInv, FillersAreFew
<1>8. SomebodyWaits'
  <2> SUFFICES ASSUME nWalletUnlockTime # Unset
               PROVE  \E u \in Timer : timers'[u].pc = "sleep" /\ timers'[u].left <= nWalletUnlockTime
    BY <1>1 DEF SomebodyWaits
  <2>1. PICK u \in Timer : timers[u].pc = "sleep" /\ timers[u].left <= nWalletUnlockTime
    BY DEF LockInv, SomebodyWaits
  <2>2. u # t
    BY <1>5, <2>1
  <2> QED
    BY <1>4, <2>1, <2>2
<1>9. ASSUME TimeIsPromised PROVE TimeIsPromised'
  <2>1. nWalletUnlockTime' = Unset /\ \A u \in Timer : timers[u].pc # "start"
    BY <1>1, <1>9 DEF TimeIsPromised, Starting
  <2>2. \A u \in Timer : timers'[u].pc = "start" => u = t
    BY <1>4, <2>1
  <2> QED
    BY <1>1, <1>4, <2>1, <2>2 DEF TimeIsPromised
<1> QED
  BY <1>1, <1>6, <1>7, <1>8, <1>9 DEF LockInv

LEMMA ThrowsKeeps ==
  ASSUME LockInv, NEW t \in Timer, PassphraseThrows(t)
  PROVE  LockInv'
<1>1. /\ wkLocked = TRUE /\ timers[t] = NotStarted /\ wkLocked' = FALSE /\ fillers' = fillers + 1
      /\ UNCHANGED <<nWalletUnlockTime, filling, alive, promised, byTimer, leftSet>>
      /\ timers' = [timers EXCEPT ![t] = [pc |-> "end", left |-> 0]]
  BY DEF PassphraseThrows, Unlocks, LockInv, LockShape
<1>2. 0 \in 0 .. MaxTimeout
  BY WalletLockAssumption
<1>3. /\ timers' \in [Timer -> [pc : {"new", "start", "sleep", "end"}, left : 0 .. MaxTimeout]]
      /\ timers'[t].pc = "end"
      /\ \A u \in Timer \ {t} : timers'[u] = timers[u]
      /\ HaveRun' = HaveRun \cup {t}
  BY <1>1, <1>2, TimerGoes DEF LockInv
<1>4. timers[t].pc = "new"
  BY <1>1 DEF NotStarted
<1>5. LockShape'
  BY <1>1, <1>3 DEF LockInv, LockShape
<1>6. FillersAreFew'
  <2>1. t \notin HaveRun
    BY <1>4 DEF HaveRun
  <2>2. Cardinality(HaveRun') = Cardinality(HaveRun) + 1
    BY <1>3, <2>1, RunsAreFinite
  <2> QED
    BY <1>1, <2>2, RunsAreFinite DEF LockInv, FillersAreFew
<1>7. \A u \in Timer : timers[u].pc \in {"start", "sleep"} \/ timers'[u].pc \in {"start", "sleep"}
                        => timers'[u] = timers[u]
  BY <1>3, <1>4
<1>8. SomebodyWaits'
  BY <1>1, <1>7 DEF LockInv, SomebodyWaits
<1>9. ASSUME TimeIsPromised PROVE TimeIsPromised'
  <2>1. nWalletUnlockTime' = Unset /\ \A u \in Timer : timers[u].pc # "start"
    BY <1>1, <1>9 DEF TimeIsPromised, Starting
  <2>2. \A u \in Timer : timers'[u].pc # "start"
    BY <1>7, <2>1
  <2> QED
    BY <1>1, <2>1, <2>2 DEF TimeIsPromised, Starting
<1> QED
  BY <1>1, <1>5, <1>6, <1>8, <1>9 DEF LockInv

LEMMA LockingKeeps ==
  ASSUME LockInv, walletlock \/ LocksOnly \/ GuiUnlock
  PROVE  LockInv'
<1>1. /\ UNCHANGED <<timers, filling, fillers, alive, promised>>
      /\ nWalletUnlockTime' \in {nWalletUnlockTime, Unset}
      /\ wkLocked' \in BOOLEAN /\ byTimer' \in BOOLEAN /\ leftSet' \in BOOLEAN
  <2>1. /\ UNCHANGED <<timers, filling, fillers, alive, promised>>
        /\ nWalletUnlockTime' \in {nWalletUnlockTime, Unset}
    BY DEF walletlock, LocksOnly, GuiUnlock
  <2>2. wkLocked' \in BOOLEAN /\ byTimer' \in BOOLEAN
    BY DEF walletlock, LocksOnly, GuiUnlock, LockInv, LockShape
  <2>3. leftSet' \in BOOLEAN
    BY DEF walletlock, LocksOnly, GuiUnlock, LockInv, LockShape, Starting
  <2> QED
    BY <2>1, <2>2, <2>3
<1>2. LockShape'
  BY <1>1 DEF LockInv, LockShape
<1>3. FillersAreFew' /\ SomebodyWaits'
  BY <1>1 DEF LockInv, FillersAreFew, SomebodyWaits, HaveRun
<1>4. Starting' = Starting
  BY <1>1 DEF Starting
<1>5. leftSet' \/ TimeIsPromised'
  <2>1. CASE walletlock
    <3>1. nWalletUnlockTime' = Unset /\ leftSet' = Starting
      BY <2>1 DEF walletlock
    <3> QED
      BY <1>1, <1>4, <3>1 DEF TimeIsPromised, Starting
  <2>2. CASE LocksOnly
    <3>1. nWalletUnlockTime' = nWalletUnlockTime
          /\ leftSet' = (leftSet \/ nWalletUnlockTime # Unset \/ Starting)
      BY <2>2 DEF LocksOnly
    <3> QED
      BY <1>1, <1>4, <3>1 DEF TimeIsPromised, Starting
  <2>3. CASE GuiUnlock
    <3>1. UNCHANGED <<nWalletUnlockTime, leftSet>> /\ wkLocked' = FALSE
      BY <2>3 DEF GuiUnlock
    <3> QED
      BY <1>1, <1>4, <3>1 DEF LockInv, TimeIsPromised
  <2> QED
    BY <2>1, <2>2, <2>3
<1> QED
  BY <1>2, <1>3, <1>5 DEF LockInv

\* Of a time that is set and the time of the thread that starts, the later one stays.
LEMMA ExtendedIsLater ==
  ASSUME NEW m \in Nat, NEW n \in Nat
  PROVE  Extended(m, n) \in {m, n} /\ Extended(m, n) >= m /\ Extended(m, n) >= n
<1>1. \E x \in {m, n} : \A y \in {m, n} : x >= y
  <2>1. CASE m >= n
    BY <2>1
  <2>2. CASE n >= m
    BY <2>2
  <2> QED
    BY <2>1, <2>2
<1>2. Max({m, n}) \in {m, n} /\ \A y \in {m, n} : Max({m, n}) >= y
  BY <1>1 DEF Max
<1> QED
  BY <1>2 DEF Extended

\* The end of a thread: it locks the wallet because a time is set, or because it has set one just now.
LEMMA TimerEndsKeeps ==
  ASSUME LockInv, NEW t \in Timer, timers[t].pc \in {"start", "sleep"}, NEW isSet \in BOOLEAN,
         isSet => timers[t].pc = "start" \/ nWalletUnlockTime # Unset,
         TimerEnds(t, isSet), UNCHANGED <<filling, fillers, alive, promised>>
  PROVE  LockInv'
<1>1. /\ timers' = [timers EXCEPT ![t] = [pc |-> "end", left |-> 0]] /\ nWalletUnlockTime' = Unset
      /\ wkLocked' = (wkLocked \/ isSet)
      /\ byTimer' = (byTimer /\ ~wkLocked') /\ leftSet' = (leftSet /\ Starting')
  BY DEF TimerEnds
<1>2. 0 \in 0 .. MaxTimeout
  BY WalletLockAssumption
<1>3. /\ timers' \in [Timer -> [pc : {"new", "start", "sleep", "end"}, left : 0 .. MaxTimeout]]
      /\ timers'[t].pc = "end"
      /\ \A u \in Timer \ {t} : timers'[u] = timers[u]
      /\ HaveRun' = HaveRun \cup {t}
  BY <1>1, <1>2, TimerGoes DEF LockInv
<1>4. LockShape'
  <2>1. wkLocked' \in BOOLEAN /\ byTimer' \in BOOLEAN
    BY <1>1 DEF LockInv, LockShape
  <2>2. leftSet' \in BOOLEAN
    BY <1>1 DEF LockInv, LockShape
  <2> QED
    BY <1>1, <1>3, <2>1, <2>2 DEF LockInv, LockShape
<1>5. FillersAreFew'
  <2>1. t \in HaveRun
    BY DEF HaveRun
  <2> QED
    BY <1>3, <2>1, RunsAreFinite DEF LockInv, FillersAreFew
<1>6. SomebodyWaits'
  BY <1>1 DEF SomebodyWaits
<1>7. \A u \in Timer : timers'[u].pc = "start" => u # t /\ timers'[u] = timers[u]
  BY <1>3
<1>8. CASE ~Starting'
  <2>1. TimeIsPromised'
    BY <1>1, <1>8 DEF TimeIsPromised, Starting
  <2> QED
    BY <1>4, <1>5, <1>6, <2>1 DEF LockInv
<1>9. CASE Starting' /\ leftSet
  BY <1>1, <1>4, <1>5, <1>6, <1>9 DEF LockInv
<1>10. CASE Starting' /\ ~leftSet
  <2>1. TimeIsPromised
    BY <1>10 DEF LockInv
  <2>2. PICK u \in Timer : timers'[u].pc = "start"
    BY <1>10 DEF Starting
  <2>3. timers[u].pc = "start" /\ u # t
    BY <1>7, <2>2
  <2>4. Starting
    BY <2>3 DEF Starting
  <2>5. timers[t].pc # "start" /\ nWalletUnlockTime = Unset /\ ~wkLocked
    BY <2>1, <2>3, <2>4 DEF TimeIsPromised
  <2>6. ~wkLocked'
    BY <1>1, <2>5
  <2>7. TimeIsPromised'
    BY <1>1, <1>7, <2>1, <2>6 DEF TimeIsPromised
  <2> QED
    BY <1>4, <1>5, <1>6, <2>7 DEF LockInv
<1> QED
  BY <1>8, <1>9, <1>10

LEMMA TimerStartsKeeps ==
  ASSUME LockInv, NEW t \in Timer, TimerStarts(t)
  PROVE  /\ LockInv'
         /\ wkLocked' /\ ~wkLocked /\ byTimer /\ ~leftSet => promised = 0
<1>1. timers[t].pc = "start" /\ UNCHANGED <<filling, fillers, alive, promised>>
  BY DEF TimerStarts
<1>2. /\ timers \in [Timer -> [pc : {"new", "start", "sleep", "end"}, left : 0 .. MaxTimeout]]
      /\ timers[t].left \in 0 .. MaxTimeout /\ 0 \in 0 .. MaxTimeout /\ MaxTimeout \in Nat
      /\ Unset \notin 0 .. MaxTimeout
  BY WalletLockAssumption DEF LockInv, LockShape
<1>3. t \in HaveRun
  BY <1>1 DEF HaveRun
<1>4. Starting
  BY <1>1 DEF Starting
<1>5. CASE nWalletUnlockTime = Unset /\ timers[t].left > 0
  <2> timers[t].left # 0
    BY <1>2, <1>5
  <2>1. nWalletUnlockTime' = timers[t].left /\ timers' = [timers EXCEPT ![t].pc = "sleep"]
        /\ UNCHANGED <<wkLocked, byTimer, leftSet>>
    BY <1>5 DEF TimerStarts
  <2>2. timers' = [timers EXCEPT ![t] = [pc |-> "sleep", left |-> timers[t].left]]
    BY <2>1, TimerFields DEF LockInv
  <2>3. /\ timers' \in [Timer -> [pc : {"new", "start", "sleep", "end"}, left : 0 .. MaxTimeout]]
        /\ timers'[t].pc = "sleep" /\ timers'[t].left = timers[t].left
        /\ \A u \in Timer \ {t} : timers'[u] = timers[u]
        /\ HaveRun' = HaveRun \cup {t}
    BY <1>2, <2>2, TimerGoes DEF LockInv
  <2>4. LockShape'
    BY <1>1, <1>2, <2>1, <2>3 DEF LockInv, LockShape
  <2>5. FillersAreFew'
    BY <1>1, <1>3, <2>3, RunsAreFinite DEF LockInv, FillersAreFew
  <2>6. SomebodyWaits'
    <3>1. timers'[t].left <= nWalletUnlockTime'
      BY <1>2, <2>1, <2>3
    <3> QED
      BY <2>3, <3>1 DEF SomebodyWaits
  <2>7. ASSUME TimeIsPromised PROVE TimeIsPromised'
    <3>1. /\ timers[t].left = promised /\ ~wkLocked
          /\ \A u \in Timer : timers[u].pc = "start" => u = t
      BY <1>1, <1>4, <2>7 DEF TimeIsPromised
    <3>2. \A u \in Timer : timers'[u].pc # "start"
      BY <2>3, <3>1
    <3>3. promised' <= nWalletUnlockTime'
      BY <1>1, <1>2, <2>1, <3>1
    <3> QED
      BY <1>1, <2>1, <3>1, <3>2, <3>3 DEF TimeIsPromised, Starting
  <2> QED
    BY <1>1, <2>1, <2>4, <2>5, <2>6, <2>7 DEF LockInv
<1>6. CASE nWalletUnlockTime # Unset
  <2>1. nWalletUnlockTime' = Extended(nWalletUnlockTime, timers[t].left)
        /\ timers' = [timers EXCEPT ![t] = [pc |-> "end", left |-> 0]]
        /\ UNCHANGED <<wkLocked, byTimer, leftSet>>
    BY <1>6 DEF TimerStarts
  <2>2. nWalletUnlockTime \in 0 .. MaxTimeout
    BY <1>6 DEF LockInv, LockShape
  <2>3. nWalletUnlockTime \in Nat /\ timers[t].left \in Nat
    BY <1>2, <2>2
  <2>4. nWalletUnlockTime' \in {nWalletUnlockTime, timers[t].left}
        /\ nWalletUnlockTime' >= nWalletUnlockTime
    BY <2>1, <2>3, ExtendedIsLater
  <2>5. nWalletUnlockTime' \in 0 .. MaxTimeout
    BY <1>2, <2>2, <2>4
  <2>6. /\ timers' \in [Timer -> [pc : {"new", "start", "sleep", "end"}, left : 0 .. MaxTimeout]]
        /\ timers'[t].pc = "end"
        /\ \A u \in Timer \ {t} : timers'[u] = timers[u]
        /\ HaveRun' = HaveRun \cup {t}
    BY <1>2, <2>1, TimerGoes DEF LockInv
  <2>7. LockShape'
    BY <1>1, <2>1, <2>5, <2>6 DEF LockInv, LockShape
  <2>8. FillersAreFew'
    BY <1>1, <1>3, <2>6, RunsAreFinite DEF LockInv, FillersAreFew
  <2>9. SomebodyWaits'
    <3>1. PICK u \in Timer : timers[u].pc = "sleep" /\ timers[u].left <= nWalletUnlockTime
      BY <1>6 DEF LockInv, SomebodyWaits
    <3>2. u # t
      BY <1>1, <3>1
    <3>3. timers'[u] = timers[u] /\ timers[u].left \in 0 .. MaxTimeout
      BY <1>2, <2>6, <3>2
    <3>4. timers[u].left <= nWalletUnlockTime'
      BY <1>2, <2>2, <2>4, <2>5, <3>1, <3>3
    <3>5. timers'[u].pc = "sleep" /\ timers'[u].left <= nWalletUnlockTime'
      BY <3>1, <3>3, <3>4
    <3> QED
      BY <3>5 DEF SomebodyWaits
  <2>10. ~TimeIsPromised
    BY <1>4, <1>6 DEF TimeIsPromised
  <2> QED
    BY <1>1, <2>1, <2>7, <2>8, <2>9, <2>10 DEF LockInv
<1>7. CASE nWalletUnlockTime = Unset /\ timers[t].left = 0
  <2>0. ~(timers[t].left > 0)
    BY <1>7
  <2>1. TimerEnds(t, TRUE)
    BY <1>7, <2>0, Zenon DEF TimerStarts
  <2>2. LockInv'
    BY <1>1, <2>1, TimerEndsKeeps
  <2>3. ~leftSet => promised = timers[t].left
    BY <1>1 DEF LockInv, TimeIsPromised
  <2> QED
    BY <1>7, <2>2, <2>3
<1> QED
  BY <1>2, <1>5, <1>6, <1>7

LEMMA TimerWakesKeeps ==
  ASSUME LockInv, NEW t \in Timer, TimerWakes(t)
  PROVE  /\ LockInv'
         /\ wkLocked' /\ ~wkLocked /\ byTimer /\ ~leftSet => promised = 0
<1>1. timers[t].pc = "sleep" /\ timers[t].left = 0 /\ UNCHANGED <<filling, fillers, alive, promised>>
  BY DEF TimerWakes
<1>2. /\ timers \in [Timer -> [pc : {"new", "start", "sleep", "end"}, left : 0 .. MaxTimeout]]
      /\ 0 \in 0 .. MaxTimeout /\ MaxTimeout \in Nat /\ Unset \notin 0 .. MaxTimeout
      /\ promised \in 0 .. MaxTimeout
  BY WalletLockAssumption DEF LockInv, LockShape
<1>3. t \in HaveRun
  BY <1>1 DEF HaveRun
<1>4. CASE Sleeps(t)
  <2>1. timers' = [timers EXCEPT ![t].left = nWalletUnlockTime]
        /\ UNCHANGED <<wkLocked, nWalletUnlockTime, byTimer, leftSet>>
    BY <1>4 DEF TimerWakes
  <2>2. nWalletUnlockTime \in 0 .. MaxTimeout
    BY <1>4 DEF Sleeps, LockInv, LockShape
  <2>3. timers' = [timers EXCEPT ![t] = [pc |-> "sleep", left |-> nWalletUnlockTime]]
    <3>1. timers' = [timers EXCEPT ![t] = [pc |-> timers[t].pc, left |-> nWalletUnlockTime]]
      BY <2>1, TimerFields DEF LockInv
    <3> QED
      BY <1>1, <3>1
  <2>4. /\ timers' \in [Timer -> [pc : {"new", "start", "sleep", "end"}, left : 0 .. MaxTimeout]]
        /\ timers'[t].pc = "sleep" /\ timers'[t].left = nWalletUnlockTime
        /\ \A u \in Timer \ {t} : timers'[u] = timers[u]
        /\ HaveRun' = HaveRun \cup {t}
    BY <2>2, <2>3, TimerGoes DEF LockInv
  <2>5. LockShape'
    BY <1>1, <2>1, <2>4 DEF LockInv, LockShape
  <2>6. FillersAreFew'
    BY <1>1, <1>3, <2>4, RunsAreFinite DEF LockInv, FillersAreFew
  <2>7. SomebodyWaits'
    <3>1. timers'[t].left <= nWalletUnlockTime'
      BY <1>2, <2>1, <2>2, <2>4
    <3> QED
      BY <2>4, <3>1 DEF SomebodyWaits
  <2>8. \A u \in Timer : /\ timers'[u].pc = "start" <=> timers[u].pc = "start"
                         /\ timers[u].pc = "start" => timers'[u].left = timers[u].left
    BY <1>1, <2>4
  <2>9. Starting' <=> Starting
    BY <2>8 DEF Starting
  <2>10. TimeIsPromised => TimeIsPromised'
    BY <1>1, <2>1, <2>8, <2>9 DEF TimeIsPromised
  <2> QED
    BY <2>1, <2>5, <2>6, <2>7, <2>10 DEF LockInv
<1>5. CASE ~Sleeps(t)
  <2>1. TimerEnds(t, nWalletUnlockTime # Unset)
    BY <1>5 DEF TimerWakes
  <2>2. LockInv'
    BY <1>1, <2>1, TimerEndsKeeps
  <2>3. ASSUME wkLocked', ~wkLocked, ~leftSet PROVE promised = 0
    <3>1. nWalletUnlockTime # Unset
      BY <2>1, <2>3 DEF TimerEnds
    <3>2. nWalletUnlockTime \in 0 .. MaxTimeout /\ promised <= nWalletUnlockTime
      BY <2>3, <3>1 DEF LockInv, LockShape, TimeIsPromised
    <3>3. ~(nWalletUnlockTime > 0)
      BY <1>5, <3>1 DEF Sleeps
    <3> QED
      BY <1>2, <3>2, <3>3
  <2> QED
    BY <2>2, <2>3
<1> QED
  BY <1>4, <1>5

LEMMA TickKeeps == ASSUME LockInv, Tick PROVE LockInv'
<1>1. /\ UNCHANGED <<wkLocked, filling, fillers, alive, byTimer, leftSet>> /\ ~Starting
      /\ \A t \in Timer : timers[t].pc = "sleep" => timers[t].left > 0
      /\ timers' = [t \in Timer |-> IF timers[t].pc = "sleep"
                                    THEN [timers[t] EXCEPT !.left = Less(@)] ELSE timers[t]]
      /\ nWalletUnlockTime' = (IF nWalletUnlockTime = Unset THEN Unset ELSE Less(nWalletUnlockTime))
      /\ promised' = Less(promised)
  BY DEF Tick
<1>2. /\ timers \in [Timer -> [pc : {"new", "start", "sleep", "end"}, left : 0 .. MaxTimeout]]
      /\ MaxTimeout \in Nat /\ Unset \notin 0 .. MaxTimeout
      /\ promised \in 0 .. MaxTimeout /\ nWalletUnlockTime \in 0 .. MaxTimeout \cup {Unset}
  BY WalletLockAssumption DEF LockInv, LockShape
<1>3. \A n \in 0 .. MaxTimeout : Less(n) \in 0 .. MaxTimeout
  BY <1>2 DEF Less
<1>4. \A m, n \in 0 .. MaxTimeout : m <= n => Less(m) <= Less(n)
  BY <1>2 DEF Less
<1>5. ASSUME NEW t \in Timer
      PROVE  /\ timers'[t] \in [pc : {"new", "start", "sleep", "end"}, left : 0 .. MaxTimeout]
             /\ timers'[t].pc = timers[t].pc
             /\ timers[t].pc = "sleep" => timers'[t].left = Less(timers[t].left)
  <2>1. timers[t] \in [pc : {"new", "start", "sleep", "end"}, left : 0 .. MaxTimeout]
    BY <1>2
  <2>2. CASE timers[t].pc = "sleep"
    <3>1. timers'[t] = [timers[t] EXCEPT !.left = Less(timers[t].left)]
      BY <1>1, <2>2
    <3>2. Less(timers[t].left) \in 0 .. MaxTimeout
      BY <1>3, <2>1
    <3> QED
      BY <2>1, <3>1, <3>2
  <2>3. CASE timers[t].pc # "sleep"
    BY <1>1, <2>1, <2>3
  <2> QED
    BY <2>2, <2>3
<1>6. LockShape'
  <2>1. timers' \in [Timer -> [pc : {"new", "start", "sleep", "end"}, left : 0 .. MaxTimeout]]
    BY <1>1, <1>5
  <2>2. promised' \in 0 .. MaxTimeout /\ nWalletUnlockTime' \in 0 .. MaxTimeout \cup {Unset}
    BY <1>1, <1>2, <1>3
  <2> QED
    BY <1>1, <2>1, <2>2 DEF LockInv, LockShape
<1>7. FillersAreFew'
  <2>1. HaveRun' = HaveRun
    BY <1>5 DEF HaveRun
  <2> QED
    BY <1>1, <2>1 DEF LockInv, FillersAreFew
<1>8. SomebodyWaits'
  <2> SUFFICES ASSUME nWalletUnlockTime' # Unset
               PROVE  \E u \in Timer : timers'[u].pc = "sleep" /\ timers'[u].left <= nWalletUnlockTime'
    BY DEF SomebodyWaits
  <2>1. nWalletUnlockTime # Unset /\ nWalletUnlockTime' = Less(nWalletUnlockTime)
    BY <1>1
  <2>2. PICK u \in Timer : timers[u].pc = "sleep" /\ timers[u].left <= nWalletUnlockTime
    BY <2>1 DEF LockInv, SomebodyWaits
  <2>3. timers[u].left \in 0 .. MaxTimeout /\ nWalletUnlockTime \in 0 .. MaxTimeout
    BY <1>2, <2>1
  <2>4. Less(timers[u].left) <= Less(nWalletUnlockTime)
    BY <1>4, <2>2, <2>3
  <2> QED
    BY <1>5, <2>1, <2>2, <2>4
<1>9. ASSUME TimeIsPromised PROVE TimeIsPromised'
  <2>1. \A t \in Timer : timers'[t].pc # "start"
    BY <1>1, <1>5 DEF Starting
  <2>2. nWalletUnlockTime' # Unset => promised' <= nWalletUnlockTime'
    <3> SUFFICES ASSUME nWalletUnlockTime # Unset PROVE Less(promised) <= Less(nWalletUnlockTime)
      BY <1>1
    <3> QED
      BY <1>2, <1>4, <1>9 DEF TimeIsPromised
  <2>3. wkLocked' => nWalletUnlockTime' = Unset
    BY <1>1, <1>9 DEF TimeIsPromised
  <2> QED
    BY <2>1, <2>2, <2>3 DEF TimeIsPromised, Starting
<1> QED
  BY <1>1, <1>6, <1>7, <1>8, <1>9 DEF LockInv

LEMMA TopUpKeeps == ASSUME LockInv, TopUpBegins \/ TopUpAdds PROVE LockInv'
<1>1. UNCHANGED <<wkLocked, nWalletUnlockTime, timers, promised, byTimer, leftSet>>
  BY DEF TopUpBegins, TopUpAdds
<1>2. filling \in 0 .. PoolGap /\ PoolGap \in Nat /\ fillers \in Nat
  BY WalletLockAssumption DEF LockInv, LockShape, FillersAreFew
<1>3. filling' \in 0 .. PoolGap /\ alive' \in BOOLEAN
  <2>1. filling' \in 0 .. PoolGap
    BY <1>2 DEF TopUpBegins, TopUpAdds
  <2>2. alive' \in BOOLEAN
    BY DEF TopUpBegins, TopUpAdds, LockInv, LockShape
  <2> QED
    BY <2>1, <2>2
<1>4. fillers' \in Nat /\ fillers' <= fillers
  BY <1>2 DEF TopUpBegins, TopUpAdds
<1>5. LockShape' /\ SomebodyWaits' /\ (leftSet' \/ TimeIsPromised')
  BY <1>1, <1>3 DEF LockInv, LockShape, SomebodyWaits, TimeIsPromised, Starting
<1>6. FillersAreFew'
  <2>1. HaveRun' = HaveRun
    BY <1>1 DEF HaveRun
  <2> QED
    BY <1>2, <1>4, <2>1, RunsAreFinite DEF LockInv, FillersAreFew
<1> QED
  BY <1>5, <1>6 DEF LockInv

LEMMA LockInvStep == LockInv /\ [WalletLockNext]_lockVars => LockInv'
<1> SUFFICES ASSUME LockInv, [WalletLockNext]_lockVars PROVE LockInv'
  OBVIOUS
<1>1. ASSUME NEW t \in Timer, NEW n \in 0 .. MaxTimeout, walletpassphrase(t, n) PROVE LockInv'
  BY <1>1, PassphraseKeeps
<1>2. CASE walletlock \/ LocksOnly \/ GuiUnlock
  BY <1>2, LockingKeeps
<1>3. ASSUME NEW t \in Timer, TimerStarts(t) PROVE LockInv'
  BY <1>3, TimerStartsKeeps
<1>4. ASSUME NEW t \in Timer, TimerWakes(t) PROVE LockInv'
  BY <1>4, TimerWakesKeeps
<1>5. CASE Tick
  BY <1>5, TickKeeps
<1>6. CASE TopUpBegins \/ TopUpAdds
  BY <1>6, TopUpKeeps
<1>7. CASE UNCHANGED lockVars
  BY <1>7
     DEF lockVars, LockInv, LockShape, FillersAreFew, SomebodyWaits, TimeIsPromised, HaveRun, Starting
<1>8. ASSUME NEW t \in Timer, PassphraseThrows(t) PROVE LockInv'
  BY <1>8, ThrowsKeeps
<1> QED
  BY <1>1, <1>2, <1>3, <1>4, <1>5, <1>6, <1>7, <1>8 DEF WalletLockNext

LEMMA LockInvTypes == LockInv => WalletLockTypeOK
<1> SUFFICES ASSUME LockInv PROVE WalletLockTypeOK
  OBVIOUS
<1>1. fillers \in 0 .. Cardinality(Timer)
  <2>1. Cardinality(Timer) \in Nat
    BY WalletLockAssumption, FS_CardinalityType
  <2> QED
    BY <2>1, RunsAreFinite DEF LockInv, FillersAreFew
<1>2. \A t \in Timer : timers[t].left \in 0 .. MaxTimeout
  BY DEF LockInv, LockShape
<1> QED
  BY <1>1, <1>2 DEF LockInv, LockShape, SomebodyWaits, WalletLockTypeOK

\* For any number of calls of walletpassphrase and any timeouts: a time that is set has a
\* thread that waits for it (ThreadCleanWalletPassphrase), and that thread does not lock
\* the wallet before the timeout of the last walletpassphrase has passed, unless who
\* locked the wallet in between left an earlier time behind.
THEOREM WalletStaysUnlocked == WalletLockSpec => UnlockIsTimed
<1>1. WalletLockSpec => []LockInv
  BY LockInvInit, LockInvStep, PTL DEF WalletLockSpec
<1>2. LockInv /\ [WalletLockNext]_lockVars
      => [\A t \in Timer :
             (TimerStarts(t) \/ TimerWakes(t)) /\ wkLocked' /\ ~wkLocked /\ byTimer /\ ~leftSet
                 => promised = 0]_lockVars
  BY TimerStartsKeeps, TimerWakesKeeps
<1>3. WalletLockSpec => KeptForTheTimeout
  BY <1>1, <1>2, PTL DEF WalletLockSpec, KeptForTheTimeout
<1> QED
  BY <1>1, <1>3, LockInvTypes, PTL DEF UnlockIsTimed

-----------------------------------------------------------------------------
(***************************************************************************)
(* Deadlocks.  Locks are taken in the order of Rank, but for two that are  *)
(* taken with others above them and below them: these, the gated ones, are *)
(* taken with cs_main held, or by a TRY_LOCK, and who has one waits for    *)
(* another lock only with cs_main held.                                    *)
(***************************************************************************)
Gated == {"vSend", "hashSync"}

Rank == [l \in Lock |->
    CASE l = "vRecv" -> 0 [] l = "main" -> 1 [] l = "alerts" -> 2 [] l = "wallet" -> 3
      [] l \in {"unlockTime", "vNodes", "mempool"} -> 4 [] OTHER -> 5]

LocksOf(h) == {h[i] : i \in DOMAIN h}

\* A thread that holds h may wait for l.
InOrder(h, l) ==
    \/ l \in LocksOf(h)
    \/ /\ l \in Gated \/ LocksOf(h) \cap Gated # {} => "main" \in LocksOf(h)
       /\ l \notin Gated => \A k \in LocksOf(h) \ Gated : Rank[k] < Rank[l]

Op == [does : {"lock", "free", "box"}, lock : Lock \cup {"none"}]
      \cup [does : {"try"}, lock : Lock, skips : Nat]

\* What a thread may be at with the locks it holds, which are e when it returns.
IsClosed(G, e) ==
    \A x \in G :
        /\ x \in Seq(Lock) \X Seq(Op)
        /\ x[2] = <<>> => x[1] = e
        /\ x[2] # <<>> =>
            LET op == Head(x[2]) IN
            /\ op.does \in {"lock", "try"} =>
                  op.lock \in Lock /\ <<Append(x[1], op.lock), Tail(x[2])>> \in G
            /\ op.does = "lock" => InOrder(x[1], op.lock)
            /\ op.does = "try" =>
                  op.skips < Len(x[2]) /\ <<x[1], SubSeq(x[2], 2 + op.skips, Len(x[2]))>> \in G
            /\ op.does = "free" =>
                  x[1] # <<>> /\ <<SubSeq(x[1], 1, Len(x[1]) - 1), Tail(x[2])>> \in G
            /\ op.does = "box" => <<x[1], Tail(x[2])>> \in G

\* A thread that holds h takes its locks in order through p, and holds e then.
RunsTo(h, p, e) == \E G : <<h, p>> \in G /\ IsClosed(G, e)

-----------------------------------------------------------------------------
\* What the pieces of a concatenation are.
LEMMA HeadOfConcat ==
  ASSUME NEW S, NEW p \in Seq(S), NEW q \in Seq(S), p # <<>>
  PROVE  /\ p \o q \in Seq(S) /\ p \o q # <<>>
         /\ Head(p \o q) = Head(p) /\ Tail(p \o q) = Tail(p) \o q
<1>1. /\ p \o q \in Seq(S) /\ Len(p \o q) = Len(p) + Len(q)
      /\ \A i \in 1 .. Len(p) + Len(q) : (p \o q)[i] = IF i <= Len(p) THEN p[i] ELSE q[i - Len(p)]
  BY ConcatProperties
<1>2. Len(p) \in Nat \ {0} /\ Len(q) \in Nat
  BY EmptySeq, LenProperties
<1>3. p \o q # <<>> /\ Head(p \o q) = Head(p)
  BY <1>1, <1>2
<1>4. Tail(p) \in Seq(S) /\ Len(Tail(p)) = Len(p) - 1 /\ \A i \in 1 .. Len(Tail(p)) : Tail(p)[i] = p[i + 1]
  BY HeadTailProperties
<1>5. Tail(p \o q) \in Seq(S) /\ Len(Tail(p \o q)) = Len(p \o q) - 1
      /\ \A i \in 1 .. Len(Tail(p \o q)) : Tail(p \o q)[i] = (p \o q)[i + 1]
  BY <1>1, <1>3, HeadTailProperties
<1>6. /\ Tail(p) \o q \in Seq(S) /\ Len(Tail(p) \o q) = Len(Tail(p)) + Len(q)
      /\ \A i \in 1 .. Len(Tail(p)) + Len(q) :
            (Tail(p) \o q)[i] = IF i <= Len(Tail(p)) THEN Tail(p)[i] ELSE q[i - Len(Tail(p))]
  BY <1>4, ConcatProperties
<1>7. Len(Tail(p \o q)) = Len(Tail(p) \o q)
  BY <1>1, <1>4, <1>5, <1>6, <1>2
<1>8. ASSUME NEW i \in 1 .. Len(Tail(p \o q)) PROVE Tail(p \o q)[i] = (Tail(p) \o q)[i]
  <2>1. Tail(p \o q)[i] = (p \o q)[i + 1] /\ i + 1 \in 1 .. Len(p) + Len(q)
    BY <1>1, <1>2, <1>5
  <2>2. CASE i <= Len(p) - 1
    BY <2>1, <2>2, <1>1, <1>2, <1>4, <1>6
  <2>3. CASE i > Len(p) - 1
    <3>1. (p \o q)[i + 1] = q[i + 1 - Len(p)]
      BY <2>1, <2>3, <1>1, <1>2
    <3>2. (Tail(p) \o q)[i] = q[i - (Len(p) - 1)]
      BY <2>3, <1>2, <1>4, <1>6, <1>7
    <3>3. i + 1 - Len(p) = i - (Len(p) - 1)
      BY <1>2
    <3> QED
      BY <2>1, <3>1, <3>2, <3>3
  <2> QED
    BY <2>2, <2>3, <1>2
<1>9. Tail(p \o q) = Tail(p) \o q
  BY <1>5, <1>6, <1>7, <1>8, SeqEqual
<1> QED
  BY <1>1, <1>3, <1>9

LEMMA SkipInConcat ==
  ASSUME NEW S, NEW p \in Seq(S), NEW q \in Seq(S), NEW k \in Nat, k < Len(p)
  PROVE  /\ SubSeq(p, 2 + k, Len(p)) \in Seq(S)
         /\ SubSeq(p \o q, 2 + k, Len(p \o q)) = SubSeq(p, 2 + k, Len(p)) \o q
<1> DEFINE s == SubSeq(p, 2 + k, Len(p))
           t == SubSeq(p \o q, 2 + k, Len(p \o q))
<1>0. Len(p) \in Nat /\ Len(q) \in Nat /\ p \in [1 .. Len(p) -> S] /\ q \in [1 .. Len(q) -> S]
  BY LenProperties
<1>1. /\ p \o q \in Seq(S) /\ Len(p \o q) = Len(p) + Len(q)
      /\ \A i \in 1 .. Len(p) + Len(q) : (p \o q)[i] = IF i <= Len(p) THEN p[i] ELSE q[i - Len(p)]
  BY ConcatProperties
<1>2. /\ s \in Seq(S) /\ Len(s) = Len(p) - 1 - k
      /\ \A i \in 1 .. Len(s) : s[i] = p[2 + k + i - 1]
  <2>1. \A i \in 2 + k .. Len(p) : p[i] \in S
    BY <1>0
  <2>2. /\ s \in Seq(S) /\ Len(s) = (IF 2 + k <= Len(p) THEN Len(p) - (2 + k) + 1 ELSE 0)
        /\ \A i \in 1 .. Len(p) - (2 + k) + 1 : s[i] = p[2 + k + i - 1]
    BY <2>1, <1>0, SubSeqProperties
  <2> HIDE DEF s
  <2>3. Len(p) \in Nat /\ Len(s) = IF 2 + k <= Len(p) THEN Len(p) - (2 + k) + 1 ELSE 0
    BY <2>2, <1>0
  <2>4. Len(s) = Len(p) - 1 - k /\ Len(p) - (2 + k) + 1 = Len(p) - 1 - k
    BY <2>3
  <2> QED
    BY <2>2, <2>4
<1>3. /\ t \in Seq(S) /\ Len(t) = Len(p) + Len(q) - 1 - k
      /\ \A i \in 1 .. Len(t) : t[i] = (p \o q)[2 + k + i - 1]
  <2>1. \A i \in 2 + k .. Len(p \o q) : (p \o q)[i] \in S
    BY <1>0, <1>1, LenProperties
  <2>2. /\ t \in Seq(S) /\ Len(t) = (IF 2 + k <= Len(p \o q) THEN Len(p \o q) - (2 + k) + 1 ELSE 0)
        /\ \A i \in 1 .. Len(p \o q) - (2 + k) + 1 : t[i] = (p \o q)[2 + k + i - 1]
    BY <2>1, <1>0, <1>1, SubSeqProperties
  <2> HIDE DEF t
  <2> QED
    BY <2>2, <1>0, <1>1
<1> HIDE DEF s, t
<1>4. /\ s \o q \in Seq(S) /\ Len(s \o q) = Len(s) + Len(q)
      /\ \A i \in 1 .. Len(s) + Len(q) : (s \o q)[i] = IF i <= Len(s) THEN s[i] ELSE q[i - Len(s)]
  BY <1>2, ConcatProperties
<1>5. Len(t) = Len(s \o q)
  BY <1>0, <1>2, <1>3, <1>4
<1>6. ASSUME NEW i \in 1 .. Len(t) PROVE t[i] = (s \o q)[i]
  <2>1. t[i] = (p \o q)[2 + k + i - 1] /\ 2 + k + i - 1 \in 1 .. Len(p) + Len(q)
    BY <1>0, <1>3
  <2>2. CASE i <= Len(s)
    BY <2>1, <2>2, <1>0, <1>1, <1>2, <1>4
  <2>3. CASE i > Len(s)
    <3>1. (p \o q)[2 + k + i - 1] = q[2 + k + i - 1 - Len(p)]
      BY <2>1, <2>3, <1>0, <1>1, <1>2
    <3>2. (s \o q)[i] = q[i - Len(s)]
      BY <2>3, <1>0, <1>2, <1>3, <1>4
    <3>3. 2 + k + i - 1 - Len(p) = i - Len(s)
      BY <1>0, <1>2
    <3> QED
      BY <2>1, <3>1, <3>2, <3>3
  <2>4. i <= Len(s) \/ i > Len(s)
    BY <1>0, <1>2, <1>3
  <2> QED
    BY <2>2, <2>3, <2>4
<1>7. t = s \o q
  BY <1>3, <1>4, <1>5, <1>6, SeqEqual
<1> QED
  BY <1>2, <1>7 DEF s, t

\* A thread that goes on.
LEMMA GoesOn ==
  ASSUME NEW h, NEW p, NEW e, RunsTo(h, p, e)
  PROVE  /\ h \in Seq(Lock) /\ p \in Seq(Op)
         /\ p = <<>> => h = e
         /\ p # <<>> =>
             LET op == Head(p) IN
             /\ op.does \in {"lock", "try"} => op.lock \in Lock /\ RunsTo(Append(h, op.lock), Tail(p), e)
             /\ op.does = "lock" => InOrder(h, op.lock)
             /\ op.does = "try" => op.skips < Len(p) /\ RunsTo(h, SubSeq(p, 2 + op.skips, Len(p)), e)
             /\ op.does = "free" => h # <<>> /\ RunsTo(SubSeq(h, 1, Len(h) - 1), Tail(p), e)
             /\ op.does = "box" => RunsTo(h, Tail(p), e)
<1>1. PICK G : <<h, p>> \in G /\ IsClosed(G, e)
  BY DEF RunsTo
<1>2. ASSUME NEW a, NEW b, <<a, b>> \in G PROVE RunsTo(a, b, e)
  BY <1>1, <1>2 DEF RunsTo
<1> DEFINE x == <<h, p>>
           op == Head(p)
<1>3. x[1] = h /\ x[2] = p /\ x \in G
  BY <1>1
<1>4. /\ x \in Seq(Lock) \X Seq(Op)
      /\ x[2] = <<>> => x[1] = e
      /\ x[2] # <<>> =>
          /\ Head(x[2]).does \in {"lock", "try"} =>
                Head(x[2]).lock \in Lock /\ <<Append(x[1], Head(x[2]).lock), Tail(x[2])>> \in G
          /\ Head(x[2]).does = "lock" => InOrder(x[1], Head(x[2]).lock)
          /\ Head(x[2]).does = "try" =>
                /\ Head(x[2]).skips < Len(x[2])
                /\ <<x[1], SubSeq(x[2], 2 + Head(x[2]).skips, Len(x[2]))>> \in G
          /\ Head(x[2]).does = "free" =>
                x[1] # <<>> /\ <<SubSeq(x[1], 1, Len(x[1]) - 1), Tail(x[2])>> \in G
          /\ Head(x[2]).does = "box" => <<x[1], Tail(x[2])>> \in G
  <2> HIDE DEF x
  <2> QED
    BY <1>1, <1>3 DEF IsClosed
<1>5. h \in Seq(Lock) /\ p \in Seq(Op)
  BY <1>4
<1> HIDE DEF x
<1>6. p # <<>> =>
        /\ op.does \in {"lock", "try"} => op.lock \in Lock /\ <<Append(h, op.lock), Tail(p)>> \in G
        /\ op.does = "lock" => InOrder(h, op.lock)
        /\ op.does = "try" => op.skips < Len(p) /\ <<h, SubSeq(p, 2 + op.skips, Len(p))>> \in G
        /\ op.does = "free" => h # <<>> /\ <<SubSeq(h, 1, Len(h) - 1), Tail(p)>> \in G
        /\ op.does = "box" => <<h, Tail(p)>> \in G
  BY <1>3, <1>4
<1>7. p = <<>> => h = e
  BY <1>3, <1>4
<1> HIDE DEF op
<1>8. p # <<>> =>
        /\ op.does \in {"lock", "try"} => op.lock \in Lock /\ RunsTo(Append(h, op.lock), Tail(p), e)
        /\ op.does = "lock" => InOrder(h, op.lock)
        /\ op.does = "try" => op.skips < Len(p) /\ RunsTo(h, SubSeq(p, 2 + op.skips, Len(p)), e)
        /\ op.does = "free" => h # <<>> /\ RunsTo(SubSeq(h, 1, Len(h) - 1), Tail(p), e)
        /\ op.does = "box" => RunsTo(h, Tail(p), e)
  BY <1>2, <1>6
<1> QED
  BY <1>5, <1>7, <1>8 DEF op

\* A thread that has returned has what it should have.
LEMMA Ended ==
  ASSUME NEW h, NEW p, NEW e, RunsTo(h, p, e), p = <<>>
  PROVE  h = e
<1>1. PICK G : <<h, p>> \in G /\ IsClosed(G, e)
  BY DEF RunsTo
<1> DEFINE x == <<h, p>>
<1>2. x \in G /\ x[1] = h /\ x[2] = p
  BY <1>1
<1> HIDE DEF x
<1>3. x[2] = <<>> => x[1] = e
  BY <1>1, <1>2 DEF IsClosed
<1> QED
  BY <1>2, <1>3

\* It is enough that it goes on like that.
LEMMA MayGo ==
  ASSUME NEW h \in Seq(Lock), NEW p \in Seq(Op), NEW e, p # <<>>,
         LET op == Head(p) IN
         /\ op.does \in {"lock", "try"} => op.lock \in Lock /\ RunsTo(Append(h, op.lock), Tail(p), e)
         /\ op.does = "lock" => InOrder(h, op.lock)
         /\ op.does = "try" => op.skips < Len(p) /\ RunsTo(h, SubSeq(p, 2 + op.skips, Len(p)), e)
         /\ op.does = "free" => h # <<>> /\ RunsTo(SubSeq(h, 1, Len(h) - 1), Tail(p), e)
         /\ op.does = "box" => RunsTo(h, Tail(p), e)
  PROVE  RunsTo(h, p, e)
<1> DEFINE G == {x \in Seq(Lock) \X Seq(Op) : x = <<h, p>> \/ RunsTo(x[1], x[2], e)}
<1>0. ASSUME NEW a, NEW b, RunsTo(a, b, e), b = <<>> PROVE a = e
  BY <1>0, Ended
<1>1. ASSUME NEW a, NEW b, RunsTo(a, b, e) PROVE <<a, b>> \in G
  <2> DEFINE x == <<a, b>>
  <2>1. a \in Seq(Lock) /\ b \in Seq(Op)
    BY <1>1, GoesOn
  <2>2. x \in Seq(Lock) \X Seq(Op) /\ x[1] = a /\ x[2] = b
    BY <2>1
  <2> HIDE DEF x
  <2> QED
    BY <1>1, <2>2 DEF x
<1>2. <<h, p>> \in G
  OBVIOUS
<1>3. ASSUME NEW x \in G
      PROVE  /\ x \in Seq(Lock) \X Seq(Op)
             /\ x[2] = <<>> => x[1] = e
             /\ x[2] # <<>> =>
                 LET op == Head(x[2]) IN
                 /\ op.does \in {"lock", "try"} =>
                       op.lock \in Lock /\ <<Append(x[1], op.lock), Tail(x[2])>> \in G
                 /\ op.does = "lock" => InOrder(x[1], op.lock)
                 /\ op.does = "try" =>
                       op.skips < Len(x[2]) /\ <<x[1], SubSeq(x[2], 2 + op.skips, Len(x[2]))>> \in G
                 /\ op.does = "free" =>
                       x[1] # <<>> /\ <<SubSeq(x[1], 1, Len(x[1]) - 1), Tail(x[2])>> \in G
                 /\ op.does = "box" => <<x[1], Tail(x[2])>> \in G
  <2> DEFINE a == x[1]
             b == x[2]
             op == Head(b)
  <2>1. x \in Seq(Lock) \X Seq(Op) /\ (x = <<h, p>> \/ RunsTo(a, b, e))
    OBVIOUS
  <2>2. x = <<h, p>> => a = h /\ b = p
    OBVIOUS
  <2> HIDE DEF a, b, G
  <2>3. b = <<>> => a = e
    <3>1. CASE x = <<h, p>>
      BY <2>2, <3>1
    <3>2. CASE RunsTo(a, b, e)
      BY <3>2, <1>0
    <3> QED
      BY <2>1, <3>1, <3>2
  <2>4. b # <<>> =>
          /\ op.does \in {"lock", "try"} => op.lock \in Lock /\ RunsTo(Append(a, op.lock), Tail(b), e)
          /\ op.does = "lock" => InOrder(a, op.lock)
          /\ op.does = "try" => op.skips < Len(b) /\ RunsTo(a, SubSeq(b, 2 + op.skips, Len(b)), e)
          /\ op.does = "free" => a # <<>> /\ RunsTo(SubSeq(a, 1, Len(a) - 1), Tail(b), e)
          /\ op.does = "box" => RunsTo(a, Tail(b), e)
    <3>1. CASE x = <<h, p>>
      BY <2>2, <3>1
    <3>2. CASE RunsTo(a, b, e)
      BY <3>2, GoesOn
    <3> QED
      BY <2>1, <3>1, <3>2
  <2> HIDE DEF op
  <2>5. b # <<>> =>
          /\ op.does \in {"lock", "try"} => op.lock \in Lock /\ <<Append(a, op.lock), Tail(b)>> \in G
          /\ op.does = "lock" => InOrder(a, op.lock)
          /\ op.does = "try" => op.skips < Len(b) /\ <<a, SubSeq(b, 2 + op.skips, Len(b))>> \in G
          /\ op.does = "free" => a # <<>> /\ <<SubSeq(a, 1, Len(a) - 1), Tail(b)>> \in G
          /\ op.does = "box" => <<a, Tail(b)>> \in G
    BY <2>4, <1>1
  <2> QED
    BY <2>1, <2>3, <2>5 DEF a, b, op
<1> HIDE DEF G
<1>4. IsClosed(G, e)
  BY <1>3 DEF IsClosed
<1> QED
  BY <1>2, <1>4 DEF RunsTo

\* A program that has ended.
LEMMA NothingGoes ==
  ASSUME NEW h \in Seq(Lock)
  PROVE  RunsTo(h, <<>>, h)
<1> DEFINE G == {<<h, <<>>>>}
<1>1. IsClosed(G, h)
  <2>1. <<>> \in Seq(Op)
    BY EmptySeq
  <2>2. ASSUME NEW x \in G
        PROVE  x \in Seq(Lock) \X Seq(Op) /\ x[2] = <<>> /\ x[1] = h
    <3>1. PICK n : n = <<>>
      OBVIOUS
    <3>2. x = <<h, n>>
      BY <3>1
    <3>3. n \in Seq(Op)
      BY <2>1, <3>1
    <3>4. x \in Seq(Lock) \X Seq(Op) /\ x[2] = n /\ x[1] = h
      BY <3>2, <3>3
    <3> QED
      BY <3>1, <3>4
  <2> HIDE DEF G
  <2> QED
    BY <2>2 DEF IsClosed
<1> QED
  BY <1>1 DEF RunsTo

\* One program after another.
LEMMA ThenGoes ==
  ASSUME NEW h, NEW p \in Seq(Op), NEW m, NEW q \in Seq(Op), NEW e,
         RunsTo(h, p, m), RunsTo(m, q, e)
  PROVE  RunsTo(h, p \o q, e)
<1>1. PICK G1 : <<h, p>> \in G1 /\ IsClosed(G1, m)
  BY DEF RunsTo
<1>2. PICK G2 : <<m, q>> \in G2 /\ IsClosed(G2, e)
  BY DEF RunsTo
<1> DEFINE G == {<<x[1], x[2] \o q>> : x \in G1} \cup G2
<1>0. ASSUME NEW a, NEW b, <<a, b>> \in G1 PROVE <<a, b \o q>> \in G
  <2> DEFINE x == <<a, b>>
  <2>1. x \in G1 /\ x[1] = a /\ x[2] = b
    BY <1>0
  <2>2. <<x[1], x[2] \o q>> \in G
    BY <2>1
  <2> HIDE DEF x, G
  <2> QED
    BY <2>1, <2>2
<1>3. <<h, p \o q>> \in G
  <2> HIDE DEF G
  <2> QED
    BY <1>0, <1>1
<1>4. ASSUME NEW y \in G
      PROVE  /\ y \in Seq(Lock) \X Seq(Op)
             /\ y[2] = <<>> => y[1] = e
             /\ y[2] # <<>> =>
                 LET op == Head(y[2]) IN
                 /\ op.does \in {"lock", "try"} =>
                       op.lock \in Lock /\ <<Append(y[1], op.lock), Tail(y[2])>> \in G
                 /\ op.does = "lock" => InOrder(y[1], op.lock)
                 /\ op.does = "try" =>
                       op.skips < Len(y[2]) /\ <<y[1], SubSeq(y[2], 2 + op.skips, Len(y[2]))>> \in G
                 /\ op.does = "free" =>
                       y[1] # <<>> /\ <<SubSeq(y[1], 1, Len(y[1]) - 1), Tail(y[2])>> \in G
                 /\ op.does = "box" => <<y[1], Tail(y[2])>> \in G
  <2>1. CASE y \in G2
    BY <1>2, <2>1 DEF IsClosed
  <2>2. CASE y \notin G2
    <3>1. PICK x \in G1 : y = <<x[1], x[2] \o q>>
      BY <2>2
    <3>2. x \in Seq(Lock) \X Seq(Op) /\ (x[2] = <<>> => x[1] = m)
      BY <1>1 DEF IsClosed
    <3>3. x[2] # <<>>
      <4>1. CASE x[2] = <<>>
        <5>1. y = <<m, q>>
          BY <3>1, <3>2, <4>1, ConcatEmptySeq
        <5> QED
          BY <5>1, <1>2, <2>2
      <4> QED
        BY <4>1
    <3> DEFINE r == x[2]
               op == Head(r)
    <3>4. x[1] \in Seq(Lock) /\ r \in Seq(Op) /\ r # <<>>
      BY <3>2, <3>3
    <3>5. y[1] = x[1] /\ y[2] = r \o q
      BY <3>1
    <3>6. y[2] \in Seq(Op) /\ y[2] # <<>> /\ Head(y[2]) = op /\ Tail(y[2]) = Tail(r) \o q
      <4> HIDE DEF r, G
      <4> QED
        BY <3>4, <3>5, HeadOfConcat DEF op
    <3>7. /\ op.does \in {"lock", "try"} => op.lock \in Lock /\ <<Append(x[1], op.lock), Tail(r)>> \in G1
          /\ op.does = "lock" => InOrder(x[1], op.lock)
          /\ op.does = "try" => op.skips < Len(r) /\ <<x[1], SubSeq(r, 2 + op.skips, Len(r))>> \in G1
          /\ op.does = "free" => x[1] # <<>> /\ <<SubSeq(x[1], 1, Len(x[1]) - 1), Tail(r)>> \in G1
          /\ op.does = "box" => <<x[1], Tail(r)>> \in G1
      BY <1>1, <3>3 DEF IsClosed
    <3>8. ASSUME NEW a, NEW b, <<a, b>> \in G1 PROVE <<a, b \o q>> \in G
      <4> HIDE DEF G
      <4> QED
        BY <3>8, <1>0
    <3>9. y \in Seq(Lock) \X Seq(Op)
      BY <3>1, <3>4, <3>5, <3>6
    <3>10. op.does \in {"lock", "try"} => op.lock \in Lock /\ <<Append(y[1], op.lock), Tail(y[2])>> \in G
      BY <3>5, <3>6, <3>7, <3>8
    <3>11. op.does = "try" => op.skips < Len(y[2]) /\ <<y[1], SubSeq(y[2], 2 + op.skips, Len(y[2]))>> \in G
      <4> SUFFICES ASSUME op.does = "try"
                   PROVE  op.skips < Len(y[2]) /\ <<y[1], SubSeq(y[2], 2 + op.skips, Len(y[2]))>> \in G
        OBVIOUS
      <4>1. op \in Op
        BY <3>4, HeadTailProperties
      <4>2. op.skips \in Nat
        BY <4>1 DEF Op
      <4>3. op.skips < Len(r) /\ <<x[1], SubSeq(r, 2 + op.skips, Len(r))>> \in G1
        BY <3>7
      <4>4. SubSeq(r \o q, 2 + op.skips, Len(r \o q)) = SubSeq(r, 2 + op.skips, Len(r)) \o q
        BY <4>2, <4>3, <3>4, SkipInConcat
      <4>5. Len(r \o q) = Len(r) + Len(q) /\ Len(r) \in Nat /\ Len(q) \in Nat
        BY <3>4, ConcatProperties, LenProperties
      <4>6. op.skips < Len(y[2])
        BY <4>2, <4>3, <4>5, <3>5
      <4> QED
        BY <4>3, <4>4, <4>6, <3>5, <3>8
    <3>12. op.does = "free" => y[1] # <<>> /\ <<SubSeq(y[1], 1, Len(y[1]) - 1), Tail(y[2])>> \in G
      BY <3>5, <3>6, <3>7, <3>8
    <3>13. op.does = "box" => <<y[1], Tail(y[2])>> \in G
      BY <3>5, <3>6, <3>7, <3>8
    <3>14. op.does = "lock" => InOrder(y[1], op.lock)
      BY <3>5, <3>7
    <3> HIDE DEF G, op, r
    <3> QED
      BY <3>6, <3>9, <3>10, <3>11, <3>12, <3>13, <3>14
  <2> QED
    BY <2>1, <2>2
<1> HIDE DEF G
<1>5. IsClosed(G, e)
  BY <1>4 DEF IsClosed
<1> QED
  BY <1>3, <1>5 DEF RunsTo

\* It has the locks again that it had.
Returns(h, p) == RunsTo(h, p, h)

LEMMA OneOp ==
  ASSUME NEW op \in Op
  PROVE  /\ <<op>> \in Seq(Op) /\ <<op>> # <<>> /\ Len(<<op>>) = 1
         /\ Head(<<op>>) = op /\ Tail(<<op>>) = <<>>
  OBVIOUS

LEMMA LastOfAppend ==
  ASSUME NEW h \in Seq(Lock), NEW l \in Lock
  PROVE  /\ Append(h, l) \in Seq(Lock) /\ Append(h, l) # <<>>
         /\ SubSeq(Append(h, l), 1, Len(Append(h, l)) - 1) = h
<1> DEFINE a == Append(h, l)
           f == SubSeq(a, 1, Len(a) - 1)
<1>1. a \in Seq(Lock) /\ Len(a) = Len(h) + 1 /\ Len(h) \in Nat /\ \A i \in 1 .. Len(h) : a[i] = h[i]
  BY LenProperties
<1>2. \A i \in 1 .. Len(a) - 1 : a[i] \in Lock
  BY <1>1, LenProperties
<1> HIDE DEF a
<1>3. f \in Seq(Lock) /\ Len(f) = (IF 1 <= Len(a) - 1 THEN Len(a) - 1 - 1 + 1 ELSE 0)
      /\ \A i \in 1 .. Len(a) - 1 - 1 + 1 : f[i] = a[1 + i - 1]
  BY <1>1, <1>2, SubSeqProperties
<1> HIDE DEF f
<1>4. Len(f) = Len(h) /\ \A i \in 1 .. Len(f) : f[i] = h[i]
  BY <1>1, <1>3
<1>5. f = h
  BY <1>3, <1>4, SeqEqual
<1>6. a # <<>>
  BY <1>1
<1> QED
  BY <1>1, <1>5, <1>6 DEF a, f

LEMMA HoldingReturns ==
  ASSUME NEW h \in Seq(Lock), NEW l \in Lock, NEW body, InOrder(h, l), Returns(Append(h, l), body)
  PROVE  Returns(h, Holding(l, body))
<1> DEFINE lock == [does |-> "lock", lock |-> l]
           free == [does |-> "free", lock |-> l]
           a == Append(h, l)
<1>1. lock \in Op /\ free \in Op
  BY DEF Op
<1>2. a \in Seq(Lock) /\ a # <<>> /\ SubSeq(a, 1, Len(a) - 1) = h
  BY LastOfAppend
<1>3. RunsTo(h, <<>>, h) /\ RunsTo(a, <<>>, a)
  BY <1>2, NothingGoes
<1>4. body \in Seq(Op)
  BY GoesOn DEF Returns
<1> DEFINE first == <<lock>>
           last == <<free>>
<1>5. /\ first \in Seq(Op) /\ first # <<>> /\ Head(first) = lock /\ Tail(first) = <<>>
      /\ last \in Seq(Op) /\ last # <<>> /\ Head(last) = free /\ Tail(last) = <<>>
  BY <1>1, OneOp
<1>6. lock.does = "lock" /\ lock.lock = l /\ free.does = "free"
  OBVIOUS
<1> HIDE DEF lock, free, first, last, a
<1>7. RunsTo(h, first, a)
  BY <1>2, <1>3, <1>5, <1>6, MayGo DEF a
<1>8. RunsTo(a, last, h)
  BY <1>2, <1>3, <1>5, <1>6, MayGo
<1>9. RunsTo(h, first \o body, a)
  BY <1>4, <1>5, <1>7, ThenGoes DEF Returns, a
<1>10. first \o body \in Seq(Op)
  BY <1>4, <1>5, ConcatProperties
<1>11. RunsTo(h, (first \o body) \o last, h)
  BY <1>5, <1>8, <1>9, <1>10, ThenGoes
<1> QED
  BY <1>11 DEF Returns, Holding, first, last, lock, free

LEMMA TryHoldingReturns ==
  ASSUME NEW h \in Seq(Lock), NEW l \in Lock, NEW body, Returns(Append(h, l), body)
  PROVE  Returns(h, TryHolding(l, body))
<1> DEFINE op == [does |-> "try", lock |-> l, skips |-> Len(body) + 1]
           free == [does |-> "free", lock |-> l]
           a == Append(h, l)
<1>1. body \in Seq(Op) /\ Len(body) \in Nat
  BY GoesOn, LenProperties DEF Returns
<1>2. op \in Op /\ free \in Op
  BY <1>1 DEF Op
<1>3. a \in Seq(Lock) /\ a # <<>> /\ SubSeq(a, 1, Len(a) - 1) = h
  BY LastOfAppend
<1>4. RunsTo(h, <<>>, h) /\ RunsTo(a, <<>>, a)
  BY <1>3, NothingGoes
<1> DEFINE first == <<op>>
           last == <<free>>
           p == (first \o body) \o last
<1>5. /\ first \in Seq(Op) /\ first # <<>> /\ Head(first) = op /\ Tail(first) = <<>> /\ Len(first) = 1
      /\ last \in Seq(Op) /\ last # <<>> /\ Head(last) = free /\ Tail(last) = <<>> /\ Len(last) = 1
  BY <1>2, OneOp
<1>6. op.does = "try" /\ op.lock = l /\ op.skips = Len(body) + 1 /\ free.does = "free"
  OBVIOUS
<1> HIDE DEF op, free, first, last, a
<1>7. RunsTo(a, last, h)
  BY <1>3, <1>4, <1>5, <1>6, MayGo
<1>8. RunsTo(a, body \o last, h)
  BY <1>1, <1>5, <1>7, ThenGoes DEF Returns, a
<1>9. body \o last \in Seq(Op) /\ Len(body \o last) = Len(body) + 1
  <2>1. body \o last \in Seq(Op) /\ Len(body \o last) = Len(body) + Len(last)
    BY <1>1, <1>5, ConcatProperties
  <2> QED
    BY <2>1, <1>5
<1>10. p = first \o (body \o last)
  BY <1>1, <1>5, ConcatAssociative
<1>11. /\ p \in Seq(Op) /\ p # <<>> /\ Head(p) = op /\ Tail(p) = <<>> \o (body \o last)
       /\ Len(p) = Len(body) + 2
  <2> HIDE DEF p
  <2>1. /\ p \in Seq(Op) /\ p # <<>> /\ Head(p) = Head(first) /\ Tail(p) = Tail(first) \o (body \o last)
    BY <1>5, <1>9, <1>10, HeadOfConcat
  <2>2. Len(p) = Len(first) + Len(body \o last)
    BY <1>5, <1>9, <1>10, ConcatProperties
  <2>3. Len(p) = Len(body) + 2
    BY <2>2, <1>1, <1>5, <1>9
  <2> QED
    BY <2>1, <2>3, <1>5
<1> HIDE DEF p
<1>12. Tail(p) = body \o last
  BY <1>9, <1>11, ConcatEmptySeq
<1>13. SubSeq(p, 2 + op.skips, Len(p)) = <<>>
  BY <1>1, <1>6, <1>11, SubSeqEmpty
<1>14. op.skips < Len(p)
  BY <1>1, <1>6, <1>11
<1>15. RunsTo(h, p, h)
  BY <1>4, <1>6, <1>8, <1>11, <1>12, <1>13, <1>14, MayGo DEF a
<1> QED
  BY <1>15 DEF Returns, TryHolding, p, first, last, op, free

LEMMA BoxReturns ==
  ASSUME NEW h \in Seq(Lock)
  PROVE  Returns(h, Box)
<1> DEFINE op == [does |-> "box", lock |-> "none"]
<1>1. op \in Op /\ op.does = "box"
  BY DEF Op
<1>2. Box \in Seq(Op) /\ Box # <<>> /\ Head(Box) = op /\ Tail(Box) = <<>>
  BY <1>1, OneOp DEF Box
<1> HIDE DEF op
<1>3. RunsTo(h, <<>>, h)
  BY NothingGoes
<1> QED
  BY <1>1, <1>2, <1>3, MayGo DEF Returns

LEMMA BothReturn ==
  ASSUME NEW h, NEW p, NEW q, Returns(h, p), Returns(h, q)
  PROVE  Returns(h, p \o q)
<1>1. p \in Seq(Op) /\ q \in Seq(Op)
  BY GoesOn DEF Returns
<1> QED
  BY <1>1, ThenGoes DEF Returns

LEMMA NothingReturns ==
  ASSUME NEW h \in Seq(Lock)
  PROVE  Returns(h, <<>>)
  BY NothingGoes DEF Returns

\* What a thread holds with one lock more.
LEMMA LocksOfAppend ==
  ASSUME NEW h \in Seq(Lock), NEW l \in Lock
  PROVE  Append(h, l) \in Seq(Lock) /\ LocksOf(Append(h, l)) = LocksOf(h) \cup {l}
<1> DEFINE a == Append(h, l)
<1>1. /\ a \in Seq(Lock) /\ Len(a) = Len(h) + 1 /\ Len(h) \in Nat
      /\ \A i \in 1 .. Len(h) : a[i] = h[i]
      /\ a[Len(h) + 1] = l /\ DOMAIN a = 1 .. Len(a) /\ DOMAIN h = 1 .. Len(h)
  BY LenProperties
<1> HIDE DEF a
<1>2. ASSUME NEW k PROVE (\E i \in DOMAIN a : a[i] = k) <=> (\E i \in DOMAIN h : h[i] = k) \/ k = l
  <2>1. ASSUME NEW i \in DOMAIN a, a[i] = k PROVE (\E j \in DOMAIN h : h[j] = k) \/ k = l
    <3>1. i \in DOMAIN h \/ i = Len(h) + 1
      BY <1>1
    <3> QED
      BY <2>1, <3>1, <1>1
  <2>2. ASSUME NEW i \in DOMAIN h, h[i] = k PROVE \E j \in DOMAIN a : a[j] = k
    <3>1. i \in DOMAIN a /\ a[i] = h[i]
      BY <1>1
    <3> QED
      BY <2>2, <3>1
  <2>3. ASSUME k = l PROVE \E j \in DOMAIN a : a[j] = k
    <3>1. Len(h) + 1 \in DOMAIN a
      BY <1>1
    <3> QED
      BY <2>3, <3>1, <1>1
  <2> QED
    BY <2>1, <2>2, <2>3
<1>3. \A k : k \in LocksOf(a) <=> k \in LocksOf(h) \cup {l}
  BY <1>2 DEF LocksOf
<1> QED
  BY <1>1, <1>3 DEF a

LEMMA NothingHeld == <<>> \in Seq(Lock) /\ LocksOf(<<>>) = {}
  BY DEF LocksOf

LEMMA RankIs ==
  /\ Rank["vRecv"] = 0 /\ Rank["main"] = 1 /\ Rank["alerts"] = 2 /\ Rank["wallet"] = 3
  /\ Rank["unlockTime"] = 4 /\ Rank["vNodes"] = 4 /\ Rank["mempool"] = 4
  /\ Rank["keyStore"] = 5 /\ Rank["vSend"] = 5 /\ Rank["hashSync"] = 5
  BY DEF Rank, Lock

-----------------------------------------------------------------------------
(* The pieces of programs.                                                 *)
LEMMA BriefReturns ==
  ASSUME NEW h \in Seq(Lock), NEW l \in Lock, InOrder(h, l)
  PROVE  Returns(h, Holding(l, <<>>))
  BY LocksOfAppend, NothingReturns, HoldingReturns

LEMMA PushMessageReturns ==
  ASSUME NEW h \in Seq(Lock), "main" \in LocksOf(h)
  PROVE  Returns(h, PushMessage)
<1>1. "vSend" \in Lock /\ InOrder(h, "vSend")
  BY DEF InOrder, Gated, Lock
<1> QED
  BY <1>1, BriefReturns DEF PushMessage

LEMMA RelayInventoryReturns ==
  ASSUME NEW h \in Seq(Lock), InOrder(h, "vNodes")
  PROVE  Returns(h, RelayInventory)
<1>1. "vNodes" \in Lock
  BY DEF Lock
<1> QED
  BY <1>1, BriefReturns DEF RelayInventory

LEMMA RelayToReturns ==
  ASSUME NEW h \in Seq(Lock), InOrder(h, "vNodes"), "main" \in LocksOf(h)
  PROVE  Returns(h, RelayTo)
<1>1. "vNodes" \in Lock
  BY DEF Lock
<1>2. Append(h, "vNodes") \in Seq(Lock) /\ "main" \in LocksOf(Append(h, "vNodes"))
  BY <1>1, LocksOfAppend
<1>3. Returns(Append(h, "vNodes"), PushMessage)
  BY <1>2, PushMessageReturns
<1> QED
  BY <1>1, <1>3, HoldingReturns DEF RelayTo

\* The wallet, and its keys under it.
LEMMA WalletKeysReturn ==
  ASSUME NEW h \in Seq(Lock), LocksOf(h) \subseteq {"vRecv", "main", "hashSync", "wallet"},
         "hashSync" \in LocksOf(h) => "main" \in LocksOf(h)
  PROVE  Returns(h, Holding("wallet", Holding("keyStore", <<>>)))
<1>1. "wallet" \in Lock /\ "keyStore" \in Lock
  BY DEF Lock
<1> DEFINE w == Append(h, "wallet")
<1>2. w \in Seq(Lock) /\ LocksOf(w) = LocksOf(h) \cup {"wallet"}
  BY <1>1, LocksOfAppend
<1>3. InOrder(h, "wallet")
  BY RankIs DEF InOrder, Gated
<1> HIDE DEF w
<1>4. InOrder(w, "keyStore")
  BY <1>2, RankIs DEF InOrder, Gated
<1>5. Returns(w, Holding("keyStore", <<>>))
  BY <1>1, <1>2, <1>4, BriefReturns
<1> QED
  BY <1>1, <1>3, <1>5, HoldingReturns DEF w

LEMMA AcceptPendingReturns ==
  ASSUME NEW h \in Seq(Lock), "main" \in LocksOf(h), LocksOf(h) \subseteq {"vRecv", "main", "wallet"}
  PROVE  Returns(h, AcceptPending)
<1>1. "hashSync" \in Lock /\ InOrder(h, "hashSync")
  BY DEF InOrder, Gated, Lock
<1> DEFINE s == Append(h, "hashSync")
<1>2. s \in Seq(Lock) /\ LocksOf(s) = LocksOf(h) \cup {"hashSync"}
  BY <1>1, LocksOfAppend
<1> HIDE DEF s
<1>3. Returns(s, SetBestChain)
  BY <1>2, WalletKeysReturn DEF SetBestChain
<1>4. Returns(s, PushMessage)
  BY <1>2, PushMessageReturns
<1>5. Returns(s, SetBestChain \o PushMessage)
  BY <1>3, <1>4, BothReturn
<1> QED
  BY <1>1, <1>5, HoldingReturns DEF AcceptPending, s

LEMMA TakeBlockReturns ==
  ASSUME NEW h \in Seq(Lock), "main" \in LocksOf(h), LocksOf(h) \subseteq {"vRecv", "main", "wallet"},
         NEW full \in BOOLEAN
  PROVE  Returns(h, TakeBlock(full))
<1>1. Returns(h, Box)
  BY BoxReturns
<1>2. Returns(h, SetBestChain)
  BY WalletKeysReturn DEF SetBestChain
<1>3. InOrder(h, "vNodes")
  BY RankIs DEF InOrder, Gated
<1>4. Returns(h, RelayInventory)
  BY <1>3, RelayInventoryReturns
<1>5. Returns(h, SetBestChain \o RelayInventory)
  BY <1>2, <1>4, BothReturn
<1>6. Returns(h, IF full THEN Box ELSE SetBestChain \o RelayInventory)
  BY <1>1, <1>5
<1>7. Returns(h, AcceptPending)
  BY AcceptPendingReturns
<1> QED
  BY <1>6, <1>7, BothReturn DEF TakeBlock

\* cs_wallet is taken under the key store, but by a thread that has it.
LEMMA AddKeyReturns ==
  ASSUME NEW h \in Seq(Lock), LocksOf(h) = {"main", "wallet"}
  PROVE  Returns(h, AddKey)
<1>1. "wallet" \in Lock /\ "keyStore" \in Lock
  BY DEF Lock
<1> DEFINE s == Append(h, "keyStore")
<1>2. s \in Seq(Lock) /\ LocksOf(s) = {"main", "wallet", "keyStore"}
  BY <1>1, LocksOfAppend
<1>3. InOrder(h, "keyStore")
  BY RankIs DEF InOrder, Gated
<1> HIDE DEF s
<1>4. InOrder(s, "wallet")
  BY <1>2 DEF InOrder
<1>5. Returns(s, Holding("wallet", <<>>))
  BY <1>1, <1>2, <1>4, BriefReturns
<1> QED
  BY <1>1, <1>3, <1>5, HoldingReturns DEF AddKey, s

-----------------------------------------------------------------------------
(* The programs.                                                           *)
LEMMA OnMessageReturns ==
  ASSUME NEW body, \A h \in Seq(Lock) : LocksOf(h) = {"vRecv", "main"} => Returns(h, body)
  PROVE  Returns(<<>>, OnMessage(body))
<1> DEFINE v == Append(<<>>, "vRecv")
           m == Append(v, "main")
<1>1. "vRecv" \in Lock /\ "main" \in Lock /\ "vNodes" \in Lock
  BY DEF Lock
<1>2. v \in Seq(Lock) /\ LocksOf(v) = {"vRecv"}
  BY <1>1, NothingHeld, LocksOfAppend
<1> HIDE DEF v
<1>3. m \in Seq(Lock) /\ LocksOf(m) = {"vRecv", "main"}
  BY <1>1, <1>2, LocksOfAppend
<1>4. InOrder(v, "main")
  BY <1>2, RankIs DEF InOrder, Gated
<1> HIDE DEF m
<1>5. Returns(m, body)
  BY <1>3
<1>6. Returns(v, Holding("main", body))
  BY <1>1, <1>2, <1>4, <1>5, HoldingReturns DEF m
<1>7. Returns(<<>>, TryHolding("vRecv", Holding("main", body)))
  BY <1>1, <1>6, NothingHeld, TryHoldingReturns DEF v
<1>8. InOrder(<<>>, "vNodes")
  BY NothingHeld, RankIs DEF InOrder, Gated
<1>9. Returns(<<>>, Holding("vNodes", <<>>))
  BY <1>1, <1>8, NothingHeld, BriefReturns
<1> QED
  BY <1>7, <1>9, BothReturn DEF OnMessage

LEMMA UnderMainReturns ==
  ASSUME NEW body, \A h \in Seq(Lock) : LocksOf(h) = {"main"} => Returns(h, body)
  PROVE  Returns(<<>>, Holding("main", body))
<1>1. "main" \in Lock
  BY DEF Lock
<1>2. Append(<<>>, "main") \in Seq(Lock) /\ LocksOf(Append(<<>>, "main")) = {"main"}
  BY <1>1, NothingHeld, LocksOfAppend
<1>3. InOrder(<<>>, "main")
  BY NothingHeld, RankIs DEF InOrder, Gated
<1>4. Returns(Append(<<>>, "main"), body)
  BY <1>2
<1> QED
  BY <1>1, <1>3, <1>4, NothingHeld, HoldingReturns

LEMMA UnderBothReturns ==
  ASSUME NEW body, \A h \in Seq(Lock) : LocksOf(h) = {"main", "wallet"} => Returns(h, body)
  PROVE  Returns(<<>>, Holding("main", Holding("wallet", body)))
<1>1. "wallet" \in Lock
  BY DEF Lock
<1>2. ASSUME NEW h \in Seq(Lock), LocksOf(h) = {"main"} PROVE Returns(h, Holding("wallet", body))
  <2>1. Append(h, "wallet") \in Seq(Lock) /\ LocksOf(Append(h, "wallet")) = {"main", "wallet"}
    BY <1>1, <1>2, LocksOfAppend
  <2>2. InOrder(h, "wallet")
    BY <1>2, RankIs DEF InOrder, Gated
  <2>3. Returns(Append(h, "wallet"), body)
    BY <2>1
  <2> QED
    BY <1>1, <2>2, <2>3, HoldingReturns
<1> QED
  BY <1>2, UnderMainReturns

LEMMA UnderWalletReturns ==
  ASSUME NEW body, \A h \in Seq(Lock) : LocksOf(h) = {"wallet"} => Returns(h, body)
  PROVE  Returns(<<>>, Holding("wallet", body))
<1>1. "wallet" \in Lock
  BY DEF Lock
<1>2. Append(<<>>, "wallet") \in Seq(Lock) /\ LocksOf(Append(<<>>, "wallet")) = {"wallet"}
  BY <1>1, NothingHeld, LocksOfAppend
<1>3. InOrder(<<>>, "wallet")
  BY NothingHeld, RankIs DEF InOrder, Gated
<1>4. Returns(Append(<<>>, "wallet"), body)
  BY <1>2
<1> QED
  BY <1>1, <1>3, <1>4, NothingHeld, HoldingReturns

LEMMA AlertsReturn == Returns(<<>>, Holding("alerts", <<>>))
<1>1. "alerts" \in Lock /\ InOrder(<<>>, "alerts")
  BY NothingHeld, RankIs DEF InOrder, Gated, Lock
<1> QED
  BY <1>1, NothingHeld, BriefReturns

LEMMA LockedReturns ==
  ASSUME NEW body, \A h \in Seq(Lock) : LocksOf(h) = {"main", "wallet"} => Returns(h, body)
  PROVE  Returns(<<>>, Locked(body))
<1>1. Returns(<<>>, Holding("main", Holding("wallet", body)))
  BY UnderBothReturns
<1> QED
  BY <1>1, AlertsReturn, BothReturn DEF Locked

\* SendMessages has vSend before it tries cs_main, and waits for locks only if it gets that.
LEMMA SendMessagesReturns == Returns(<<>>, SendMessagesTo)
<1> DEFINE s == Append(<<>>, "vSend")
           m == Append(s, "main")
           w == Append(m, "wallet")
<1>1. {"vSend", "main", "wallet", "vNodes"} \subseteq Lock
  BY DEF Lock
<1>2. s \in Seq(Lock) /\ LocksOf(s) = {"vSend"}
  BY <1>1, NothingHeld, LocksOfAppend
<1> HIDE DEF s
<1>3. m \in Seq(Lock) /\ LocksOf(m) = {"vSend", "main"}
  BY <1>1, <1>2, LocksOfAppend
<1> HIDE DEF m
<1>4. w \in Seq(Lock) /\ LocksOf(w) = {"vSend", "main", "wallet"}
  BY <1>1, <1>3, LocksOfAppend
<1> HIDE DEF w
<1>5. InOrder(m, "wallet") /\ InOrder(m, "vNodes") /\ InOrder(w, "vNodes")
  BY <1>3, <1>4, RankIs DEF InOrder, Gated
<1>6. Returns(m, Holding("wallet", RelayInventory))
  BY <1>1, <1>3, <1>4, <1>5, RelayInventoryReturns, HoldingReturns DEF w
<1>7. Returns(m, RelayInventory) /\ Returns(m, PushMessage)
  BY <1>3, <1>5, RelayInventoryReturns, PushMessageReturns
<1>8. Returns(m, Holding("wallet", RelayInventory) \o RelayInventory)
  BY <1>6, <1>7, BothReturn
<1>9. Returns(m, Holding("wallet", RelayInventory) \o RelayInventory \o PushMessage)
  BY <1>7, <1>8, BothReturn
<1>10. Returns(s, SendMessages)
  BY <1>1, <1>2, <1>9, TryHoldingReturns DEF SendMessages, m
<1>11. Returns(<<>>, TryHolding("vSend", SendMessages))
  BY <1>1, <1>10, NothingHeld, TryHoldingReturns DEF s
<1>12. InOrder(<<>>, "vNodes")
  BY NothingHeld, RankIs DEF InOrder, Gated
<1>13. Returns(<<>>, Holding("vNodes", <<>>))
  BY <1>1, <1>12, NothingHeld, BriefReturns
<1> QED
  BY <1>11, <1>13, BothReturn DEF SendMessagesTo

LEMMA MessageProgramsReturn ==
  ASSUME NEW p \in MessagePrograms
  PROVE  Returns(<<>>, p)
<1>0. {"alerts", "hashSync", "mempool", "wallet"} \subseteq Lock
  BY DEF Lock
<1>1. Returns(<<>>, OnMessage(Holding("alerts", PushMessage) \o Holding("hashSync", PushMessage)))
  <2>1. ASSUME NEW h \in Seq(Lock), LocksOf(h) = {"vRecv", "main"}
        PROVE  Returns(h, Holding("alerts", PushMessage) \o Holding("hashSync", PushMessage))
    <3>1. InOrder(h, "alerts") /\ InOrder(h, "hashSync")
      BY <2>1, RankIs DEF InOrder, Gated
    <3>2. ASSUME NEW l \in {"alerts", "hashSync"} PROVE Returns(h, Holding(l, PushMessage))
      <4>1. Append(h, l) \in Seq(Lock) /\ "main" \in LocksOf(Append(h, l))
        BY <1>0, <2>1, LocksOfAppend
      <4>2. Returns(Append(h, l), PushMessage)
        BY <4>1, PushMessageReturns
      <4> QED
        BY <1>0, <3>1, <4>2, HoldingReturns
    <3> QED
      BY <3>2, BothReturn
  <2> QED
    BY <2>1, OnMessageReturns
<1>2. Returns(<<>>, OnMessage(Holding("alerts", <<>>) \o RelayTo))
  <2>1. ASSUME NEW h \in Seq(Lock), LocksOf(h) = {"vRecv", "main"}
        PROVE  Returns(h, Holding("alerts", <<>>) \o RelayTo)
    <3>1. InOrder(h, "alerts") /\ InOrder(h, "vNodes")
      BY <2>1, RankIs DEF InOrder, Gated
    <3>2. Returns(h, Holding("alerts", <<>>)) /\ Returns(h, RelayTo)
      BY <1>0, <2>1, <3>1, BriefReturns, RelayToReturns
    <3> QED
      BY <3>2, BothReturn
  <2> QED
    BY <2>1, OnMessageReturns
<1>3. Returns(<<>>, OnMessage(Holding("hashSync", SetBestChain) \o RelayTo))
  <2>1. ASSUME NEW h \in Seq(Lock), LocksOf(h) = {"vRecv", "main"}
        PROVE  Returns(h, Holding("hashSync", SetBestChain) \o RelayTo)
    <3>1. InOrder(h, "hashSync") /\ InOrder(h, "vNodes")
      BY <2>1, RankIs DEF InOrder, Gated
    <3>2. Append(h, "hashSync") \in Seq(Lock) /\ LocksOf(Append(h, "hashSync")) = {"vRecv", "main", "hashSync"}
      BY <1>0, <2>1, LocksOfAppend
    <3>3. Returns(Append(h, "hashSync"), SetBestChain)
      BY <3>2, WalletKeysReturn DEF SetBestChain
    <3>4. Returns(h, Holding("hashSync", SetBestChain)) /\ Returns(h, RelayTo)
      BY <1>0, <2>1, <3>1, <3>3, HoldingReturns, RelayToReturns
    <3> QED
      BY <3>4, BothReturn
  <2> QED
    BY <2>1, OnMessageReturns
<1>4. ASSUME NEW full \in BOOLEAN PROVE Returns(<<>>, OnMessage(TakeBlock(full)))
  <2>1. ASSUME NEW h \in Seq(Lock), LocksOf(h) = {"vRecv", "main"} PROVE Returns(h, TakeBlock(full))
    BY <2>1, TakeBlockReturns
  <2> QED
    BY <2>1, OnMessageReturns
<1>5. Returns(<<>>, OnMessage(Holding("mempool", <<>>) \o Holding("wallet", <<>>) \o PushMessage))
  <2>1. ASSUME NEW h \in Seq(Lock), LocksOf(h) = {"vRecv", "main"}
        PROVE  Returns(h, Holding("mempool", <<>>) \o Holding("wallet", <<>>) \o PushMessage)
    <3>1. InOrder(h, "mempool") /\ InOrder(h, "wallet")
      BY <2>1, RankIs DEF InOrder, Gated
    <3>2. Returns(h, Holding("mempool", <<>>)) /\ Returns(h, Holding("wallet", <<>>)) /\ Returns(h, PushMessage)
      BY <1>0, <2>1, <3>1, BriefReturns, PushMessageReturns
    <3>3. Returns(h, Holding("mempool", <<>>) \o Holding("wallet", <<>>))
      BY <3>2, BothReturn
    <3> QED
      BY <3>2, <3>3, BothReturn
  <2> QED
    BY <2>1, OnMessageReturns
<1> QED
  BY <1>1, <1>2, <1>3, <1>4, <1>5, SendMessagesReturns DEF MessagePrograms

LEMMA SocketProgramsReturn ==
  ASSUME NEW p \in SocketPrograms
  PROVE  Returns(<<>>, p)
<1>0. {"vNodes", "vSend", "vRecv"} \subseteq Lock
  BY DEF Lock
<1>1. ASSUME NEW h \in Seq(Lock), NEW l \in {"vSend", "vRecv"} PROVE Returns(h, TryHolding(l, <<>>))
  BY <1>0, LocksOfAppend, NothingReturns, TryHoldingReturns
<1>2. ASSUME NEW h \in Seq(Lock) PROVE Returns(h, TryHolding("vSend", TryHolding("vRecv", <<>>)))
  <2>1. Append(h, "vSend") \in Seq(Lock)
    BY <1>0, LocksOfAppend
  <2>2. Returns(Append(h, "vSend"), TryHolding("vRecv", <<>>))
    BY <1>1, <2>1
  <2> QED
    BY <1>0, <2>2, TryHoldingReturns
<1>3. InOrder(<<>>, "vNodes")
  BY NothingHeld, RankIs DEF InOrder, Gated
<1>4. Returns(<<>>, Holding("vNodes", TryHolding("vSend", TryHolding("vRecv", <<>>))))
  <2>1. Append(<<>>, "vNodes") \in Seq(Lock)
    BY <1>0, NothingHeld, LocksOfAppend
  <2>2. Returns(Append(<<>>, "vNodes"), TryHolding("vSend", TryHolding("vRecv", <<>>)))
    BY <1>2, <2>1
  <2> QED
    BY <1>0, <1>3, <2>2, NothingHeld, HoldingReturns
<1>5. Returns(<<>>, Holding("vNodes", <<>>) \o TryHolding("vRecv", <<>>) \o TryHolding("vSend", <<>>))
  <2>1. Returns(<<>>, Holding("vNodes", <<>>))
    BY <1>0, <1>3, NothingHeld, BriefReturns
  <2>2. Returns(<<>>, TryHolding("vRecv", <<>>)) /\ Returns(<<>>, TryHolding("vSend", <<>>))
    BY <1>1, NothingHeld
  <2>3. Returns(<<>>, Holding("vNodes", <<>>) \o TryHolding("vRecv", <<>>))
    BY <2>1, <2>2, BothReturn
  <2> QED
    BY <2>2, <2>3, BothReturn
<1> QED
  BY <1>4, <1>5 DEF SocketPrograms

LEMMA RpcProgramsReturn ==
  ASSUME NEW p \in RpcPrograms
  PROVE  Returns(<<>>, p)
<1>0. {"keyStore", "unlockTime", "mempool"} \subseteq Lock
  BY DEF Lock
<1>1. ASSUME NEW h \in Seq(Lock), LocksOf(h) = {"main", "wallet"}
      PROVE  /\ Returns(h, RelayTo) /\ Returns(h, Holding("keyStore", <<>>) \o RelayInventory)
             /\ Returns(h, Holding("unlockTime", Holding("keyStore", <<>>)))
             /\ Returns(h, AddKey) /\ Returns(h, TakeBlock(FALSE)) /\ Returns(h, TakeBlock(TRUE))
             /\ Returns(h, Holding("mempool", <<>>))
  <2>1. /\ InOrder(h, "keyStore") /\ InOrder(h, "vNodes") /\ InOrder(h, "unlockTime")
        /\ InOrder(h, "mempool")
    BY <1>1, RankIs DEF InOrder, Gated
  <2>2. Returns(h, RelayTo)
    BY <1>1, <2>1, RelayToReturns
  <2>3. Returns(h, Holding("keyStore", <<>>) \o RelayInventory)
    <3>1. Returns(h, Holding("keyStore", <<>>)) /\ Returns(h, RelayInventory)
      BY <1>0, <2>1, BriefReturns, RelayInventoryReturns
    <3> QED
      BY <3>1, BothReturn
  <2>4. Returns(h, Holding("unlockTime", Holding("keyStore", <<>>)))
    <3> DEFINE u == Append(h, "unlockTime")
    <3>1. u \in Seq(Lock) /\ LocksOf(u) = {"main", "wallet", "unlockTime"}
      BY <1>0, <1>1, LocksOfAppend
    <3> HIDE DEF u
    <3>2. InOrder(u, "keyStore")
      BY <3>1, RankIs DEF InOrder, Gated
    <3>3. Returns(u, Holding("keyStore", <<>>))
      BY <1>0, <3>1, <3>2, BriefReturns
    <3> QED
      BY <1>0, <2>1, <3>3, HoldingReturns DEF u
  <2>5. Returns(h, AddKey) /\ Returns(h, TakeBlock(FALSE)) /\ Returns(h, TakeBlock(TRUE))
    BY <1>1, AddKeyReturns, TakeBlockReturns
  <2>6. Returns(h, Holding("mempool", <<>>))
    BY <1>0, <2>1, BriefReturns
  <2> QED
    BY <2>2, <2>3, <2>4, <2>5, <2>6
<1>2. /\ Returns(<<>>, Locked(RelayTo)) /\ Returns(<<>>, Locked(Holding("keyStore", <<>>) \o RelayInventory))
      /\ Returns(<<>>, Locked(Holding("unlockTime", Holding("keyStore", <<>>))))
      /\ Returns(<<>>, Locked(AddKey)) /\ Returns(<<>>, Locked(TakeBlock(FALSE)))
      /\ Returns(<<>>, Locked(TakeBlock(TRUE))) /\ Returns(<<>>, Locked(Holding("mempool", <<>>)))
  BY <1>1, LockedReturns
<1>3. Returns(<<>>, Holding("wallet", RelayInventory))
  <2>1. ASSUME NEW h \in Seq(Lock), LocksOf(h) = {"wallet"} PROVE Returns(h, RelayInventory)
    <3>1. InOrder(h, "vNodes")
      BY <2>1, RankIs DEF InOrder, Gated
    <3> QED
      BY <3>1, RelayInventoryReturns
  <2> QED
    BY <2>1, UnderWalletReturns
<1> QED
  BY <1>2, <1>3 DEF RpcPrograms

LEMMA RelockProgramsReturn ==
  ASSUME NEW p \in RelockPrograms
  PROVE  Returns(<<>>, p)
<1>0. "unlockTime" \in Lock /\ "keyStore" \in Lock
  BY DEF Lock
<1> DEFINE u == Append(<<>>, "unlockTime")
<1>1. u \in Seq(Lock) /\ LocksOf(u) = {"unlockTime"}
  BY <1>0, NothingHeld, LocksOfAppend
<1> HIDE DEF u
<1>2. InOrder(<<>>, "unlockTime") /\ InOrder(u, "keyStore")
  BY <1>1, NothingHeld, RankIs DEF InOrder, Gated
<1>3. Returns(u, Holding("keyStore", <<>>))
  BY <1>0, <1>1, <1>2, BriefReturns
<1>4. Returns(<<>>, Holding("unlockTime", Holding("keyStore", <<>>)))
  BY <1>0, <1>2, <1>3, NothingHeld, HoldingReturns DEF u
<1> QED
  BY <1>4 DEF RelockPrograms

LEMMA MinterProgramsReturn ==
  ASSUME NEW p \in MinterPrograms
  PROVE  Returns(<<>>, p)
<1>0. "wallet" \in Lock /\ "mempool" \in Lock
  BY DEF Lock
<1>1. ASSUME NEW h \in Seq(Lock), LocksOf(h) = {"main"}
      PROVE  /\ Returns(h, Holding("wallet", Holding("keyStore", <<>>)))
             /\ Returns(h, Holding("mempool", <<>>)) /\ Returns(h, Holding("wallet", <<>>))
             /\ Returns(h, TakeBlock(TRUE)) /\ Returns(h, TakeBlock(FALSE))
  <2>1. InOrder(h, "wallet") /\ InOrder(h, "mempool")
    BY <1>1, RankIs DEF InOrder, Gated
  <2>2. Returns(h, Holding("mempool", <<>>)) /\ Returns(h, Holding("wallet", <<>>))
    BY <1>0, <2>1, BriefReturns
  <2> QED
    BY <1>1, <2>2, WalletKeysReturn, TakeBlockReturns
<1>2. /\ Returns(<<>>, Holding("main", Holding("wallet", Holding("keyStore", <<>>))))
      /\ Returns(<<>>, Holding("main", Holding("mempool", <<>>)))
  BY <1>1, UnderMainReturns
<1>3. ASSUME NEW full \in BOOLEAN PROVE Returns(<<>>, TakeWork(full))
  <2>1. ASSUME NEW h \in Seq(Lock), LocksOf(h) = {"main"}
        PROVE  Returns(h, Holding("wallet", <<>>) \o Holding("wallet", <<>>) \o TakeBlock(full))
    <3>1. Returns(h, Holding("wallet", <<>>)) /\ Returns(h, TakeBlock(full))
      BY <1>1, <2>1
    <3>2. Returns(h, Holding("wallet", <<>>) \o Holding("wallet", <<>>))
      BY <3>1, BothReturn
    <3> QED
      BY <3>1, <3>2, BothReturn
  <2> QED
    BY <2>1, UnderMainReturns DEF TakeWork
<1> QED
  BY <1>2, <1>3 DEF MinterPrograms

LEMMA GuiProgramsReturn ==
  ASSUME NEW p \in GuiPrograms
  PROVE  Returns(<<>>, p)
<1>0. "keyStore" \in Lock
  BY DEF Lock
<1>1. ASSUME NEW h \in Seq(Lock), LocksOf(h) = {"main", "wallet"} \/ LocksOf(h) = {"wallet"}
      PROVE  Returns(h, Holding("keyStore", <<>>)) /\ Returns(h, RelayInventory)
  <2>1. InOrder(h, "keyStore") /\ InOrder(h, "vNodes")
    BY <1>1, RankIs DEF InOrder, Gated
  <2> QED
    BY <1>0, <2>1, BriefReturns, RelayInventoryReturns
<1>2. ASSUME NEW h \in Seq(Lock), LocksOf(h) = {"main", "wallet"}
      PROVE  Returns(h, Holding("keyStore", <<>>) \o RelayInventory)
  <2>1. Returns(h, Holding("keyStore", <<>>)) /\ Returns(h, RelayInventory)
    BY <1>1, <1>2
  <2> QED
    BY <2>1, BothReturn
<1>3. Returns(<<>>, Holding("main", Holding("wallet", Holding("keyStore", <<>>) \o RelayInventory)))
  BY <1>2, UnderBothReturns
<1>4. Returns(<<>>, Holding("wallet", Holding("keyStore", <<>>)))
  BY <1>1, UnderWalletReturns
<1> QED
  BY <1>3, <1>4, AlertsReturn DEF GuiPrograms

LEMMA ProgramsReturn ==
  ASSUME NEW t \in Thread, NEW p \in Programs(t)
  PROVE  Returns(<<>>, p)
  BY MessageProgramsReturn, SocketProgramsReturn, RpcProgramsReturn, RelockProgramsReturn,
     MinterProgramsReturn, GuiProgramsReturn DEF Programs, Thread

-----------------------------------------------------------------------------
(* The threads with their locks.                                           *)
LocksAreTaken ==
    /\ team \in Team
    /\ rest \in [team -> Seq(Op)] /\ held \in [team -> Seq(Lock)]
    /\ \A t \in team : RunsTo(held[t], rest[t], <<>>)
    /\ \A t, u \in team : t # u => LocksOf(held[t]) \cap LocksOf(held[u]) = {}

\* Fewer locks are held without the last one.
LEMMA LocksOfFront ==
  ASSUME NEW h \in Seq(Lock), h # <<>>
  PROVE  LocksOf(SubSeq(h, 1, Len(h) - 1)) \subseteq LocksOf(h)
<1> DEFINE f == SubSeq(h, 1, Len(h) - 1)
<1>0. Len(h) \in Nat /\ Len(h) > 0
  BY EmptySeq, LenProperties
<1>1. DOMAIN h = 1 .. Len(h) /\ \A i \in 1 .. Len(h) - 1 : h[i] \in Lock
  BY <1>0, LenProperties
<1>2. PICK n \in Nat : n = Len(h) - 1
  BY <1>0
<1>3. /\ f \in Seq(Lock) /\ Len(f) = (IF 1 <= n THEN n - 1 + 1 ELSE 0)
      /\ \A i \in 1 .. n - 1 + 1 : f[i] = h[1 + i - 1]
  BY <1>1, <1>2, SubSeqProperties
<1> HIDE DEF f
<1>4. Len(f) = n
  BY <1>3
<1>5. DOMAIN f = 1 .. n
  BY <1>3, <1>4, LenProperties
<1>6. ASSUME NEW i \in DOMAIN f PROVE i \in DOMAIN h /\ f[i] = h[i]
  <2>1. i \in 1 .. n /\ i \in 1 .. n - 1 + 1 /\ 1 + i - 1 = i
    BY <1>5
  <2>2. f[i] = h[i]
    BY <1>3, <2>1
  <2>3. i \in DOMAIN h
    BY <1>0, <1>1, <1>2, <2>1
  <2> QED
    BY <2>2, <2>3
<1> QED
  BY <1>6 DEF LocksOf, f

\* A step of thread t: it goes on, and no lock of it belongs to another.
LEMMA OneThreadMoves ==
  ASSUME LocksAreTaken, team' = team, NEW t \in team,
         NEW h \in Seq(Lock), NEW p \in Seq(Op),
         rest' = [rest EXCEPT ![t] = p], held' = [held EXCEPT ![t] = h], RunsTo(h, p, <<>>),
         \A u \in team \ {t} : LocksOf(h) \cap LocksOf(held[u]) = {}
  PROVE  LocksAreTaken'
<1> USE DEF LocksAreTaken
<1>1. rest' \in [team -> Seq(Op)] /\ held' \in [team -> Seq(Lock)]
  OBVIOUS
<1>2. /\ rest'[t] = p /\ held'[t] = h
      /\ \A u \in team \ {t} : rest'[u] = rest[u] /\ held'[u] = held[u]
  OBVIOUS
<1>3. \A u \in team : RunsTo(held'[u], rest'[u], <<>>)
  BY <1>2
<1>4. ASSUME NEW u \in team, NEW v \in team, u # v PROVE LocksOf(held'[u]) \cap LocksOf(held'[v]) = {}
  <2>1. CASE u = t
    BY <1>2, <1>4, <2>1
  <2>2. CASE v = t
    BY <1>2, <1>4, <2>2
  <2>3. CASE u # t /\ v # t
    BY <1>2, <1>4, <2>3
  <2> QED
    BY <2>1, <2>2, <2>3
<1> QED
  BY <1>1, <1>3, <1>4

LEMMA LocksTakenInit == LockInit => LocksAreTaken
<1> SUFFICES ASSUME LockInit PROVE LocksAreTaken
  OBVIOUS
<1> USE DEF LockInit
<1>1. <<>> \in Seq(Op) /\ <<>> \in Seq(Lock) /\ RunsTo(<<>>, <<>>, <<>>) /\ LocksOf(<<>>) = {}
  BY EmptySeq, NothingHeld, NothingGoes
<1>2. PICK none : none = <<>>
  OBVIOUS
<1>3. none \in Seq(Op) /\ none \in Seq(Lock) /\ RunsTo(none, none, <<>>) /\ LocksOf(none) = {}
  BY <1>1, <1>2
<1>4. rest = [t \in team |-> none] /\ held = [t \in team |-> none]
  BY <1>2
<1> QED
  BY <1>3, <1>4 DEF LocksAreTaken

LEMMA LocksTakenNext ==
  ASSUME LocksAreTaken, [LockNext]_orderVars
  PROVE  LocksAreTaken'
<1>1. CASE UNCHANGED orderVars
  BY <1>1 DEF LocksAreTaken, orderVars
<1>2. CASE LockNext
  <2>1. PICK t \in team : Begin(t) \/ Enter(t) \/ TryFails(t) \/ Leave(t) \/ BoxIsShown(t)
    BY <1>2 DEF LockNext
  <2> DEFINE h == held[t]
             p == rest[t]
             op == Head(p)
  <2>2. /\ h \in Seq(Lock) /\ p \in Seq(Op) /\ RunsTo(h, p, <<>>) /\ t \in Thread
        /\ \A u \in team \ {t} : LocksOf(h) \cap LocksOf(held[u]) = {}
        /\ rest = [rest EXCEPT ![t] = p] /\ held = [held EXCEPT ![t] = h]
    BY LockAssumption DEF LocksAreTaken
  <2>3. p # <<>> =>
          /\ op.does \in {"lock", "try"} => op.lock \in Lock /\ RunsTo(Append(h, op.lock), Tail(p), <<>>)
          /\ op.does = "try" => RunsTo(h, SubSeq(p, 2 + op.skips, Len(p)), <<>>)
          /\ op.does = "free" => h # <<>> /\ RunsTo(SubSeq(h, 1, Len(h) - 1), Tail(p), <<>>)
          /\ op.does = "box" => RunsTo(h, Tail(p), <<>>)
    BY <2>2, GoesOn
  <2>4. CASE Begin(t)
    <3>1. PICK q \in Programs(t) : rest' = [rest EXCEPT ![t] = q]
      BY <2>4 DEF Begin
    <3>2. h = <<>>
      BY <2>2, <2>4, Ended DEF Begin, Idle
    <3>3. RunsTo(h, q, <<>>) /\ q \in Seq(Op)
      <4>1. Returns(<<>>, q)
        BY <2>2, ProgramsReturn
      <4>2. RunsTo(<<>>, q, <<>>)
        BY <4>1 DEF Returns
      <4> HIDE DEF h
      <4>3. RunsTo(h, q, <<>>)
        BY <3>2, <4>2
      <4> QED
        BY <4>3, GoesOn
    <3>4. team' = team /\ held' = held
      BY <2>4 DEF Begin
    <3> HIDE DEF h, p
    <3> QED
      BY <2>2, <3>1, <3>3, <3>4, OneThreadMoves
  <2>5. CASE Enter(t)
    <3> DEFINE l == op.lock
    <3>1. /\ p # <<>> /\ op.does \in {"lock", "try"} /\ FreeFor(t, l)
          /\ held' = [held EXCEPT ![t] = Append(h, l)] /\ rest' = [rest EXCEPT ![t] = Tail(p)] /\ team' = team
      BY <2>5 DEF Enter, Idle
    <3>2. l \in Lock /\ RunsTo(Append(h, l), Tail(p), <<>>)
      BY <2>3, <3>1
    <3>3. Append(h, l) \in Seq(Lock) /\ LocksOf(Append(h, l)) = LocksOf(h) \cup {l}
      BY <2>2, <3>2, LocksOfAppend
    <3>4. Tail(p) \in Seq(Op)
      BY <3>2, GoesOn
    <3>5. \A u \in team \ {t} : l \notin LocksOf(held[u])
      BY <3>1 DEF FreeFor, Owns, LocksOf
    <3>6. \A u \in team \ {t} : LocksOf(Append(h, l)) \cap LocksOf(held[u]) = {}
      BY <2>2, <3>3, <3>5
    <3> HIDE DEF h, p, l
    <3> QED
      BY <3>1, <3>2, <3>3, <3>4, <3>6, OneThreadMoves
  <2>6. CASE TryFails(t)
    <3> DEFINE q == SubSeq(p, 2 + op.skips, Len(p))
    <3>1. p # <<>> /\ op.does = "try" /\ rest' = [rest EXCEPT ![t] = q] /\ team' = team /\ held' = held
      BY <2>6 DEF TryFails, Idle
    <3>2. RunsTo(h, q, <<>>) /\ q \in Seq(Op)
      BY <2>3, <3>1, GoesOn
    <3> HIDE DEF h, p, q
    <3> QED
      BY <2>2, <3>1, <3>2, OneThreadMoves
  <2>7. CASE Leave(t)
    <3> DEFINE f == SubSeq(h, 1, Len(h) - 1)
    <3>1. /\ p # <<>> /\ op.does = "free"
          /\ held' = [held EXCEPT ![t] = f] /\ rest' = [rest EXCEPT ![t] = Tail(p)] /\ team' = team
      BY <2>7 DEF Leave, Idle
    <3>2. h # <<>> /\ RunsTo(f, Tail(p), <<>>) /\ f \in Seq(Lock) /\ Tail(p) \in Seq(Op)
      BY <2>3, <3>1, GoesOn
    <3>3. LocksOf(f) \subseteq LocksOf(h)
      BY <2>2, <3>2, LocksOfFront
    <3>4. \A u \in team \ {t} : LocksOf(f) \cap LocksOf(held[u]) = {}
      BY <2>2, <3>3
    <3> HIDE DEF h, p, f
    <3> QED
      BY <3>1, <3>2, <3>4, OneThreadMoves
  <2>8. CASE BoxIsShown(t)
    <3>1. p # <<>> /\ op.does = "box" /\ rest' = [rest EXCEPT ![t] = Tail(p)] /\ team' = team /\ held' = held
      BY <2>8 DEF BoxIsShown, Idle
    <3>2. RunsTo(h, Tail(p), <<>>) /\ Tail(p) \in Seq(Op)
      BY <2>3, <3>1, GoesOn
    <3> HIDE DEF h, p
    <3> QED
      BY <2>2, <3>1, <3>2, OneThreadMoves
  <2> QED
    BY <2>1, <2>4, <2>5, <2>6, <2>7, <2>8
<1> QED
  BY <1>1, <1>2

-----------------------------------------------------------------------------
\* A circle without the interface has no place: who waits for a gated lock, or has one and
\* waits, has cs_main, so only one thread does, and it waits for nobody; along the others the
\* rank of the lock waited for would rise for ever.
LEMMA NoCircle == LocksAreTaken => LocksAreOrdered
<1> SUFFICES ASSUME LocksAreTaken, NEW S \in SUBSET team, Circle(S), \A t \in S : ~AtBox(t)
             PROVE  FALSE
  BY DEF LocksAreOrdered
<1> DEFINE L(t) == Head(rest[t]).lock
           R(t) == LocksOf(held[t])
<1>1. ASSUME NEW t \in S
      PROVE  /\ L(t) \in Lock /\ InOrder(held[t], L(t))
             /\ \E u \in S : u # t /\ L(t) \in R(u)
  <2>1. t \in team /\ WaitsFor(t) \cap S # {}
    BY DEF Circle
  <2>2. rest[t] # <<>> /\ Head(rest[t]).does = "lock"
        /\ WaitsFor(t) = {u \in team \ {t} : Owns(u, Head(rest[t]).lock)}
    <3>1. ~Idle(t)
      BY <2>1 DEF WaitsFor
    <3>2. Head(rest[t]).does # "box"
      BY <3>1 DEF AtBox
    <3>3. Head(rest[t]).does = "lock"
      BY <2>1, <3>1, <3>2 DEF WaitsFor
    <3>4. WaitsFor(t) = {u \in team \ {t} : Owns(u, Head(rest[t]).lock)}
      BY <3>1, <3>3 DEF WaitsFor
    <3> QED
      BY <3>1, <3>3, <3>4 DEF Idle
  <2>3. RunsTo(held[t], rest[t], <<>>)
    BY <2>1 DEF LocksAreTaken
  <2>4. L(t) \in Lock /\ InOrder(held[t], L(t))
    BY <2>2, <2>3, GoesOn
  <2>5. PICK u \in S : u # t /\ Owns(u, Head(rest[t]).lock)
    BY <2>1, <2>2
  <2>6. L(t) \in R(u)
    BY <2>5 DEF Owns, LocksOf
  <2> QED
    BY <2>4, <2>5, <2>6
<1>2. ASSUME NEW t \in S, NEW u \in S, t # u PROVE R(t) \cap R(u) = {}
  BY <1>2 DEF LocksAreTaken
<1>3. ASSUME NEW t \in S PROVE L(t) \notin R(t)
  BY <1>1, <1>2
<1>4. ASSUME NEW t \in S
      PROVE  /\ L(t) \in Gated \/ R(t) \cap Gated # {} => "main" \in R(t)
             /\ L(t) \notin Gated => \A k \in R(t) \ Gated : Rank[k] < Rank[L(t)]
  BY <1>1, <1>3 DEF InOrder
<1> HIDE DEF L, R
<1>5. ASSUME NEW t \in S PROVE L(t) \notin Gated
  <2> SUFFICES ASSUME L(t) \in Gated PROVE FALSE
    OBVIOUS
  <2>1. PICK u \in S : u # t /\ L(t) \in R(u)
    BY <1>1
  <2>2. "main" \in R(t) /\ "main" \in R(u)
    BY <1>4, <2>1
  <2> QED
    BY <1>2, <2>1, <2>2
<1> DEFINE T == {Rank[L(t)] : t \in S}
<1>6. T \subseteq 0 .. 5
  <2>1. \A l \in Lock : Rank[l] \in 0 .. 5
    BY RankIs DEF Lock
  <2> QED
    BY <2>1, <1>1
<1>7. ASSUME NEW x \in T PROVE \E y \in T : x < y
  <2>1. PICK t \in S : x = Rank[L(t)]
    OBVIOUS
  <2>2. PICK u \in S : u # t /\ L(t) \in R(u)
    BY <1>1
  <2>3. x < Rank[L(u)]
    BY <1>4, <1>5, <2>1, <2>2
  <2> QED
    BY <2>3
<1> HIDE DEF T
<1>8. 5 \notin T
  BY <1>6, <1>7
<1>9. 4 \notin T
  BY <1>6, <1>7, <1>8
<1>10. 3 \notin T
  BY <1>6, <1>7, <1>8, <1>9
<1>11. 2 \notin T
  BY <1>6, <1>7, <1>8, <1>9, <1>10
<1>12. 1 \notin T
  BY <1>6, <1>7, <1>8, <1>9, <1>10, <1>11
<1>13. T = {}
  BY <1>6, <1>7, <1>8, <1>9, <1>10, <1>11, <1>12
<1> QED
  BY <1>13 DEF Circle, T

\* Whatever threads run together, in whatever handlers they are: no set of them waits for each
\* other unless one of it waits for the interface (sync.h, main.cpp, net.cpp, wallet.cpp).
THEOREM LocksStayOrdered == LockSpec => []LocksAreOrdered
<1>1. LockInit => LocksAreTaken
  BY LocksTakenInit
<1>2. LocksAreTaken /\ [LockNext]_orderVars => LocksAreTaken'
  BY LocksTakenNext
<1>3. LocksAreTaken => LocksAreOrdered
  BY NoCircle
<1> QED
  BY <1>1, <1>2, <1>3, PTL DEF LockSpec

-----------------------------------------------------------------------------
(***************************************************************************)
(* The JSON-RPC server.  A connection is one by one what the loop of       *)
(* ThreadRPCServer3 has made of its requests, so that most of its          *)
(* invariant (ServedRight) speaks of one connection.                       *)
(***************************************************************************)
Results == {<<>>} \cup {r.calls : r \in Requests} \cup {<<r.calls[1]>> : r \in Requests}
Answer == [status : Nat, keepalive : BOOLEAN, results : Results]
Execution == [request : Nat, calls : {Executed(r) : r \in Requests}]

RpcTypes ==
    /\ fStopping \in BOOLEAN
    /\ conns \in [Caller -> {"none", "backlog", "serving", "deleted"}]
    /\ nDeleted \in [Caller -> Nat] /\ nRpcHandler \in Nat
    /\ fRun \in [Caller -> BOOLEAN]
    /\ sentReqs \in [Caller -> Seq(Requests)] /\ nServed \in [Caller -> Nat]
    /\ rpcReplies \in [Caller -> Seq(Answer)]
    /\ executed \in [Caller -> Seq(Execution)]

\* The connection of c is deleted once, and no caller from elsewhere is served.
CountedRight(c) ==
    /\ nDeleted[c] = IF conns[c] = "deleted" THEN 1 ELSE 0
    /\ conns[c] = "serving" => c \in AllowedCallers

\* Every answer but the last one promises to go on; the last does while the loop goes on.
PromisedRight(c) ==
    /\ conns[c] \in {"none", "backlog"} => rpcReplies[c] = <<>> /\ fRun[c]
    /\ \A i \in 1 .. Len(rpcReplies[c]) - 1 : rpcReplies[c][i].keepalive
    /\ rpcReplies[c] # <<>> =>
        LET goesOn == rpcReplies[c][Len(rpcReplies[c])].keepalive IN
        /\ conns[c] = "serving" => fRun[c] = goesOn
        /\ conns[c] = "deleted" /\ goesOn => fStopping \/ c \in hungUp
    /\ conns[c] = "serving" /\ rpcReplies[c] = <<>> => fRun[c]

\* The answers of c are to what it sent, in order.
RepliesFit(c) ==
    /\ Len(rpcReplies[c]) = nServed[c] /\ nServed[c] <= Len(sentReqs[c])
    /\ \A i \in 1 .. nServed[c] : rpcReplies[c][i].status = 200 =>
         Authorized(sentReqs[c][i]) /\ rpcReplies[c][i].results = sentReqs[c][i].calls

\* What x ran of the requests of c is what one that was taken called.
ExecutionFits(c, x) ==
    /\ x.request \in 1 .. nServed[c] /\ Authorized(sentReqs[c][x.request])
    /\ x.calls = Executed(sentReqs[c][x.request])

ExecutedFit(c) ==
    /\ \A i \in 1 .. Len(executed[c]) : ExecutionFits(c, executed[c][i])
    /\ \A i, j \in 1 .. Len(executed[c]) : i < j => executed[c][i].request < executed[c][j].request

AnsweredRight(c) == c \in AllowedCallers => RepliesFit(c) /\ ExecutedFit(c)

ServedRight(c) == CountedRight(c) /\ PromisedRight(c) /\ AnsweredRight(c)

InService == {c \in Caller : conns[c] = "serving"}
HandlersCounted == IsFiniteSet(InService) /\ nRpcHandler = Cardinality(InService)

RpcInv ==
    /\ RpcTypes /\ HandlersCounted /\ StillListening
    /\ \A c \in Caller : ServedRight(c)

\* What the properties say follows.
LEMMA RpcInvIsRight == RpcInv => RpcServerIsRight
<1> SUFFICES ASSUME RpcInv PROVE RpcServerIsRight
  OBVIOUS
<1>1. KeepAliveIsKept
  <2>1. ASSUME NEW c \in Caller
        PROVE  /\ conns[c] = "deleted" /\ rpcReplies[c] # <<>> /\ ~fStopping /\ c \notin hungUp
                  => ~Last(rpcReplies[c]).keepalive
               /\ \A i \in 1 .. Len(rpcReplies[c]) - 1 : rpcReplies[c][i].keepalive
    <3>1. PromisedRight(c)
      BY DEF RpcInv, ServedRight
    <3> QED
      BY <3>1 DEF PromisedRight, Last
  <2> QED
    BY <2>1 DEF KeepAliveIsKept
<1>2. AnswersMatch
  <2>1. SUFFICES ASSUME NEW c \in AllowedCallers, c \in Caller
                 PROVE  /\ Len(rpcReplies[c]) = nServed[c]
                        /\ \A i \in DOMAIN rpcReplies[c] : rpcReplies[c][i].status = 200 =>
                             Authorized(sentReqs[c][i]) /\ rpcReplies[c][i].results = sentReqs[c][i].calls
                        /\ \A i, j \in DOMAIN executed[c] : i < j => executed[c][i].request < executed[c][j].request
                        /\ \A i \in DOMAIN executed[c] : LET r == executed[c][i].request IN
                             /\ r \in DOMAIN rpcReplies[c] /\ Authorized(sentReqs[c][r])
                             /\ executed[c][i].calls = Executed(sentReqs[c][r])
    BY RpcAssumption DEF AnswersMatch
  <2>2. AnsweredRight(c) /\ rpcReplies[c] \in Seq(Answer) /\ executed[c] \in Seq(Execution)
    BY <2>1 DEF RpcInv, RpcTypes, ServedRight
  <2>3. RepliesFit(c) /\ ExecutedFit(c)
    BY <2>1, <2>2 DEF AnsweredRight
  <2>4. DOMAIN rpcReplies[c] = 1 .. nServed[c] /\ DOMAIN executed[c] = 1 .. Len(executed[c])
    BY <2>2, <2>3 DEF RepliesFit
  <2>5. ASSUME NEW i \in DOMAIN executed[c] PROVE ExecutionFits(c, executed[c][i])
    BY <2>3, <2>4 DEF ExecutedFit
  <2>6. \A i, j \in DOMAIN executed[c] : i < j => executed[c][i].request < executed[c][j].request
    BY <2>3, <2>4 DEF ExecutedFit
  <2>7. /\ Len(rpcReplies[c]) = nServed[c]
        /\ \A i \in DOMAIN rpcReplies[c] : rpcReplies[c][i].status = 200 =>
             Authorized(sentReqs[c][i]) /\ rpcReplies[c][i].results = sentReqs[c][i].calls
    BY <2>3, <2>4 DEF RepliesFit
  <2>8. \A i \in DOMAIN executed[c] : LET r == executed[c][i].request IN
             /\ r \in DOMAIN rpcReplies[c] /\ Authorized(sentReqs[c][r])
             /\ executed[c][i].calls = Executed(sentReqs[c][r])
    BY <2>4, <2>5 DEF ExecutionFits
  <2> QED
    BY <2>6, <2>7, <2>8
<1>3. ConnectionsAreFreed
  BY DEF RpcInv, ServedRight, CountedRight, HandlersCounted, InService, ConnectionsAreFreed
<1> QED
  BY <1>1, <1>2, <1>3 DEF RpcInv, RpcServerIsRight

LEMMA RpcInvInit == RpcInit => RpcInv
<1> SUFFICES ASSUME RpcInit PROVE RpcInv
  OBVIOUS
<1>1. RpcTypes
  <2>1. <<>> \in Seq(Requests) /\ <<>> \in Seq(Answer) /\ <<>> \in Seq(Execution)
    OBVIOUS
  <2> QED
    BY <2>1 DEF RpcInit, RpcTypes
<1>2. InService = {}
  BY DEF RpcInit, InService
<1>3. HandlersCounted
  BY <1>2, FS_EmptySet DEF RpcInit, HandlersCounted
<1>4. ASSUME NEW c \in Caller PROVE ServedRight(c)
  BY DEF RpcInit, ServedRight, CountedRight, PromisedRight, AnsweredRight, RepliesFit, ExecutedFit
<1> QED
  BY <1>1, <1>3, <1>4 DEF RpcInv, RpcInit, StillListening

-----------------------------------------------------------------------------
\* What was answered stays right while no more is sent or answered.
LEMMA AnswersStay ==
  ASSUME NEW c \in Caller, AnsweredRight(c), sentReqs'[c] = sentReqs[c], nServed'[c] = nServed[c],
         rpcReplies'[c] = rpcReplies[c], executed'[c] = executed[c]
  PROVE  AnsweredRight(c)'
<1>1. RepliesFit(c)' <=> RepliesFit(c)
  BY DEF RepliesFit
<1>2. ExecutedFit(c)' <=> ExecutedFit(c)
  BY DEF ExecutedFit, ExecutionFits
<1> QED
  BY <1>1, <1>2 DEF AnsweredRight

\* A connection nothing happens to keeps what it has.
LEMMA ServedStays ==
  ASSUME NEW c \in Caller, ServedRight(c),
         nDeleted'[c] = nDeleted[c], conns'[c] = conns[c], fRun'[c] = fRun[c],
         sentReqs'[c] = sentReqs[c], nServed'[c] = nServed[c],
         rpcReplies'[c] = rpcReplies[c], executed'[c] = executed[c],
         fStopping => fStopping', hungUp \subseteq hungUp'
  PROVE  ServedRight(c)'
<1>1. CountedRight(c)'
  BY DEF ServedRight, CountedRight
<1>2. PromisedRight(c)'
  BY DEF ServedRight, PromisedRight
<1>3. AnsweredRight(c)'
  BY AnswersStay DEF ServedRight
<1> QED
  BY <1>1, <1>2, <1>3 DEF ServedRight

\* The same threads, the same count.
LEMMA HandlersStay ==
  ASSUME HandlersCounted, nRpcHandler' = nRpcHandler,
         \A c \in Caller : conns'[c] = "serving" <=> conns[c] = "serving"
  PROVE  HandlersCounted'
<1>1. InService' = InService
  BY DEF InService
<1> QED
  BY <1>1 DEF HandlersCounted

\* A thread that leaves its loop deletes its connection and counts itself out.
LEMMA LeavingIsCounted ==
  ASSUME NEW c \in Caller, RpcTypes, HandlersCounted, conns[c] = "serving", LeaveHandler(c)
  PROVE  HandlersCounted' /\ nRpcHandler' \in Nat
<1>1. InService' = InService \ {c}
  BY DEF RpcTypes, LeaveHandler, Delete, InService
<1>2. c \in InService
  BY DEF InService
<1>3. IsFiniteSet(InService') /\ Cardinality(InService') = Cardinality(InService) - 1
  BY <1>1, <1>2, FS_RemoveElement DEF HandlersCounted
<1>4. Cardinality(InService') \in Nat
  BY <1>3, FS_CardinalityType
<1> QED
  BY <1>3, <1>4 DEF HandlersCounted, LeaveHandler

LEMMA ConnectKeeps ==
  ASSUME RpcInv, NEW c \in Caller, CallerConnects(c)
  PROVE  RpcInv'
<1>1. RpcTypes'
  BY DEF RpcInv, RpcTypes, CallerConnects
<1>2. HandlersCounted'
  BY HandlersStay DEF RpcInv, RpcTypes, CallerConnects
<1>3. ASSUME NEW d \in Caller PROVE ServedRight(d)'
  <2>1. ServedRight(d)
    BY DEF RpcInv
  <2>2. CASE d = c
    <3>1. AnsweredRight(d)'
      BY <2>1, AnswersStay DEF CallerConnects, ServedRight
    <3> QED
      BY <2>1, <2>2, <3>1 DEF RpcInv, RpcTypes, CallerConnects, ServedRight, CountedRight, PromisedRight
  <2>3. CASE d # c
    BY <2>1, <2>3, ServedStays DEF RpcInv, RpcTypes, CallerConnects
  <2> QED
    BY <2>2, <2>3
<1> QED
  BY <1>1, <1>2, <1>3 DEF RpcInv, StillListening, CallerConnects

LEMMA SendRequestKeeps ==
  ASSUME RpcInv, NEW c \in Caller, NEW r \in Requests, SendRequest(c, r)
  PROVE  RpcInv'
<1>1. RpcTypes'
  BY DEF RpcInv, RpcTypes, SendRequest
<1>2. HandlersCounted'
  BY HandlersStay DEF RpcInv, SendRequest
<1>3. ASSUME NEW d \in Caller PROVE ServedRight(d)'
  <2>1. ServedRight(d) /\ sentReqs[d] \in Seq(Requests) /\ nServed[d] \in Nat
    BY DEF RpcInv, RpcTypes
  <2>2. CASE d = c
    <3>1. sentReqs'[d] = Append(sentReqs[d], r)
      BY <2>2 DEF SendRequest, RpcInv, RpcTypes
    <3>2. /\ Len(sentReqs'[d]) = Len(sentReqs[d]) + 1
          /\ \A i \in 1 .. Len(sentReqs[d]) : sentReqs'[d][i] = sentReqs[d][i]
      BY <2>1, <3>1
    <3>3. UNCHANGED <<nServed, rpcReplies, executed>>
      BY DEF SendRequest
    <3>4. \A i \in 1 .. nServed[d] : RepliesFit(d) => sentReqs'[d][i] = sentReqs[d][i]
      BY <2>1, <3>2 DEF RepliesFit
    <3>5. RepliesFit(d) => RepliesFit(d)'
      BY <2>1, <3>2, <3>3, <3>4 DEF RepliesFit
    <3>6. ASSUME RepliesFit(d), NEW x, ExecutionFits(d, x) PROVE ExecutionFits(d, x)'
      BY <3>3, <3>4, <3>6 DEF ExecutionFits
    <3>7. RepliesFit(d) /\ ExecutedFit(d) => ExecutedFit(d)'
      BY <3>3, <3>6 DEF ExecutedFit
    <3>8. AnsweredRight(d)'
      BY <2>1, <3>5, <3>7 DEF ServedRight, AnsweredRight
    <3> QED
      BY <2>1, <3>8 DEF SendRequest, ServedRight, CountedRight, PromisedRight
  <2>3. CASE d # c
    BY <2>1, <2>3, ServedStays DEF RpcInv, RpcTypes, SendRequest
  <2> QED
    BY <2>2, <2>3
<1> QED
  BY <1>1, <1>2, <1>3 DEF RpcInv, StillListening, SendRequest

\* What happens to no connection: a caller hangs up, the node stops, the listener closes.
LEMMA OthersKeep ==
  ASSUME RpcInv,
         \/ \E c \in Caller : HangUp(c)
         \/ StartStopping \/ StopListening \/ UNCHANGED rpcVars
  PROVE  RpcInv'
<1>1. /\ UNCHANGED <<conns, nDeleted, nRpcHandler, fRun, sentReqs, nServed, rpcReplies, executed>>
      /\ (fStopping => fStopping') /\ fStopping' \in BOOLEAN /\ hungUp \subseteq hungUp'
      /\ ~fStopping' => acceptor' = "waiting"
  BY DEF RpcInv, RpcTypes, StillListening, HangUp, StartStopping, StopListening, rpcVars
<1>2. HandlersCounted'
  BY <1>1, HandlersStay DEF RpcInv
<1>3. ASSUME NEW d \in Caller PROVE ServedRight(d)'
  <2>1. ServedRight(d)
    BY DEF RpcInv
  <2> QED
    BY <1>1, <2>1, ServedStays
<1>4. RpcTypes'
  BY <1>1 DEF RpcInv, RpcTypes
<1> QED
  BY <1>1, <1>2, <1>3, <1>4 DEF RpcInv, StillListening

LEMMA AcceptKeeps ==
  ASSUME RpcInv, NEW c \in Caller, NEW failed \in BOOLEAN, RPCAcceptHandler(c, failed)
  PROVE  RpcInv'
<1>0. /\ conns[c] = "backlog" /\ acceptor' = "waiting" /\ ServedRight(c) /\ rpcReplies[c] = <<>> /\ fRun[c]
      /\ UNCHANGED <<fStopping, fRun, sentReqs, nServed, executed, hungUp>>
  BY DEF RPCAcceptHandler, RelistensAfter, RpcInv, ServedRight, PromisedRight
<1>1. CASE failed /\ Delete(c) /\ UNCHANGED <<nRpcHandler, rpcReplies>>
  <2>1. RpcTypes'
    BY <1>0, <1>1 DEF RpcInv, RpcTypes, Delete
  <2>2. HandlersCounted'
    BY <1>0, <1>1, HandlersStay DEF RpcInv, RpcTypes, Delete
  <2>3. ServedRight(c)'
    <3>1. AnsweredRight(c)'
      BY <1>0, <1>1, AnswersStay DEF ServedRight
    <3> QED
      BY <1>0, <1>1, <3>1 DEF RpcInv, RpcTypes, Delete, ServedRight, CountedRight, PromisedRight
  <2>4. ASSUME NEW d \in Caller \ {c} PROVE ServedRight(d)'
    BY <1>0, <1>1, ServedStays DEF RpcInv, RpcTypes, Delete
  <2> QED
    BY <1>0, <2>1, <2>2, <2>3, <2>4 DEF RpcInv, StillListening
<1>2. CASE /\ c \notin AllowedCallers /\ Delete(c) /\ UNCHANGED nRpcHandler
           /\ rpcReplies' = [rpcReplies EXCEPT ![c] = <<Refusal>>]
  <2>0. Refusal \in Answer
    BY DEF Refusal, Answer, Results
  <2>1. RpcTypes'
    BY <1>0, <1>2, <2>0 DEF RpcInv, RpcTypes, Delete
  <2>2. HandlersCounted'
    BY <1>0, <1>2, HandlersStay DEF RpcInv, RpcTypes, Delete
  <2>3. rpcReplies'[c] = <<Refusal>> /\ conns'[c] = "deleted" /\ nDeleted'[c] = nDeleted[c] + 1
    BY <1>2 DEF RpcInv, RpcTypes, Delete
  <2>4. ServedRight(c)'
    BY <1>0, <1>2, <2>3 DEF Refusal, ServedRight, CountedRight, PromisedRight, AnsweredRight, RepliesFit, ExecutedFit
  <2>5. ASSUME NEW d \in Caller \ {c} PROVE ServedRight(d)'
    BY <1>0, <1>2, ServedStays DEF RpcInv, RpcTypes, Delete
  <2> QED
    BY <1>0, <2>1, <2>2, <2>4, <2>5 DEF RpcInv, StillListening
<1>3. CASE /\ c \in AllowedCallers /\ conns' = [conns EXCEPT ![c] = "serving"]
           /\ nRpcHandler' = nRpcHandler + 1 /\ UNCHANGED <<nDeleted, rpcReplies>>
  <2>1. RpcTypes'
    BY <1>0, <1>3 DEF RpcInv, RpcTypes
  <2>2. InService' = InService \cup {c} /\ c \notin InService
    BY <1>0, <1>3 DEF RpcInv, RpcTypes, InService
  <2>3. HandlersCounted'
    BY <1>3, <2>2, FS_AddElement DEF RpcInv, HandlersCounted
  <2>4. ServedRight(c)'
    <3>1. AnsweredRight(c)'
      BY <1>0, <1>3, AnswersStay DEF ServedRight
    <3> QED
      BY <1>0, <1>3, <3>1 DEF RpcInv, RpcTypes, ServedRight, CountedRight, PromisedRight
  <2>5. ASSUME NEW d \in Caller \ {c} PROVE ServedRight(d)'
    BY <1>0, <1>3, ServedStays DEF RpcInv, RpcTypes
  <2> QED
    BY <1>0, <2>1, <2>3, <2>4, <2>5 DEF RpcInv, StillListening
<1> QED
  BY <1>1, <1>2, <1>3 DEF RPCAcceptHandler

LEMMA LeaveKeeps ==
  ASSUME RpcInv, NEW c \in Caller, LeavesAtHead(c) \/ ServeNothing(c)
  PROVE  RpcInv'
<1>1. /\ conns[c] = "serving" /\ LeaveHandler(c) /\ (fStopping \/ ~fRun[c] \/ c \in hungUp)
      /\ UNCHANGED <<fStopping, acceptor, fRun, sentReqs, nServed, rpcReplies, executed, hungUp>>
  BY DEF LeavesAtHead, ServeNothing
<1>2. HandlersCounted' /\ nRpcHandler' \in Nat
  BY <1>1, LeavingIsCounted DEF RpcInv
<1>3. RpcTypes'
  BY <1>1, <1>2 DEF RpcInv, RpcTypes, LeaveHandler, Delete
<1>4. ServedRight(c)'
  <2>1. /\ conns'[c] = "deleted" /\ nDeleted'[c] = nDeleted[c] + 1 /\ ServedRight(c)
    BY <1>1 DEF RpcInv, RpcTypes, LeaveHandler, Delete
  <2>2. CountedRight(c)'
    BY <1>1, <2>1 DEF ServedRight, CountedRight
  <2>3. PromisedRight(c)'
    BY <1>1, <2>1 DEF ServedRight, PromisedRight
  <2>4. AnsweredRight(c)'
    BY <1>1, <2>1, AnswersStay DEF ServedRight
  <2> QED
    BY <2>2, <2>3, <2>4 DEF ServedRight
<1>5. ASSUME NEW d \in Caller \ {c} PROVE ServedRight(d)'
  BY <1>1, ServedStays DEF RpcInv, RpcTypes, LeaveHandler, Delete
<1> QED
  BY <1>1, <1>2, <1>3, <1>4, <1>5 DEF RpcInv, StillListening

\* An answer that is a success says whether the connection goes on, any other ends it; a success
\* has the results of all calls of an authorized request.
LEMMA AnswerIs ==
  ASSUME NEW r \in Requests, NEW a, a = IF Authorized(r) THEN AnswerTo(r) ELSE Unauthorized
  PROVE  /\ a \in Answer
         /\ GoesOnAfter(a) => a.keepalive = KeepsAlive(r)
         /\ ~GoesOnAfter(a) => ~a.keepalive
         /\ a.status = 200 => Authorized(r) /\ a.results = r.calls
<1>1. KeepsAlive(r) \in BOOLEAN
  <2>1. (r.proto >= 1) \in BOOLEAN /\ (r.connection = "keep-alive") \in BOOLEAN
    BY RpcAssumption
  <2> QED
    BY <2>1, Zenon DEF KeepsAlive
<1>2. StatusOf(r.calls[1]) \in {404, 400, 500}
  BY DEF StatusOf
<1>3. r.calls \in Results /\ <<r.calls[1]>> \in Results /\ <<>> \in Results
  BY DEF Results
<1>4. CASE ~Authorized(r)
  BY <1>3, <1>4 DEF Unauthorized, Answer, GoesOnAfter
<1>5. CASE Authorized(r) /\ r.calls = <<>>
  BY <1>3, <1>5 DEF AnswerTo, Answer, GoesOnAfter
<1> DEFINE q == r.calls[1]
           failed == Len(r.calls) = 1 /\ (~Runs(q) \/ q = "fails")
<1>6. CASE Authorized(r) /\ r.calls # <<>> /\ failed
  <2>1. a = [status |-> StatusOf(q), keepalive |-> FALSE, results |-> <<q>>]
    BY <1>6 DEF AnswerTo
  <2> QED
    <3>1. a.status = StatusOf(q) /\ ~a.keepalive /\ a.status \in Nat /\ a.status # 200
      BY <1>2, <2>1
    <3>2. a \in Answer
      <4>1. StatusOf(q) \in Nat /\ <<q>> \in Results /\ FALSE \in BOOLEAN
        BY <1>2, <1>3
      <4> HIDE DEF q
      <4>2. \A st \in Nat, re \in Results :
              [status |-> st, keepalive |-> FALSE, results |-> re] \in Answer
        BY DEF Answer
      <4> QED
        BY <2>1, <4>1, <4>2
    <3> QED
      BY <3>1, <3>2 DEF GoesOnAfter
<1>7. CASE Authorized(r) /\ r.calls # <<>> /\ ~failed
  <2>1. a = [status |-> 200, keepalive |-> KeepsAlive(r), results |-> r.calls]
    BY <1>7 DEF AnswerTo
  <2> QED
    BY <1>1, <1>3, <1>7, <2>1 DEF Answer, GoesOnAfter
<1> QED
  BY <1>4, <1>5, <1>6, <1>7

LEMMA ServeKeeps ==
  ASSUME RpcInv, NEW c \in Caller, Serve(c)
  PROVE  RpcInv'
<1>1. PICK n, r, a, x :
      /\ n = nServed[c] + 1 /\ r = sentReqs[c][n]
      /\ a = IF Authorized(r) THEN AnswerTo(r) ELSE Unauthorized
      /\ x = [request |-> n, calls |-> Executed(r)]
      /\ conns[c] = "serving" /\ fRun[c] /\ nServed[c] < Len(sentReqs[c])
      /\ nServed' = [nServed EXCEPT ![c] = n]
      /\ rpcReplies' = [rpcReplies EXCEPT ![c] = Append(@, a)]
      /\ executed' = IF ~Authorized(r) THEN executed ELSE [executed EXCEPT ![c] = Append(@, x)]
      /\ IF GoesOnAfter(a)
         THEN /\ fRun' = [fRun EXCEPT ![c] = KeepsAlive(r)]
              /\ UNCHANGED <<conns, nDeleted, nRpcHandler>>
         ELSE LeaveHandler(c) /\ UNCHANGED fRun
      /\ UNCHANGED <<fStopping, acceptor, sentReqs, hungUp>>
  BY DEF Serve
<1>2. /\ nServed[c] \in Nat /\ sentReqs[c] \in Seq(Requests) /\ rpcReplies[c] \in Seq(Answer)
      /\ executed[c] \in Seq(Execution) /\ ServedRight(c) /\ c \in AllowedCallers
  BY <1>1 DEF RpcInv, RpcTypes, ServedRight, CountedRight
<1>3. n \in 1 .. Len(sentReqs[c]) /\ r \in Requests
  BY <1>1, <1>2
<1>4. /\ a \in Answer
      /\ GoesOnAfter(a) => a.keepalive = KeepsAlive(r)
      /\ ~GoesOnAfter(a) => ~a.keepalive
      /\ a.status = 200 => Authorized(r) /\ a.results = r.calls
  BY <1>1, <1>3, AnswerIs
<1>5. x \in Execution
  BY <1>1, <1>2, <1>3 DEF Execution
<1>6. a.keepalive \in BOOLEAN
  BY <1>4 DEF Answer
<1>7. HandlersCounted' /\ nRpcHandler' \in Nat
  <2>1. CASE GoesOnAfter(a)
    BY <1>1, <2>1, HandlersStay DEF RpcInv, RpcTypes
  <2>2. CASE ~GoesOnAfter(a)
    BY <1>1, <2>2, LeavingIsCounted DEF RpcInv
  <2> QED
    BY <2>1, <2>2
<1>8. /\ nServed'[c] = n /\ n = nServed[c] + 1 /\ sentReqs'[c] = sentReqs[c] /\ r = sentReqs[c][n]
      /\ rpcReplies'[c] = Append(rpcReplies[c], a)
      /\ executed'[c] = IF ~Authorized(r) THEN executed[c] ELSE Append(executed[c], x)
      /\ IF GoesOnAfter(a) THEN fRun'[c] = a.keepalive /\ conns'[c] = "serving" /\ nDeleted'[c] = nDeleted[c]
         ELSE conns'[c] = "deleted" /\ nDeleted'[c] = nDeleted[c] + 1
  BY <1>1, <1>4 DEF RpcInv, RpcTypes, LeaveHandler, Delete
<1>9. RpcTypes'
  <2>1. conns' \in [Caller -> {"none", "backlog", "serving", "deleted"}] /\ nDeleted' \in [Caller -> Nat]
        /\ fRun' \in [Caller -> BOOLEAN]
    <3>1. CASE GoesOnAfter(a)
      BY <1>1, <1>4, <1>6, <3>1 DEF RpcInv, RpcTypes
    <3>2. CASE ~GoesOnAfter(a)
      <4>1. /\ conns' = [conns EXCEPT ![c] = "deleted"] /\ nDeleted' = [nDeleted EXCEPT ![c] = @ + 1]
            /\ fRun' = fRun
        BY <1>1, <3>2 DEF LeaveHandler, Delete
      <4> QED
        BY <4>1 DEF RpcInv, RpcTypes
    <3> QED
      BY <3>1, <3>2
  <2>2. nServed' \in [Caller -> Nat]
    BY <1>1, <1>3 DEF RpcInv, RpcTypes
  <2>3. rpcReplies' \in [Caller -> Seq(Answer)]
    BY <1>1, <1>4 DEF RpcInv, RpcTypes
  <2>4. executed' \in [Caller -> Seq(Execution)]
    BY <1>1, <1>5 DEF RpcInv, RpcTypes
  <2> QED
    BY <1>1, <1>7, <2>1, <2>2, <2>3, <2>4 DEF RpcInv, RpcTypes
<1>10. CountedRight(c)'
  BY <1>1, <1>2, <1>8 DEF ServedRight, CountedRight
<1>11. /\ Len(rpcReplies[c]) = nServed[c]
       /\ \A i \in 1 .. nServed[c] : rpcReplies'[c][i] = rpcReplies[c][i]
       /\ rpcReplies'[c][n] = a /\ Len(rpcReplies'[c]) = n
  BY <1>2, <1>8 DEF ServedRight, AnsweredRight, RepliesFit
<1>12. PromisedRight(c)'
  <2>1. ASSUME NEW i \in 1 .. nServed[c] PROVE rpcReplies[c][i].keepalive
    <3>1. CASE i = nServed[c]
      <4>1. rpcReplies[c] # <<>> /\ Len(rpcReplies[c]) = i
        BY <1>2, <1>11, <3>1
      <4> QED
        BY <1>1, <1>2, <4>1 DEF ServedRight, PromisedRight
    <3>2. CASE i # nServed[c]
      <4>1. i \in 1 .. Len(rpcReplies[c]) - 1
        BY <1>2, <1>11, <3>2
      <4> QED
        BY <1>2, <4>1 DEF ServedRight, PromisedRight
    <3> QED
      BY <3>1, <3>2
  <2>2. \A i \in 1 .. Len(rpcReplies'[c]) - 1 : rpcReplies'[c][i].keepalive
    BY <1>2, <1>8, <1>11, <2>1
  <2>3. rpcReplies'[c] # <<>>
    BY <1>2, <1>4, <1>8
  <2> QED
    BY <1>4, <1>6, <1>8, <1>11, <2>2, <2>3 DEF PromisedRight
<1>13. AnsweredRight(c)'
  <2>0. RepliesFit(c) /\ ExecutedFit(c)
    BY <1>2 DEF ServedRight, AnsweredRight
  <2>1. RepliesFit(c)'
    <3>1. ASSUME NEW i \in 1 .. n, rpcReplies'[c][i].status = 200
          PROVE  Authorized(sentReqs[c][i]) /\ rpcReplies'[c][i].results = sentReqs[c][i].calls
      <4>1. CASE i = n
        BY <1>4, <1>8, <1>11, <3>1, <4>1
      <4>2. CASE i # n
        <5>1. i \in 1 .. nServed[c]
          BY <1>2, <1>8, <4>2
        <5> QED
          BY <1>11, <2>0, <3>1, <5>1 DEF RepliesFit
      <4> QED
        BY <4>1, <4>2
    <3> QED
      BY <1>1, <1>3, <1>8, <1>11, <3>1 DEF RepliesFit
  <2>2. ASSUME NEW y, ExecutionFits(c, y) PROVE ExecutionFits(c, y)' /\ y.request < n
    BY <1>2, <1>8, <2>2 DEF ExecutionFits
  <2>3. CASE ~Authorized(r)
    BY <1>8, <2>0, <2>1, <2>2, <2>3 DEF AnsweredRight, ExecutedFit
  <2>4. CASE Authorized(r)
    <3> DEFINE m == Len(executed[c])
    <3>1. /\ Len(executed'[c]) = m + 1 /\ m \in Nat /\ executed'[c][m + 1] = x
          /\ \A i \in 1 .. m : executed'[c][i] = executed[c][i]
      BY <1>2, <1>5, <1>8, <2>4
    <3>2. x.request = n /\ ExecutionFits(c, x)'
      BY <1>1, <1>2, <1>8, <2>4 DEF ExecutionFits
    <3>3. ASSUME NEW i \in 1 .. m PROVE ExecutionFits(c, executed[c][i])
      BY <2>0 DEF ExecutedFit
    <3> HIDE DEF m
    <3>4. ASSUME NEW i \in 1 .. m + 1 PROVE ExecutionFits(c, executed[c][i])'
      <4>1. CASE i = m + 1
        BY <3>1, <3>2, <4>1 DEF ExecutionFits
      <4>2. CASE i # m + 1
        <5>1. i \in 1 .. m
          BY <3>1, <4>2
        <5>2. ExecutionFits(c, executed[c][i]) /\ executed'[c][i] = executed[c][i]
          BY <3>1, <3>3, <5>1
        <5> QED
          BY <2>2, <5>2 DEF ExecutionFits
      <4> QED
        BY <4>1, <4>2
    <3>5. ASSUME NEW i \in 1 .. m + 1, NEW j \in 1 .. m + 1, i < j
          PROVE  executed'[c][i].request < executed'[c][j].request
      <4>1. i \in 1 .. m
        BY <3>1, <3>5
      <4>2. CASE j = m + 1
        BY <2>2, <3>1, <3>2, <3>3, <4>1, <4>2
      <4>3. CASE j # m + 1
        <5>1. j \in 1 .. m
          BY <3>1, <4>3
        <5>2. executed[c][i].request < executed[c][j].request
          BY <2>0, <3>5, <4>1, <5>1 DEF ExecutedFit, m
        <5> QED
          BY <3>1, <4>1, <5>1, <5>2
      <4> QED
        BY <4>2, <4>3
    <3>6. ExecutedFit(c)'
      <4>1. \A i \in 1 .. Len(executed'[c]) : ExecutionFits(c, executed[c][i])'
        BY <3>1, <3>4
      <4>2. \A i, j \in 1 .. Len(executed'[c]) : i < j => executed'[c][i].request < executed'[c][j].request
        BY <3>1, <3>5
      <4> QED
        BY <4>1, <4>2 DEF ExecutedFit
    <3> QED
      BY <2>1, <3>6 DEF AnsweredRight
  <2> QED
    BY <2>3, <2>4
<1>14. ASSUME NEW d \in Caller \ {c} PROVE ServedRight(d)'
  <2>1. /\ ServedRight(d) /\ nServed'[d] = nServed[d] /\ rpcReplies'[d] = rpcReplies[d]
        /\ executed'[d] = executed[d] /\ fRun'[d] = fRun[d] /\ conns'[d] = conns[d]
        /\ nDeleted'[d] = nDeleted[d]
    BY <1>1 DEF RpcInv, RpcTypes, LeaveHandler, Delete
  <2> QED
    BY <1>1, <2>1, ServedStays
<1> QED
  BY <1>1, <1>7, <1>9, <1>10, <1>12, <1>13, <1>14 DEF RpcInv, ServedRight, StillListening

\* Whatever the callers send and when they hang up: answers keep their promise and fit their
\* requests, every connection is freed once, the listener goes on (bitcoinrpc.cpp).
THEOREM RpcServerStaysRight == RpcSpec => []RpcServerIsRight
<1>1. RpcInv /\ [RpcNext]_rpcVars => RpcInv'
  BY ConnectKeeps, SendRequestKeeps, OthersKeep, AcceptKeeps, LeaveKeeps, ServeKeeps DEF RpcNext
<1> QED
  BY <1>1, RpcInvInit, RpcInvIsRight, PTL DEF RpcSpec

-----------------------------------------------------------------------------
(***************************************************************************)
(* The work for miners.  As long as getworkex's pindexPrev stands, its     *)
(* blocks are on that parent and each root of mapNewBlock is that of its   *)
(* block with the script that is kept for it (RootIsKept); the jobs on     *)
(* this parent are in mapNewBlock, and those on an earlier one no longer   *)
(* matter, since pindexPrev never runs ahead of the best block.            *)
(***************************************************************************)
Script == {<<>>} \cup (Nat \X Nat)
Txs == {Pool[n] : n \in DOMAIN Pool}
Block == [hashPrevBlock : Nat, coinbase : Coinbases \cup {"own"}, scriptSig : Script, vtx : Txs]
Statics(P) == [pindexPrev : Nat, nTransactionsUpdatedLast : Nat, nStart : Nat, pblock : P]

WorkTypes ==
    /\ pindexBest \in Nat \ {0} /\ nTransactionsUpdated \in DOMAIN Pool /\ workTime \in Nat
    /\ ex \in Statics(Int) /\ vNewBlock \in Seq(Block)
    /\ nExtraNonce \in Nat
    /\ gbt \in Statics({<<>>} \cup {<<b>> : b \in Block})

\* The root is the one of block with the script that is kept for it, but for the coinbase when a
\* miner has replaced it.
RootOf(root, script, block) ==
    /\ script \in Script
    /\ \E coinbase : /\ root = <<coinbase, script, block.vtx>>
                     /\ block.coinbase = "own" => coinbase = "own"

RootIsKept(root, known, blocks) ==
    /\ known[root][1] \in 1 .. Len(blocks)
    /\ RootOf(root, known[root][2], blocks[known[root][1]])

BlocksOn(blocks, prev) == \A i \in 1 .. Len(blocks) : blocks[i].hashPrevBlock = prev
RootsAreKept(known, blocks) == \A root \in DOMAIN known : RootIsKept(root, known, blocks)

WorkIsKept ==
    /\ ex.pindexPrev <= pindexBest
    /\ ex.pblock \in {Deleted, Null} \cup 1 .. Len(vNewBlock)
    /\ BlocksOn(vNewBlock, ex.pindexPrev)
    /\ RootsAreKept(mapNewBlock, vNewBlock)
    /\ \A job \in jobs :
        /\ job.prev \in Nat /\ job.prev <= ex.pindexPrev
        /\ job.prev = ex.pindexPrev => job.root \in DOMAIN mapNewBlock

TemplateIsKept == gbt.pblock # <<>> => gbt.pblock[1].hashPrevBlock = gbt.pindexPrev

WorkInv == WorkTypes /\ WorkIsKept /\ TemplateIsKept /\ TemplateHasBlock /\ TemplatesAreRight

LEMMA WorkInvIsRight == WorkInv => WorkServerIsRight
<1> SUFFICES ASSUME WorkInv, NEW job \in jobs, job.prev = pindexBest
             PROVE  /\ job.root \in DOMAIN mapNewBlock
                    /\ LET block == Rebuilt(job.root, "none") IN
                       /\ block.hashPrevBlock = pindexBest
                       /\ block.coinbase = "own" => MerkleRoot(block) = job.root
  BY DEF WorkServerIsRight, WorkIsHonoured, WorkInv
<1>1. ex.pindexPrev = pindexBest /\ job.root \in DOMAIN mapNewBlock
  BY DEF WorkInv, WorkIsKept, WorkTypes, Statics
<1> DEFINE known == mapNewBlock[job.root]
           block == vNewBlock[known[1]]
<1>2. known[1] \in 1 .. Len(vNewBlock) /\ RootOf(job.root, known[2], block)
  BY <1>1 DEF WorkInv, WorkIsKept, RootsAreKept, RootIsKept
<1>3. block \in Block /\ block.hashPrevBlock = pindexBest
  BY <1>1, <1>2 DEF WorkInv, WorkIsKept, WorkTypes, BlocksOn
<1>4. Rebuilt(job.root, "none") = [block EXCEPT !.scriptSig = known[2]]
  BY DEF Rebuilt
<1> HIDE DEF known, block
<1>5. block.coinbase = "own" => MerkleRoot([block EXCEPT !.scriptSig = known[2]]) = job.root
  BY <1>2, <1>3 DEF RootOf, MerkleRoot, Block
<1> QED
  BY <1>1, <1>3, <1>4, <1>5 DEF Block

LEMMA WorkInvInit == WorkInit => WorkInv
<1> SUFFICES ASSUME WorkInit PROVE WorkInv
  OBVIOUS
<1>1. WorkTypes
  BY WorkAssumption DEF WorkInit, WorkTypes, Statics, Null
<1>2. WorkIsKept
  BY DEF WorkInit, WorkIsKept, Null, BlocksOn, RootsAreKept
<1>3. TemplateIsKept /\ TemplateHasBlock /\ TemplatesAreRight
  BY DEF WorkInit, TemplateIsKept, TemplateHasBlock, TemplatesAreRight, Null, NoReply
<1> QED
  BY <1>1, <1>2, <1>3 DEF WorkInv

-----------------------------------------------------------------------------
\* A root of a block that is changed in nothing but its script, or to a miner's coinbase.
LEMMA RootsStay ==
  ASSUME NEW blocks \in Seq(Block), NEW i \in 1 .. Len(blocks), NEW known, RootsAreKept(known, blocks),
         NEW block \in Block, block.vtx = blocks[i].vtx,
         block.coinbase \in {blocks[i].coinbase} \cup Coinbases
  PROVE  RootsAreKept(known, [blocks EXCEPT ![i] = block])
<1>1. Len([blocks EXCEPT ![i] = block]) = Len(blocks)
  OBVIOUS
<1>2. ASSUME NEW root \in DOMAIN known PROVE RootIsKept(root, known, [blocks EXCEPT ![i] = block])
  <2> DEFINE k == known[root][1]
  <2>1. k \in 1 .. Len(blocks) /\ RootOf(root, known[root][2], blocks[k])
    BY DEF RootsAreKept, RootIsKept
  <2>2. CASE k = i
    <3>1. [blocks EXCEPT ![i] = block][k] = block
      BY <2>2
    <3>2. block.coinbase = "own" => blocks[i].coinbase = "own"
      BY WorkAssumption
    <3>3. RootOf(root, known[root][2], block)
      BY <2>1, <2>2, <3>2 DEF RootOf
    <3> QED
      BY <1>1, <2>1, <3>1, <3>3 DEF RootIsKept
  <2>3. CASE k # i
    <3>1. [blocks EXCEPT ![i] = block][k] = blocks[k]
      BY <2>1, <2>3
    <3> QED
      BY <1>1, <2>1, <3>1 DEF RootIsKept
  <2> QED
    BY <2>2, <2>3
<1> QED
  BY <1>2 DEF RootsAreKept

\* HandOut of a block of blocks, which stand on the best one like the jobs given out before.
LEMMA HandOutKeeps ==
  ASSUME WorkInv, NEW statics \in Statics(Int), NEW blocks \in Seq(Block), NEW known,
         statics.pblock \in 1 .. Len(blocks), statics.pindexPrev = pindexBest,
         BlocksOn(blocks, pindexBest), RootsAreKept(known, blocks),
         \A job \in jobs : /\ job.prev \in Nat /\ job.prev <= pindexBest
                           /\ job.prev = pindexBest => job.root \in DOMAIN known,
         HandOut(statics, blocks, known),
         UNCHANGED <<pindexBest, nTransactionsUpdated, workTime, gbt>>
  PROVE  WorkTypes' /\ WorkIsKept'
<1> DEFINE old == blocks[statics.pblock]
           script == <<statics.pindexPrev + 1, NextExtraNonce(old.hashPrevBlock)>>
           block == [old EXCEPT !.scriptSig = script]
           root == MerkleRoot(block)
           kept == [r \in DOMAIN known \cup {root} |->
                      IF r = root THEN <<statics.pblock, block.scriptSig>> ELSE known[r]]
<1>1. /\ ex' = statics /\ vNewBlock' = [blocks EXCEPT ![statics.pblock] = block]
      /\ mapNewBlock' = kept /\ nExtraNonce' = block.scriptSig[2]
      /\ jobs' = jobs \cup {[root |-> root, prev |-> block.hashPrevBlock]}
  BY DEF HandOut
<1>2. old \in Block /\ old.hashPrevBlock = pindexBest
  BY DEF BlocksOn
<1>3. NextExtraNonce(old.hashPrevBlock) \in Nat
  BY DEF NextExtraNonce, WorkInv, WorkTypes
<1>4. script \in Script /\ script[2] \in Nat
  BY <1>3 DEF WorkInv, WorkTypes, Script
<1> HIDE DEF script, old
<1>5. /\ block \in Block /\ block.vtx = old.vtx /\ block.coinbase = old.coinbase
      /\ block.scriptSig = script /\ block.hashPrevBlock = pindexBest
  BY <1>2, <1>4 DEF Block
<1>6. root = <<block.coinbase, script, block.vtx>>
  BY <1>5 DEF MerkleRoot
<1> HIDE DEF block
<1>7. vNewBlock' \in Seq(Block) /\ Len(vNewBlock') = Len(blocks) /\ vNewBlock'[statics.pblock] = block
  BY <1>1, <1>5
<1>8. BlocksOn(vNewBlock', pindexBest)
  BY <1>1, <1>5, <1>7 DEF BlocksOn
<1>9. RootsAreKept(known, vNewBlock')
  BY <1>1, <1>5, RootsStay DEF old
<1>10. ASSUME NEW r \in DOMAIN kept PROVE RootIsKept(r, kept, vNewBlock')
  <2>1. CASE r = root
    <3>1. kept[r] = <<statics.pblock, script>>
      BY <1>5, <2>1
    <3>2. RootOf(r, script, block)
      BY <1>4, <1>6, <2>1 DEF RootOf
    <3> HIDE DEF kept
    <3>3. kept[r][1] = statics.pblock /\ kept[r][2] = script
      BY <3>1
    <3> QED
      BY <1>7, <2>1, <3>2, <3>3 DEF RootIsKept
  <2>2. CASE r # root
    <3>1. kept[r] = known[r] /\ r \in DOMAIN known
      BY <2>2
    <3> QED
      BY <1>9, <3>1 DEF RootsAreKept, RootIsKept
  <2> QED
    BY <2>1, <2>2
<1>11. RootsAreKept(mapNewBlock', vNewBlock')
  BY <1>1, <1>10 DEF RootsAreKept
<1>12. DOMAIN mapNewBlock' = DOMAIN known \cup {root}
  BY <1>1
<1> HIDE DEF kept, root
<1>13. ASSUME NEW job \in jobs'
       PROVE  /\ job.prev \in Nat /\ job.prev <= pindexBest
              /\ job.prev = pindexBest => job.root \in DOMAIN mapNewBlock'
  BY <1>1, <1>5, <1>12 DEF WorkInv, WorkTypes
<1>14. WorkTypes'
  BY <1>1, <1>4, <1>5, <1>7 DEF WorkInv, WorkTypes
<1>15. WorkIsKept'
  <2>1. ex'.pindexPrev = pindexBest /\ pindexBest' = pindexBest /\ pindexBest \in Nat
    BY <1>1 DEF WorkInv, WorkTypes
  <2>2. ex'.pblock \in 1 .. Len(vNewBlock')
    BY <1>1, <1>7
  <2> QED
    BY <1>8, <1>11, <1>13, <2>1, <2>2 DEF WorkIsKept
<1> QED
  BY <1>14, <1>15

LEMMA GetWorkExKeeps ==
  ASSUME WorkInv, NEW created \in BOOLEAN, GetWorkEx(created)
  PROVE  WorkInv'
<1> DEFINE clears == ex.pindexPrev # pindexBest
           kept == IF clears THEN <<>> ELSE vNewBlock
           known == IF clears THEN [r \in {} |-> <<>>] ELSE mapNewBlock
<1>1. UNCHANGED <<pindexBest, nTransactionsUpdated, workTime, gbt>> /\ reply' = NoReply
  BY DEF GetWorkEx
<1>2. TemplateIsKept' /\ TemplateHasBlock' /\ TemplatesAreRight'
  BY <1>1 DEF WorkInv, TemplateIsKept, TemplateHasBlock, TemplatesAreRight, NoReply
<1>3. /\ pindexBest \in Nat \ {0} /\ nTransactionsUpdated \in Nat /\ workTime \in Nat
      /\ ex.pindexPrev \in Nat /\ ex.pindexPrev <= pindexBest /\ ex \in Statics(Int)
      /\ ex.pblock \in {Deleted, Null} \cup 1 .. Len(vNewBlock) /\ vNewBlock \in Seq(Block)
  BY WorkAssumption DEF WorkInv, WorkTypes, WorkIsKept, Statics
<1>4. /\ kept \in Seq(Block) /\ BlocksOn(kept, pindexBest) /\ RootsAreKept(known, kept)
      /\ \A job \in jobs : /\ job.prev \in Nat /\ job.prev <= pindexBest
                           /\ job.prev = pindexBest => job.root \in DOMAIN known
  <2>1. CASE clears
    <3>1. kept = <<>> /\ DOMAIN known = {}
      BY <2>1
    <3>2. \A job \in jobs : job.prev \in Nat /\ job.prev < pindexBest
      BY <1>3, <2>1 DEF WorkInv, WorkIsKept
    <3> QED
      BY <1>3, <3>1, <3>2 DEF BlocksOn, RootsAreKept
  <2>2. CASE ~clears
    BY <1>3, <2>2 DEF WorkInv, WorkIsKept
  <2> QED
    BY <2>1, <2>2
<1>5. ASSUME NEW pblock \in Int
      PROVE  Renewed(ex, pindexBest, pblock) \in Statics(Int)
  BY <1>3 DEF Renewed, Statics
<1>6. CASE Renews(ex) /\ created
  <2> DEFINE statics == Renewed(ex, pindexBest, Len(kept) + 1)
             blocks == Append(kept, NewBlock)
  <2>1. HandOut(statics, blocks, known)
    BY <1>6 DEF GetWorkEx
  <2>2. NewBlock \in Block /\ NewBlock.hashPrevBlock = pindexBest
    BY <1>3 DEF NewBlock, Block, Script, Txs, WorkInv, WorkTypes
  <2>3. Len(kept) \in Nat /\ Len(blocks) = Len(kept) + 1 /\ blocks \in Seq(Block)
    BY <1>4, <2>2
  <2>4. \A i \in 1 .. Len(kept) : blocks[i] = kept[i]
    BY <1>4, <2>2
  <2>5. blocks[Len(kept) + 1] = NewBlock
    BY <1>4, <2>2
  <2>6. /\ statics \in Statics(Int) /\ statics.pblock \in 1 .. Len(blocks)
        /\ statics.pindexPrev = pindexBest
    BY <1>5, <2>3 DEF Renewed
  <2> HIDE DEF blocks, statics, kept, known
  <2>7. BlocksOn(blocks, pindexBest)
    BY <1>4, <2>2, <2>3, <2>4, <2>5 DEF BlocksOn
  <2>8. RootsAreKept(known, blocks)
    BY <1>4, <2>3, <2>4 DEF RootsAreKept, RootIsKept
  <2> QED
    BY <1>1, <1>2, <1>4, <2>1, <2>3, <2>6, <2>7, <2>8, HandOutKeeps DEF WorkInv
<1>7. CASE Renews(ex) /\ ~created
  <2> DEFINE pblock == IF clears /\ ex.pblock # Null THEN Deleted ELSE ex.pblock
  <2>1. /\ ex' = Renewed(ex, pindexBest, pblock)
        /\ vNewBlock' = kept /\ mapNewBlock' = known /\ UNCHANGED <<nExtraNonce, jobs>>
    BY <1>7 DEF GetWorkEx
  <2>2. pblock \in {Deleted, Null} \cup 1 .. Len(kept) /\ pblock \in Int
    BY <1>3 DEF Deleted, Null
  <2>3. ex' \in Statics(Int) /\ ex'.pindexPrev = pindexBest /\ ex'.pblock = pblock
    BY <1>5, <2>1, <2>2 DEF Renewed
  <2> HIDE DEF kept, known, pblock
  <2>4. WorkTypes'
    BY <1>1, <1>4, <2>1, <2>3 DEF WorkInv, WorkTypes
  <2>5. WorkIsKept'
    BY <1>1, <1>3, <1>4, <2>1, <2>2, <2>3 DEF WorkIsKept
  <2> QED
    BY <1>2, <2>4, <2>5 DEF WorkInv
<1>8. CASE ~Renews(ex) /\ ex.pblock \in {Deleted, Null}
  <2>1. UNCHANGED <<ex, vNewBlock, mapNewBlock, nExtraNonce, jobs>>
    BY <1>8 DEF GetWorkEx, exVars
  <2> QED
    BY <1>1, <1>2, <2>1 DEF WorkInv, WorkTypes, WorkIsKept
<1>9. CASE ~Renews(ex) /\ ex.pblock \notin {Deleted, Null}
  <2>1. HandOut(ex, vNewBlock, mapNewBlock)
    BY <1>9 DEF GetWorkEx
  <2>2. ~clears
    BY <1>9 DEF Renews
  <2>3. kept = vNewBlock /\ known = mapNewBlock /\ ex.pblock \in 1 .. Len(vNewBlock)
    BY <1>3, <1>9, <2>2
  <2> HIDE DEF kept, known
  <2> QED
    BY <1>1, <1>2, <1>3, <1>4, <2>1, <2>2, <2>3, HandOutKeeps DEF WorkInv
<1> QED
  BY <1>6, <1>7, <1>8, <1>9

LEMMA SubmitWorkExKeeps ==
  ASSUME WorkInv, NEW job \in jobs, NEW coinbase \in Coinbases \cup {"none"}, NEW solution \in BOOLEAN,
         SubmitWorkEx(job, coinbase, solution)
  PROVE  WorkInv'
<1>1. /\ UNCHANGED <<nTransactionsUpdated, workTime, ex, mapNewBlock, nExtraNonce, gbt, jobs>>
      /\ reply' = NoReply
  BY DEF SubmitWorkEx
<1>2. TemplateIsKept' /\ TemplateHasBlock' /\ TemplatesAreRight'
  BY <1>1 DEF WorkInv, TemplateIsKept, TemplateHasBlock, TemplatesAreRight, NoReply
<1>3. pindexBest \in Nat \ {0} /\ pindexBest' \in {pindexBest, pindexBest + 1}
  BY DEF SubmitWorkEx, WorkInv, WorkTypes
<1>4. /\ vNewBlock' \in Seq(Block) /\ Len(vNewBlock') = Len(vNewBlock)
      /\ BlocksOn(vNewBlock', ex.pindexPrev) /\ RootsAreKept(mapNewBlock, vNewBlock')
  <2>1. CASE job.root \in DOMAIN mapNewBlock
    <3> DEFINE k == mapNewBlock[job.root]
               old == vNewBlock[k[1]]
               block == Rebuilt(job.root, coinbase)
    <3>1. vNewBlock' = [vNewBlock EXCEPT ![k[1]] = block]
      BY <2>1 DEF SubmitWorkEx
    <3>2. k[1] \in 1 .. Len(vNewBlock) /\ k[2] \in Script
      BY <2>1 DEF WorkInv, WorkIsKept, RootsAreKept, RootIsKept, RootOf
    <3>3. old \in Block /\ old.hashPrevBlock = ex.pindexPrev /\ vNewBlock \in Seq(Block)
      BY <3>2 DEF WorkInv, WorkTypes, WorkIsKept, BlocksOn
    <3>4. block = IF coinbase = "none" THEN [old EXCEPT !.scriptSig = k[2]]
                  ELSE [old EXCEPT !.coinbase = coinbase, !.scriptSig = <<>>]
      BY DEF Rebuilt
    <3> HIDE DEF k, old, block
    <3>5. /\ block \in Block /\ block.vtx = old.vtx /\ block.hashPrevBlock = old.hashPrevBlock
          /\ block.coinbase \in {old.coinbase} \cup Coinbases
      <4>1. CASE coinbase = "none"
        BY <3>2, <3>3, <3>4, <4>1 DEF Block
      <4>2. CASE coinbase # "none"
        BY <3>3, <3>4, <4>2 DEF Block, Script
      <4> QED
        BY <4>1, <4>2
    <3>6. BlocksOn(vNewBlock', ex.pindexPrev)
      BY <3>1, <3>2, <3>3, <3>5 DEF BlocksOn, WorkInv, WorkIsKept
    <3>7. RootsAreKept(mapNewBlock, vNewBlock')
      BY <3>1, <3>2, <3>3, <3>5, RootsStay DEF WorkInv, WorkIsKept, old
    <3> QED
      BY <3>1, <3>2, <3>3, <3>5, <3>6, <3>7
  <2>2. CASE job.root \notin DOMAIN mapNewBlock
    BY <2>2 DEF SubmitWorkEx, WorkInv, WorkTypes, WorkIsKept
  <2> QED
    BY <2>1, <2>2
<1>5. WorkTypes'
  BY <1>1, <1>3, <1>4 DEF WorkInv, WorkTypes
<1>6. WorkIsKept'
  BY <1>1, <1>3, <1>4 DEF WorkInv, WorkTypes, Statics, WorkIsKept
<1> QED
  BY <1>2, <1>5, <1>6 DEF WorkInv

\* getblocktemplate answers with a block on the best one.
LEMMA TemplateReplyIs ==
  ASSUME WorkTypes, NEW statics, NEW block \in Block, statics.pblock = <<block>>,
         statics.pindexPrev = pindexBest, block.hashPrevBlock = pindexBest, reply' = TemplateReply(statics)
  PROVE  TemplatesAreRight'
<1>1. /\ reply'.previousblockhash = pindexBest /\ reply'.best = pindexBest /\ reply'.height = pindexBest + 1
      /\ reply'.transactions = block.vtx
      /\ reply'.depends = [i \in DOMAIN block.vtx |-> DependsOf(block.vtx, i)]
  BY DEF TemplateReply
<1>2. block.vtx \in Seq(DOMAIN Inputs)
  BY WorkAssumption DEF Block, Txs
<1>3. ASSUME NEW i \in DOMAIN block.vtx, NEW d \in DependsOf(block.vtx, i)
      PROVE  d \in 1 .. i - 1 /\ block.vtx[d] \in Inputs[block.vtx[i]]
  <2>1. i \in Nat /\ d \in 1 .. i /\ block.vtx[d] \in Inputs[block.vtx[i]] /\ block.vtx[i] \in DOMAIN Inputs
    BY <1>2 DEF DependsOf
  <2>2. d # i
    BY <2>1, WorkAssumption
  <2> QED
    BY <2>1, <2>2
<1> QED
  BY <1>1, <1>3 DEF TemplatesAreRight

LEMMA GetBlockTemplateKeeps ==
  ASSUME WorkInv, NEW created \in BOOLEAN, GetBlockTemplate(created)
  PROVE  WorkInv'
<1>1. /\ UNCHANGED <<pindexBest, nTransactionsUpdated, workTime, ex, vNewBlock, mapNewBlock, nExtraNonce, jobs>>
  BY DEF GetBlockTemplate, exVars
<1>2. WorkIsKept'
  BY <1>1 DEF WorkInv, WorkIsKept
<1>3. /\ pindexBest \in Nat \ {0} /\ nTransactionsUpdated \in Nat /\ workTime \in Nat
      /\ gbt \in Statics({<<>>} \cup {<<b>> : b \in Block})
  BY WorkAssumption DEF WorkInv, WorkTypes
<1>4. CASE ~Renews(gbt)
  <2>1. gbt' = gbt /\ gbt.pindexPrev = pindexBest /\ gbt.pblock # <<>>
    BY <1>3, <1>4 DEF GetBlockTemplate, Renews, WorkInv, TemplateHasBlock, Null
  <2>2. PICK block \in Block : gbt.pblock = <<block>>
    BY <1>3, <2>1 DEF Statics
  <2>3. block.hashPrevBlock = pindexBest
    BY <2>1, <2>2 DEF WorkInv, TemplateIsKept
  <2>4. reply' = TemplateReply(gbt)
    BY <1>4, <2>1 DEF GetBlockTemplate
  <2>5. TemplatesAreRight'
    BY <2>1, <2>2, <2>3, <2>4, TemplateReplyIs DEF WorkInv
  <2> QED
    BY <1>1, <1>2, <2>1, <2>5 DEF WorkInv, WorkTypes, TemplateIsKept, TemplateHasBlock
<1>5. CASE Renews(gbt) /\ created
  <2>1. gbt' = Renewed(gbt, pindexBest, <<NewBlock>>)
    BY <1>5 DEF GetBlockTemplate
  <2>2. NewBlock \in Block /\ NewBlock.hashPrevBlock = pindexBest
    BY <1>3 DEF NewBlock, Block, Script, Txs, WorkInv, WorkTypes
  <2>3. gbt'.pblock = <<NewBlock>> /\ gbt'.pindexPrev = pindexBest
    BY <2>1 DEF Renewed
  <2>4. gbt' \in Statics({<<>>} \cup {<<b>> : b \in Block})
    BY <1>3, <2>1, <2>2 DEF Renewed, Statics
  <2>5. reply' = TemplateReply(gbt')
    BY <1>5, <2>3 DEF GetBlockTemplate
  <2>6. TemplatesAreRight'
    BY <2>2, <2>3, <2>5, TemplateReplyIs DEF WorkInv
  <2>7. TemplateIsKept' /\ TemplateHasBlock'
    BY <2>2, <2>3 DEF TemplateIsKept, TemplateHasBlock
  <2> QED
    BY <1>1, <1>2, <2>4, <2>6, <2>7 DEF WorkInv, WorkTypes
<1>6. CASE Renews(gbt) /\ ~created
  <2>1. gbt' = Renewed(gbt, Null, <<>>) /\ reply' = NoReply
    BY <1>6 DEF GetBlockTemplate, FailedTemplate
  <2>2. gbt' \in Statics({<<>>} \cup {<<b>> : b \in Block}) /\ gbt'.pindexPrev = Null /\ gbt'.pblock = <<>>
    BY <1>3, <2>1 DEF Renewed, Statics, Null
  <2>3. TemplateIsKept' /\ TemplateHasBlock' /\ TemplatesAreRight'
    BY <2>1, <2>2 DEF TemplateIsKept, TemplateHasBlock, TemplatesAreRight, NoReply
  <2> QED
    BY <1>1, <1>2, <2>2, <2>3 DEF WorkInv, WorkTypes
<1> QED
  BY <1>4, <1>5, <1>6

\* The best block, the pool, the clock and a miner thread's counter move by themselves.
LEMMA WorldKeeps ==
  ASSUME WorkInv,
         \/ \E coinbase \in Coinbases : SubmitBlock(coinbase)
         \/ NewBest \/ NewTransaction \/ Waiting
         \/ \E prev \in {pindexBest, pindexBest - 1} : MinerIncrements(prev)
         \/ UNCHANGED workVars
  PROVE  WorkInv'
<1>1. /\ UNCHANGED <<ex, vNewBlock, mapNewBlock, nExtraNonce, gbt, jobs>>
      /\ pindexBest' \in {pindexBest, pindexBest + 1}
      /\ nTransactionsUpdated' \in DOMAIN Pool /\ workTime' \in Nat
      /\ reply' \in {reply, NoReply}
  BY DEF WorkInv, WorkTypes, SubmitBlock, NewBest, NewTransaction, Waiting, MinerIncrements, workVars, exVars
<1>2. WorkTypes'
  BY <1>1 DEF WorkInv, WorkTypes
<1>3. WorkIsKept'
  BY <1>1 DEF WorkInv, WorkTypes, Statics, WorkIsKept
<1>4. TemplateIsKept' /\ TemplateHasBlock' /\ TemplatesAreRight'
  BY <1>1 DEF WorkInv, TemplateIsKept, TemplateHasBlock, TemplatesAreRight, NoReply
<1> QED
  BY <1>2, <1>3, <1>4 DEF WorkInv

\* Whatever miners ask for and hand in, while blocks and transactions come and CreateNewBlock
\* throws: a job on the best block can be handed in, a template is one on the best block, and
\* getblocktemplate has one when it answers (rpcmining.cpp).
THEOREM WorkServerStaysRight == WorkSpec => []WorkServerIsRight
<1>1. WorkInv /\ [WorkNext]_workVars => WorkInv'
  BY GetWorkExKeeps, GetBlockTemplateKeeps, SubmitWorkExKeeps, WorldKeeps DEF WorkNext
<1> QED
  BY <1>1, WorkInvInit, WorkInvIsRight, PTL DEF WorkSpec

=============================================================================
