------------------------------ MODULE Networks ------------------------------
(***************************************************************************)
(* Which networks and addresses the node knows, by what proxy it reaches   *)
(* them, and what it says of itself: netbase.cpp, net.cpp, init.cpp.       *)
(***************************************************************************)
EXTENDS Integers, Sequences, SequencesExt, FiniteSets

-----------------------------------------------------------------------------
(***************************************************************************)
(* netbase.cpp: CNetAddr, an address of sixteen bytes in which those of    *)
(* other networks are embedded, its network and the group by which peers   *)
(* are told apart, and the host and port of a line of text.                *)
(***************************************************************************)
CONSTANTS
    SampleAddresses,  \* sixteen bytes each
    HostLines,        \* lines that may name a host and a port
    PortLimit         \* 0x10000

VARIABLES
    ip,       \* the address at hand
    plain,    \* the one it embeds, or itself
    line      \* the line at hand

netVars == <<ip, plain, line>>

-----------------------------------------------------------------------------
(* Networks.  GetByte counts from the end, as in the code. *)

GetByte(a, n) == a[16 - n]
NoBytes(n) == [i \in 1 .. n |-> 0]

pchIPv4 == NoBytes(10) \o <<255, 255>>
pchOnionCat == <<253, 135, 216, 126, 235, 67>>
pchGarliCat == <<253, 96, 219, 77, 221, 181>>

IsIPv4(a) == IsPrefix(pchIPv4, a)
IsTor(a) == IsPrefix(pchOnionCat, a)
IsI2P(a) == IsPrefix(pchGarliCat, a)
IsIPv6(a) == ~IsIPv4(a) /\ ~IsTor(a) /\ ~IsI2P(a)

\* 10/8, 192.168/16 and 172.16/12
IsRFC1918(a) ==
    /\ IsIPv4(a)
    /\ \/ GetByte(a, 3) = 10
       \/ GetByte(a, 3) = 192 /\ GetByte(a, 2) = 168
       \/ GetByte(a, 3) = 172 /\ GetByte(a, 2) \in 16 .. 31
IsRFC3927(a) == IsIPv4(a) /\ GetByte(a, 3) = 169 /\ GetByte(a, 2) = 254
IsRFC3849(a) == IsPrefix(<<32, 1, 13, 184>>, a)
IsRFC3964(a) == IsPrefix(<<32, 2>>, a)
IsRFC6052(a) == IsPrefix(<<0, 100, 255, 155>> \o NoBytes(8), a)
IsRFC4380(a) == IsPrefix(<<32, 1, 0, 0>>, a)
IsRFC4862(a) == IsPrefix(<<254, 128>> \o NoBytes(6), a)
IsRFC4193(a) == GetByte(a, 15) \in {252, 253}
IsRFC6145(a) == IsPrefix(NoBytes(8) \o <<255, 255, 0, 0>>, a)
IsRFC4843(a) == IsPrefix(<<32, 1, 0>>, a) /\ GetByte(a, 12) \div 16 = 1

IsLoopback(a) == (IsIPv4(a) /\ GetByte(a, 3) \in {0, 127}) \/ a = NoBytes(15) \o <<1>>

\* The first prefix is that of an address that was read three bytes late.
IsValidAddress(a) ==
    /\ ~IsPrefix(SubSeq(pchIPv4, 4, 12), a)
    /\ a # NoBytes(16)
    /\ ~IsRFC3849(a)
    /\ IsIPv4(a) => SubSeq(a, 13, 16) \notin {<<255, 255, 255, 255>>, NoBytes(4)}

IsRoutable(a) ==
    /\ IsValidAddress(a)
    /\ ~IsRFC1918(a) /\ ~IsRFC3927(a) /\ ~IsRFC4862(a) /\ ~IsRFC4843(a) /\ ~IsLoopback(a)
    /\ IsRFC4193(a) => IsTor(a) \/ IsI2P(a)

GetNetwork(a) ==
    IF ~IsRoutable(a) THEN "unroutable" ELSE IF IsIPv4(a) THEN "ipv4"
    ELSE IF IsTor(a) THEN "tor" ELSE IF IsI2P(a) THEN "i2p" ELSE "ipv6"

\* A name of ten bytes in front of .onion or .oc.b32.i2p; both get the prefix of the onions.
SetSpecial(suffix, bytes) == IF Len(bytes) = 10 THEN pchOnionCat \o bytes ELSE NoBytes(16)

-----------------------------------------------------------------------------
(* Groups: the network, and as many of its first bits as one owner is likely to have. *)

Bits(a, start, bits) ==
    [i \in 1 .. (bits + 7) \div 8 |->
        IF i * 8 <= bits THEN a[start + i] ELSE 2 ^ (bits % 8) * (a[start + i] \div 2 ^ (bits % 8)) + 2 ^ (bits % 8) - 1]

GetGroup_AsIPv6(a) ==
    IF ~IsRoutable(a) THEN <<"unroutable">>
    ELSE IF IsIPv4(a) THEN <<"ipv4">> \o Bits(a, 12, 16)
    ELSE <<GetNetwork(a)>> \o Bits(a, 0, 32)

GetGroup(a) ==
    IF ~IsRoutable(a) THEN <<"unroutable">>
    ELSE IF IsIPv4(a) \/ IsRFC6145(a) \/ IsRFC6052(a) THEN <<"ipv4">> \o Bits(a, 12, 16)
    ELSE IF IsRFC3964(a) THEN <<"ipv4">> \o Bits(a, 2, 16)
    ELSE IF IsRFC4380(a) THEN <<"ipv4", 255 - GetByte(a, 3), 255 - GetByte(a, 2)>>
    ELSE IF IsTor(a) THEN <<"tor">> \o Bits(a, 6, 4)
    ELSE IF IsI2P(a) THEN <<"i2p">> \o Bits(a, 6, 4)
    ELSE IF IsPrefix(<<32, 17, 4, 112>>, a) THEN <<"ipv6">> \o Bits(a, 0, 36)
    ELSE <<"ipv6">> \o Bits(a, 0, 32)

-----------------------------------------------------------------------------
(* Lines: a digit is its number. *)

Colon == 10
Open == 11
Close == 12

SplitHostPort_LastColon(in, portDefault) ==
    LET colon == SelectLastInSeq(in, LAMBDA c : c = Colon)
        digits == SubSeq(in, colon + 1, Len(in))
        n == FoldLeft(LAMBDA acc, d : acc * 10 + d, 0, digits)
        split == colon > 0 /\ \A i \in DOMAIN digits : digits[i] < 10
    IN  <<IF split THEN SubSeq(in, 1, colon - 1) ELSE in, IF split /\ n \in 1 .. PortLimit - 1 THEN n ELSE portDefault>>

\* The last colon is in front of a port if it follows a bracket or if it is the only one.
SplitHostPort(in, portDefault) ==
    LET colon == SelectLastInSeq(in, LAMBDA c : c = Colon)
        bracketed == colon > 0 /\ in[1] = Open /\ in[colon - 1] = Close
        multiColon == \E i \in 1 .. colon - 1 : in[i] = Colon
        digits == SubSeq(in, colon + 1, Len(in))
        n == FoldLeft(LAMBDA acc, d : acc * 10 + d, 0, digits)
        split == colon > 0 /\ (bracketed \/ ~multiColon) /\ \A i \in DOMAIN digits : digits[i] < 10
        host == IF split THEN SubSeq(in, 1, colon - 1) ELSE in
        inBrackets == host # <<>> /\ host[1] = Open /\ host[Len(host)] = Close
    IN  <<IF inBrackets THEN SubSeq(host, 2, Len(host) - 1) ELSE host,
          IF split /\ n \in 1 .. PortLimit - 1 THEN n ELSE portDefault>>

\* The addresses of IPv6 are the ones with colons.
ToStringIPPort(host, port) ==
    LET digits == IF port < 10 THEN <<port>> ELSE <<port \div 10, port % 10>> IN
    (IF \E i \in DOMAIN host : host[i] = Colon THEN <<Open>> \o host \o <<Close>> ELSE host) \o <<Colon>> \o digits

-----------------------------------------------------------------------------
NetInit ==
    /\ \/ ip \in SampleAddresses /\ line = <<>>
       \/ ip = NoBytes(16) /\ line \in HostLines
    /\ plain = ip

\* A host of IPv4 is reached through a gateway or a tunnel, by its address there.
Embeddings(v4) ==
    {NoBytes(8) \o <<255, 255, 0, 0>> \o v4, <<0, 100, 255, 155>> \o NoBytes(8) \o v4,
     <<32, 2>> \o v4 \o NoBytes(10), <<32, 1, 0, 0, 1, 2, 3, 4, 5, 6, 7, 8>> \o [i \in 1 .. 4 |-> 255 - v4[i]]}

Tunnel ==
    /\ ip = plain /\ IsIPv4(ip)
    /\ ip' \in Embeddings(SubSeq(ip, 13, 16))
    /\ UNCHANGED <<plain, line>>

NetNext == Tunnel

-----------------------------------------------------------------------------
\* A host is in one group whichever way it is reached: "no two connections will be attempted to
\* addresses with the same group" (netbase.cpp:844-845) holds of the hosts behind tunnels.
GroupsFollowIPv4 ==
    IsRoutable(plain) /\ IsIPv4(plain) => IsRoutable(ip) /\ GetGroup(ip) = GetGroup(plain)

\* A group never spans networks, but for the tunnels; no group holds both an address that peers
\* may be told of and one that they may not; and the groups of one network differ as prefixes do.
GroupsAreApart ==
    \A a \in SampleAddresses :
        GetGroup(a) = GetGroup(ip) =>
        /\ IsRoutable(a) <=> IsRoutable(ip)
        /\ GetNetwork(a) = GetNetwork(ip) \/ ip # plain
        /\ IsIPv4(a) /\ IsIPv4(ip) /\ IsRoutable(a) => SubSeq(a, 1, 14) = SubSeq(ip, 1, 14)
        /\ IsTor(a) /\ IsTor(ip) => a[7] \div 16 = ip[7] \div 16

\* An address is of one network, and those of this machine are of none.
NetworksAreApart ==
    /\ \A i, j \in 1 .. 3 : i # j => ~(<<IsIPv4(ip), IsTor(ip), IsI2P(ip)>>[i] /\ <<IsIPv4(ip), IsTor(ip), IsI2P(ip)>>[j])
    /\ IsLoopback(ip) => GetNetwork(ip) = "unroutable"
    /\ \A b \in {0, 7, 255} : IsTor(SetSpecial("onion", [i \in 1 .. 10 |-> b]))

\* What an address is shown as leads back to its host and its port; a line without a port leaves
\* the port as it was, brackets and colons of IPv6 included.
LinesAreSplit ==
    LET colons == {i \in DOMAIN line : line[i] = Colon} IN
    (\A i \in DOMAIN line : line[i] \notin {Open, Close}) =>
    /\ \A port \in 1 .. PortLimit - 1 : SplitHostPort(ToStringIPPort(line, port), 0) = <<line, port>>
    /\ (colons = {} \/ \E i, j \in colons : i # j) => SplitHostPort(line, 0) = <<line, 0>>
    /\ SplitHostPort(<<Open>> \o line \o <<Close>>, 0) = <<line, 0>>

NetAddressIsRight == GroupsFollowIPv4 /\ GroupsAreApart /\ NetworksAreApart /\ LinesAreSplit

\* netbase.h:66 keeps I2P apart from Tor: a name of I2P is an address of I2P.
GarlicIsGarlic == IsI2P(SetSpecial("i2p", [i \in 1 .. 10 |-> 7]))

-----------------------------------------------------------------------------
(***************************************************************************)
(* netbase.cpp: one outgoing connection, from the name or the address that *)
(* was asked for, through the resolver and a SOCKS proxy where they are    *)
(* used, to a socket whose next byte is the peer's.  recv() returns what   *)
(* has arrived, at most as much as was asked for.                          *)
(***************************************************************************)
CONSTANTS
    Targets,     \* [kind |-> "ipv4", "ipv6" or "name", by |-> "name" or "address"]
    Answers,     \* what a proxy may say: <<to the greeting, to the request>>
    MaxSegments  \* bound on the pieces in which an answer arrives

VARIABLES
    target, nProxy, nNameProxy, fLookup,      \* what is asked for, and the settings
    stage,       \* where ConnectSocket is
    hSocket,     \* "none", "open" or "closed"
    asked,       \* the requests that were made: of the resolver, of the proxy
    answer,      \* what the proxy says
    unsent,      \* what it still has to send
    arrived,     \* what has arrived and was not read
    segments,    \* the pieces so far
    whole        \* no recv has had less than it asked for

settings == <<target, nProxy, nNameProxy, fLookup, answer>>
proxyVars == <<settings, stage, hSocket, asked, unsent, arrived, segments, whole>>

-----------------------------------------------------------------------------
(* The way to the target. *)

\* A name is looked up unless there is a proxy to do it; an address is read as one.
Resolves_Always == target.kind # "name" \/ fLookup
Resolves == target.kind # "name" \/ (fLookup /\ nNameProxy = 0)
Destination == IF target.kind = "name" /\ Resolves THEN "ipv4" ELSE target.kind
ProxyVersion == IF target.kind = "name" /\ ~Resolves THEN nNameProxy ELSE nProxy

Returns(result, sock) ==
    stage' = result /\ hSocket' = sock /\ UNCHANGED <<settings, unsent, arrived, segments>>

\* CNetAddr(strDest, fAllowLookup), in ConnectSocketByName.
ConnectSocketByName ==
    /\ stage = "start" /\ target.by = "name"
    /\ asked' = IF Resolves /\ target.kind = "name" THEN Append(asked, <<"resolver", target.kind>>) ELSE asked
    /\ UNCHANGED whole
    /\ \/ Resolves /\ Returns("connect", hSocket)
       \/ target.kind = "name" /\ nNameProxy = 5 /\ Returns("connect", hSocket)
       \/ target.kind = "name" /\ nNameProxy # 5 /\ Returns("failed", hSocket)

ConnectByAddress ==
    /\ stage = "start" /\ target.by = "address"
    /\ Returns("connect", hSocket) /\ UNCHANGED <<asked, whole>>

\* Each of its failures closes the socket.
ConnectSocketDirectly ==
    /\ stage = "connect" /\ UNCHANGED <<asked, whole>>
    /\ \/ Returns("failed", "closed")
       \/ Returns(CASE ProxyVersion = 0 -> "connected" [] ProxyVersion = 4 -> "socks4" [] OTHER -> "socks5", "open")

-----------------------------------------------------------------------------
(* The proxy and the peer behind it. *)

ProxySends ==
    /\ unsent # <<>> /\ hSocket = "open" /\ segments < MaxSegments
    /\ \E n \in 1 .. Len(unsent) :
        /\ arrived' = arrived \o SubSeq(unsent, 1, n)
        /\ unsent' = SubSeq(unsent, n + 1, Len(unsent))
        /\ segments' = segments + 1
    /\ UNCHANGED <<settings, stage, hSocket, asked, whole>>

\* The last piece is all that is left.
ProxySendsRest ==
    /\ unsent # <<>> /\ hSocket = "open" /\ segments = MaxSegments
    /\ arrived' = arrived \o unsent /\ unsent' = <<>>
    /\ UNCHANGED <<settings, stage, hSocket, asked, segments, whole>>

\* recv(n): fails when the proxy has nothing more to say.  Then(got) says what follows on n bytes.
Recv(n, next(_), ifShort) ==
    LET got == SubSeq(arrived, 1, IF Len(arrived) < n THEN Len(arrived) ELSE n) IN
    /\ arrived # <<>> \/ unsent = <<>> \/ n = 0
    /\ arrived' = SubSeq(arrived, Len(got) + 1, Len(arrived))
    /\ whole' = (whole /\ Len(got) = n)
    /\ IF Len(got) = n THEN next(got) ELSE stage' = "failed" /\ hSocket' = ifShort /\ UNCHANGED unsent
    /\ UNCHANGED <<settings, asked, segments>>

GoesTo(next) == stage' = next /\ UNCHANGED <<hSocket, unsent>>
Fails == stage' = "failed" /\ hSocket' = "closed" /\ UNCHANGED unsent

Send(request, reply, next) ==
    /\ asked' = Append(asked, request) /\ unsent' = reply /\ stage' = next
    /\ UNCHANGED <<settings, hSocket, arrived, segments, whole>>

-----------------------------------------------------------------------------
(* SOCKS. *)

Granted4 == 90

Socks4Request ==
    /\ stage = "socks4"
    /\ IF target.kind = "ipv6" THEN Returns("failed", "closed") /\ UNCHANGED <<asked, whole>>
       ELSE Send(<<"proxy", Destination>>, answer[2], "socks4 reply")

Socks4Reply ==
    /\ stage = "socks4 reply"
    /\ Recv(8, LAMBDA got : IF got[2] = Granted4 THEN GoesTo("connected") ELSE Fails, "closed")

Socks5Init == stage = "socks5" /\ Send(<<"proxy", "greeting">>, answer[1], "method")

Socks5Method ==
    /\ stage = "method"
    /\ Recv(2, LAMBDA got : IF got = <<5, 0>> THEN GoesTo("request") ELSE Fails, "closed")

Socks5Request == stage = "request" /\ Send(<<"proxy", Destination>>, answer[2], "head")

\* The address that the proxy connects from has the length of its kind.
AfterHead(got) ==
    IF SubSeq(got, 1, 3) # <<5, 0, 0>> THEN Fails
    ELSE CASE got[4] = 1 -> GoesTo("bound 4") [] got[4] = 4 -> GoesTo("bound 16") [] got[4] = 3 -> GoesTo("name length")
           [] OTHER -> Fails

AfterBound_Ends(got) == GoesTo("connected")
AfterBound(got) == GoesTo("port")

Socks5Reply ==
    \/ stage = "head" /\ Recv(4, AfterHead, "closed")
    \/ stage = "bound 4" /\ Recv(4, AfterBound, "closed")
    \/ stage = "bound 16" /\ Recv(16, AfterBound, "closed")
    \/ stage = "name length" /\ Recv(1, LAMBDA got : IF got[1] = 2 THEN GoesTo("bound 2") ELSE GoesTo("bound 0"), "open")
    \/ stage = "bound 2" /\ Recv(2, AfterBound, "closed")
    \/ stage = "bound 0" /\ Recv(0, AfterBound, "closed")
    \/ stage = "port" /\ Recv(2, LAMBDA got : GoesTo("connected"), "closed")

-----------------------------------------------------------------------------
ProxyInit ==
    /\ target \in Targets /\ nProxy \in {0, 4, 5} /\ nNameProxy \in {0, 5} /\ fLookup \in BOOLEAN
    /\ answer \in Answers
    /\ stage = "start" /\ hSocket = "none" /\ asked = <<>>
    /\ unsent = <<>> /\ arrived = <<>> /\ segments = 0 /\ whole = TRUE

ProxyNext ==
    \/ ConnectSocketByName \/ ConnectByAddress \/ ConnectSocketDirectly
    \/ ProxySends \/ ProxySendsRest
    \/ Socks4Request \/ Socks4Reply
    \/ Socks5Init \/ Socks5Method \/ Socks5Request \/ Socks5Reply

-----------------------------------------------------------------------------
\* The next byte on a connection is the peer's own first one ("peer", 99), whatever kind of
\* address the proxy named and however its answer was cut up.
StreamIsThePeers ==
    stage = "connected" /\ ProxyVersion # 0 => \A i \in DOMAIN (arrived \o unsent) : (arrived \o unsent)[i] = 99

\* A proxy's consent is needed, and nothing else: an answer that was not cut up is understood.
ConsentCounts ==
    LET consents == IF ProxyVersion = 4 THEN answer[2][2] = Granted4 ELSE answer[1] = <<5, 0>> /\ SubSeq(answer[2], 1, 3) = <<5, 0, 0>>
    IN  ProxyVersion # 0 /\ whole =>
        /\ stage = "connected" => consents
        /\ stage = "failed" /\ asked # <<>> /\ Last(asked)[1] = "proxy" /\ consents /\ target.kind # "ipv6" =>
             ProxyVersion = 5 /\ answer[2][4] \notin {1, 3, 4}

\* Who is told what is looked for: the resolver of a name that no proxy takes, and the proxy for
\* names of one that was not looked up.
NamesAreNotLeaked ==
    \A i \in DOMAIN asked :
        /\ asked[i][1] = "resolver" => nNameProxy = 0 /\ fLookup /\ target.by = "name"
        /\ asked[i] = <<"proxy", "name">> => nNameProxy = 5

\* No attempt leaves a socket behind, but for one whose proxy breaks off in front of a name.
SocketIsClosed == stage = "failed" /\ hSocket = "open" => answer[2][4] = 3

ProxyIsRight == StreamIsThePeers /\ ConsentCounts /\ NamesAreNotLeaked /\ SocketIsClosed

\* netbase.cpp:299-300 returns without closesocket, as no other failure of Socks5 does.
EverySocketIsClosed == stage = "failed" => hSocket # "open"

-----------------------------------------------------------------------------
(***************************************************************************)
(* Which networks the node talks to and which address it gives itself:     *)
(* the options of init.cpp, the limited networks, the proxies, what a      *)
(* connection by address or by name does with them, and the local          *)
(* addresses with their scores.                                            *)
(***************************************************************************)
CONSTANTS
    OptionSets,  \* [onlynet, proxy, socks, tor, listen, discover, externalip, dns]
    LocalAddr,   \* addresses this node may be found at
    LocalNet,    \* [LocalAddr -> their class, as GetExtNetwork tells them apart]
    FoundScore,  \* [LocalAddr -> score of the way it is found by, IF .. MANUAL]
    MaxScore     \* bound on a score

VARIABLES
    option,
    contacts,    \* <<how, network>> of what the node has contacted (history)
    mapLocalHost \* [address found -> nScore]

reachVars == <<option, contacts, mapLocalHost>>

Nets == {"ipv4", "ipv6", "tor"}
Manual == 6
Unset == "unset"
GetOption(value, default) == IF value = Unset THEN default ELSE value = "1"

-----------------------------------------------------------------------------
(* Steps 2 and 6 of AppInit2. *)

HasProxy == option.proxy
fListen == GetOption(option.listen, ~HasProxy)
fDiscover_AsGiven == GetOption(option.discover, TRUE)

fDiscover == GetOption(option.discover, fListen /\ ~option.externalip)

fNameLookup == GetOption(option.dns, TRUE)

\* SetLimited of every network that -onlynet does not name.
IsLimited(net) == option.onlynet # {} /\ net \notin option.onlynet

HaveNameProxy == HasProxy /\ option.socks = 5
GetProxy_OnlyFirst(net) == net = "ipv4" /\ HasProxy /\ ~IsLimited(net)
GetProxy(net) ==
    \/ net = "ipv4" /\ HasProxy /\ ~IsLimited(net)
    \/ net = "ipv6" /\ HasProxy /\ option.socks = 5 /\ ~IsLimited(net)
    \/ net = "tor" /\ option.tor # "0" /\ (HasProxy \/ option.tor # Unset)

-----------------------------------------------------------------------------
(* Contacts. *)

\* ConnectSocket.  No route leads to an onion address without a proxy.
ConnectSocket(net) ==
    IF GetProxy(net) THEN {<<"proxy", net>>} ELSE IF net = "tor" THEN {} ELSE {<<"direct", net>>}

\* ConnectSocketByName of a name, which is no numeric address: it is resolved here, or the
\* name proxy gets it.
ConnectByName ==
    IF fNameLookup /\ ~HaveNameProxy
    THEN {<<"lookup", "name">>} \cup ConnectSocket("ipv4")
    ELSE IF HaveNameProxy THEN {<<"proxy", "name">>} ELSE {}

Contact(c) == contacts' = contacts \cup c /\ UNCHANGED <<option, mapLocalHost>>

\* ThreadOpenConnections2: an address of the address manager.
OpenChosen(net) == ~IsLimited(net) /\ Contact(ConnectSocket(net))

\* -connect and ProcessOneShot; the one shots are names for the name proxy.
OpenNamed == Contact(ConnectByName)

\* ThreadDNSAddressSeed2.
SeedFromDns == Contact(IF HaveNameProxy THEN ConnectByName ELSE {<<"lookup", "name">>})

\* ThreadOpenAddedConnections2 always has one numeric address of its own (net.cpp:1479).
OpenAdded == Contact(ConnectSocket("ipv4"))

\* ThreadGetMyExternalIP, which Discover starts.
AskExternalIp == fDiscover /\ ~IsLimited("ipv4") /\ Contact({<<"lookup", "name">>} \cup ConnectSocket("ipv4"))

-----------------------------------------------------------------------------
(* Local addresses. *)

NetOf(class) == IF class \in {"teredo", "tunnel"} THEN "ipv6" ELSE class

\* AddLocal of an address found on an interface, told by a web page or set by the user.
AddLocal(a) ==
    /\ LocalNet[a] # "private"
    /\ fDiscover \/ FoundScore[a] >= Manual
    /\ FoundScore[a] = Manual => option.externalip
    /\ ~IsLimited(NetOf(LocalNet[a]))
    /\ LET found == a \in DOMAIN mapLocalHost IN
       /\ found => mapLocalHost[a] < MaxScore
       /\ mapLocalHost' = [b \in DOMAIN mapLocalHost \cup {a} |->
            IF b # a THEN mapLocalHost[b]
            ELSE IF ~found THEN FoundScore[a]
            ELSE IF FoundScore[a] >= mapLocalHost[a] THEN FoundScore[a] + 1 ELSE mapLocalHost[a]]
    /\ UNCHANGED <<option, contacts>>

\* SeenLocal: a peer that connected to us says at which address it found us.
SeenLocal_Learns(a) ==
    /\ fListen
    /\ a \in DOMAIN mapLocalHost => mapLocalHost[a] < MaxScore
    /\ mapLocalHost' = [b \in DOMAIN mapLocalHost \cup {a} |->
         IF b # a THEN mapLocalHost[b]
         ELSE IF a \in DOMAIN mapLocalHost THEN mapLocalHost[a] + 1 ELSE 1]
    /\ UNCHANGED <<option, contacts>>

SeenLocal(a) ==
    /\ fListen /\ a \in DOMAIN mapLocalHost /\ mapLocalHost[a] < MaxScore
    /\ mapLocalHost' = [mapLocalHost EXCEPT ![a] = @ + 1]
    /\ UNCHANGED <<option, contacts>>

\* GetReachabilityFrom: how well a partner of the given class reaches us.
Unreachable == 0
Default == 1
Teredo == 2
Ipv6Weak == 3
Ipv4 == 4
Ipv6Strong == 5
Private == 6

Reachability(our, their) ==
    IF our = "private" THEN Unreachable
    ELSE CASE their = our /\ our = "ipv6" -> Ipv6Strong
           [] their = "ipv6" /\ our = "tunnel" -> Ipv6Weak
           [] our = "tor" /\ their \in {"tor", "private"} -> Private
           [] our = "ipv4" -> Ipv4
           [] our = "teredo" /\ their # "tor" /\ their # "ipv4" -> Teredo
           [] our \in {"ipv6", "tunnel"} /\ their \in {"teredo", "private"} -> Ipv6Weak
           [] OTHER -> Default

\* GetLocal: of the best reachable addresses one with the best score.
GetLocal(their) ==
    LET best(S, f(_)) == {a \in S : \A b \in S : f(a) >= f(b)}
        reach(a) == Reachability(LocalNet[a], their)
        score(a) == mapLocalHost[a]
    IN  IF ~fListen THEN {} ELSE best(best(DOMAIN mapLocalHost, reach), score)

-----------------------------------------------------------------------------
ReachInit == option \in OptionSets /\ contacts = {} /\ mapLocalHost = [a \in {} |-> 0]

ReachNext ==
    \/ \E net \in Nets : OpenChosen(net)
    \/ OpenNamed \/ SeedFromDns \/ OpenAdded \/ AskExternalIp
    \/ \E a \in LocalAddr : AddLocal(a) \/ SeenLocal(a)

-----------------------------------------------------------------------------
\* Behind a SOCKS5 proxy for everything the node neither connects directly nor asks a name
\* server, as long as the user neither asks for the discovery of addresses nor limits the
\* networks (init.cpp:370-378, init.cpp:557-571, netbase.cpp:525).
ProxyHides(unlimited) ==
    HasProxy /\ option.socks = 5 /\ option.discover = Unset /\ option.listen = Unset
    /\ (unlimited => option.onlynet = {})
    => \A c \in contacts : c[1] = "proxy"

\* Without other options the address that the user has set is the one the node gives itself,
\* whatever it finds on its interfaces and however often its peers have seen it elsewhere
\* (init.cpp:381-384, net.cpp:224).
UsersAddressWins ==
    option.externalip /\ option.discover = Unset =>
        \A a \in DOMAIN mapLocalHost : FoundScore[a] = Manual

\* A hidden partner gets the hidden address, and one in the open never does when there is another.
PartnersAreServed ==
    /\ \A a \in GetLocal("tor") :
        LocalNet[a] # "tor" => \A b \in DOMAIN mapLocalHost : LocalNet[b] # "tor"
    /\ \A a \in GetLocal("ipv4") :
        LocalNet[a] = "tor" => \A b \in DOMAIN mapLocalHost : LocalNet[b] # "ipv4"

ReachIsRight == ProxyHides(TRUE) /\ UsersAddressWins /\ PartnersAreServed

\* Without the exception: what the code does not keep.
LimitedProxyHides == ProxyHides(FALSE)
\* "Make a particular network entirely off-limits (no automatic connects to it)", net.cpp:253.
LimitedIsOffLimits == option.onlynet = {"tor"} => <<"direct", "ipv4">> \notin contacts
=============================================================================
