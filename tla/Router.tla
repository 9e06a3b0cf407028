------------------------------- MODULE Router -------------------------------
(***************************************************************************)
(* The router as a whole: the boot sequence of init_router (main.cpp), the *)
(* way of an IPv4 packet through drop check, firewall, DHCP, address       *)
(* translation and routing (packet_read.cpp, firewall.cpp, route.cpp), and *)
(* its hand-over to the sender by the main loop (main.cpp).                *)
(*                                                                         *)
(* The translator is seen through its abstract specification Sessions,     *)
(* which Nat implements; the sender is Neighbor.                           *)
(***************************************************************************)
EXTENDS Integers, SequencesExt

CONSTANTS
  Zero, LanIp, WanIp, Gateway,  \* 0.0.0.0, the router, the WAN's next router
  LanLink, WanLink,  \* the addresses of the /24 of either side
  Private,           \* the addresses of 10.0.0.0/8
  Loopback, Multicast,
  Elsewhere,         \* any other address
  Neighbors,         \* addresses that ARP frames come from
  Inputs,            \* the packets that arrive
  Flows, Keys, Numbers, Nobody,  \* of Sessions
  Forwards,          \* port_forward: records [flow, port]
  BlockList,         \* block_list: addresses
  DefaultPolicy,     \* default_policy
  MaxPackets         \* bound on the packets handed to the sender

Address == LanLink \cup WanLink \cup Private \cup Loopback \cup Multicast
             \cup Elsewhere \cup {Zero}

Translated == {"TCP", "UDP", "ICMP"}

Actions == {"accept", "drop", "reject"}

Packet == [proto : Translated \cup {"other"}, src : Address, dst : Address,
           sport : Nat, dport : Nat, ttl : Nat]

\* Where ipv4_read_handler branches; is_lan_ip is the /8, not the link.
ToMe(p) == p.dst \in {LanIp, WanIp}
Leaves(p) == p.src \in Private /\ p.dst \notin Private
Enters(p) == p.src \notin Private /\ ToMe(p)

PortOf(f) == <<f.flow.proto, f.port>>

\* Forwards of TCP and UDP have no time stamp to begin with; an ICMP one is
\* stamped as soon as it is used, and expires.
Lasting == {f \in Forwards : f.flow.proto # "ICMP"}

FlowOf(p) == [proto |-> p.proto, ip |-> p.src, port |-> p.sport]

ASSUME AddressAssumption ==
  /\ LanIp \in LanLink /\ {WanIp, Gateway} \subseteq WanLink
  /\ LanLink \subseteq Private /\ WanLink \cap Private = {}
  /\ (Private \cup WanLink \cup {Zero}) \cap (Loopback \cup Multicast) = {}
  /\ Zero \notin Private \cup WanLink \cup Elsewhere

ASSUME InputAssumption ==
  /\ Inputs \subseteq Packet
  /\ \A f \in Forwards : /\ f.flow \in Flows /\ f.flow.ip \in Address \ Loopback
                          /\ PortOf(f) \in Keys
  /\ \A f, g \in Forwards : PortOf(f) = PortOf(g) => f = g
  /\ Nobody \notin Flows
  /\ \A p \in Inputs : p.proto \in Translated =>
       /\ Leaves(p) => FlowOf(p) \in Flows
       /\ Enters(p) => <<p.proto, p.dport>> \in Keys
  /\ DefaultPolicy \in Actions /\ BlockList \in Seq(Address)
  /\ Neighbors \subseteq LanLink \cup WanLink \cup {Zero}
  /\ MaxPackets \in Nat

VARIABLES
  stage,     \* how many of the init functions have run
  firewall,  \* firewall_table
  routes,    \* routing_table
  known,     \* the router's own addresses have been read
  owner, wire,  \* of Sessions
  resolved, pending, probes, replies, out, count, lost  \* of Neighbor

sessions == <<owner, wire>>
tables == <<stage, firewall, routes, known>>
neighbor == <<resolved, pending, probes, replies, out, count, lost>>
vars == <<tables, sessions, neighbor>>

Hops == Neighbors \cup {Gateway, Zero} \cup {p.dst : p \in Inputs}
          \cup {k.ip : k \in Flows}

N == INSTANCE Neighbor WITH LanHops <- LanLink \cap Hops

S == INSTANCE Sessions WITH Recorded <- {k \in Flows : k.proto # "UDP"},
                            Permanent <- {PortOf(f) : f \in Lasting}

-----------------------------------------------------------------------------
(***************************************************************************)
(* The firewall.                                                           *)
(***************************************************************************)
Wildcard == 0

\* check_entry: a condition of zero is met by everything.
Matches(c, p) == \A f \in DOMAIN c \ {"action"} : c[f] \in {Wildcard, p[f]}

Rule(src, action) ==
  [src |-> src, dst |-> Wildcard, proto |-> Wildcard, sport |-> Wildcard,
   dport |-> Wildcard, action |-> action]

\* find_firewall_entry, for the protocols it is called for.
Verdict(p) ==
  LET i == SelectInSeq(firewall, LAMBDA c : Matches(c, p))
  IN IF p.proto \notin Translated \/ i = 0 THEN "accept" ELSE firewall[i].action

\* ipv4_packet_drop_check
Dropped(p) == \/ p.dst \in Loopback \cup Multicast
              \/ p.src = WanIp \/ p.src = p.dst
              \/ p.ttl <= 1
              \/ Verdict(p) # "accept"

-----------------------------------------------------------------------------
(***************************************************************************)
(* Routing.  An entry stands for the addresses its network covers; masks   *)
(* are numbers with their first byte lowest, as the host compares them.    *)
(***************************************************************************)
Mask24 == 255 + 256 * 255 + 65536 * 255
Mask8 == 255

Entry(net, mask, gateway, interface, metric) ==
  [net |-> net, mask |-> mask, gateway |-> gateway, interface |-> interface,
   metric |-> metric]

\* What init_routing_table pushes; the addresses of the router are zero until
\* they have been read.
Entries ==
  {Entry(Address, 0, IF known THEN Gateway ELSE Zero, "wan", 99),
   Entry(Loopback, Mask8, Zero, "lo", 1),
   Entry(IF known THEN LanLink ELSE {Zero}, Mask24, Zero, "lan", 1),
   Entry(IF known THEN WanLink ELSE {Zero}, Mask24, Zero, "wan", 10)}

\* Faulty: shorter masks first.
BeforeByShortest(a, b) ==
  IF a.mask # b.mask THEN a.mask < b.mask ELSE a.metric < b.metric

\* The order of std::sort.
Before(a, b) == IF a.mask # b.mask THEN a.mask > b.mask ELSE a.metric < b.metric

Sorted(s) == \A i, j \in DOMAIN s : i < j => ~Before(s[j], s[i])

\* routing_table_find
Route(a) == routes[SelectInSeq(routes, LAMBDA e : a \in e.net)]

\* Faulty: a neighbour on the link is not its own next hop.
NextHopGateway(a) == Route(a).gateway

NextHop(a) == IF Route(a).gateway = Zero THEN a ELSE Route(a).gateway

-----------------------------------------------------------------------------
(***************************************************************************)
(* Boot.                                                                   *)
(***************************************************************************)
\* Faulty: the translator is initialised after the configuration is read.
BootOrderNatLate ==
  <<"dhcp", "config", "nat", "info", "routes", "mac", "firewall", "wifi">>

\* init_router
BootOrder ==
  <<"nat", "dhcp", "config", "info", "routes", "mac", "firewall", "wifi">>

Booting(part) ==
  /\ stage < Len(BootOrder) /\ BootOrder[stage + 1] = part
  /\ stage' = stage + 1
  /\ UNCHANGED <<wire, pending, probes, replies, out, count, lost>>

\* init_nat_table
InitNat == /\ Booting("nat")
           /\ owner' = [w \in Keys |-> Nobody]
           /\ UNCHANGED <<firewall, routes, known, resolved>>

\* load_config: the default policy is the first rule and matches everything.
LoadConfig ==
  /\ Booting("config")
  /\ owner' = [w \in Keys |->
                 IF \E f \in Forwards : PortOf(f) = w
                   THEN (CHOOSE f \in Forwards : PortOf(f) = w).flow
                   ELSE owner[w]]
  /\ firewall' = firewall \o <<Rule(Wildcard, DefaultPolicy)>>
                   \o [i \in 1 .. Len(BlockList) |-> Rule(BlockList[i], "drop")]
  /\ UNCHANGED <<routes, known, resolved>>

InitInfo == /\ Booting("info")
            /\ known' = TRUE
            /\ UNCHANGED <<firewall, routes, owner, resolved>>

InitRoutes == /\ Booting("routes")
              /\ routes' \in {s \in SetToSeqs(Entries) : Sorted(s)}
              /\ UNCHANGED <<firewall, known, owner, resolved>>

InitMac == /\ Booting("mac")
           /\ resolved' = {}
           /\ UNCHANGED <<firewall, routes, known, owner>>

\* init_firewall_table
InitFirewall == /\ Booting("firewall")
                /\ firewall' = <<>>
                /\ UNCHANGED <<routes, known, owner, resolved>>

\* What the lease table and hostapd.conf hold is not of concern here.
InitOther == /\ \E part \in {"dhcp", "wifi"} : Booting(part)
             /\ UNCHANGED <<firewall, routes, known, owner, resolved>>

Boot == \/ InitNat \/ LoadConfig \/ InitInfo \/ InitRoutes \/ InitMac
        \/ InitFirewall \/ InitOther

Running == stage = Len(BootOrder)

-----------------------------------------------------------------------------
(***************************************************************************)
(* One IPv4 packet through ipv4_read_handler and main.                     *)
(***************************************************************************)
\* 17152: the port whose bytes in network order read as 67.
Swapped67 == 17152

\* main: with next hop 0 UDP is done with; the comparison lacks a conversion.
\* dst is the address in the buffer by then, and what it routes to the
\* interface.  fate and the source are history.
HandOver(p, hop, dst, fate) ==
  IF p.proto = "UDP" /\ hop = Zero /\ p.sport # Swapped67
    THEN UNCHANGED neighbor
    ELSE /\ count < MaxPackets /\ count' = count + 1
         /\ N!EthSend([id |-> count + 1, hop |-> hop, kind |-> fate,
                       held |-> FALSE, src |-> p.src],
                      Route(dst).interface)
         /\ UNCHANGED <<resolved, replies>>

Ignored == wire' = S!Packet("idle", Nobody, 0) /\ UNCHANGED owner

Drop(p) ==
  /\ Dropped(p)
  /\ Ignored
  /\ HandOver(p, Zero, p.dst, "dropped")

IsDhcp(p) == p.proto = "UDP" /\ p.dport = 67

\* The lease table is Dhcp's.  What is not answered is handed over as it came;
\* an answer has source port 67 by then; a request is learnt from.
Dhcp(p) ==
  /\ ~Dropped(p) /\ IsDhcp(p)
  /\ Ignored
  /\ \/ HandOver(p, Zero, p.dst, "dhcp")
     \/ UNCHANGED neighbor
     \/ \E h \in LanLink \cap Hops : N!Learn(h)

Accepted(p) == ~Dropped(p) /\ ~IsDhcp(p)

\* A packet of the LAN with a port of the router, or with its own if there
\* is none left.
Outbound(p) ==
  /\ Accepted(p) /\ Leaves(p) /\ p.proto \in Translated
  /\ \/ /\ \E n \in Numbers : S!Send(FlowOf(p), n)
        /\ HandOver(p, NextHop(p.dst), p.dst, "out")
     \/ /\ S!Pass(FlowOf(p), p.sport)
        /\ HandOver(p, NextHop(p.dst), p.dst, "private")

\* Faulty: the interface is that of the address the packet came with.
InboundEarlyRoute(p) ==
  LET w == <<p.proto, p.dport>>
  IN /\ Accepted(p) /\ Enters(p) /\ w \in Keys
     /\ S!Deliver(w)
     /\ HandOver(p, NextHop(owner[w].ip), p.dst, "in")

\* A packet of the WAN to a port somebody owns.
Inbound(p) ==
  LET w == <<p.proto, p.dport>>
  IN /\ Accepted(p) /\ Enters(p) /\ w \in Keys
     /\ S!Deliver(w)
     /\ HandOver(p, NextHop(owner[w].ip), owner[w].ip, "in")

\* Nobody owns the port: the packet is the router's own, or is sent on to
\* address 0.
InboundUnowned(p) ==
  LET w == <<p.proto, p.dport>>
  IN /\ Accepted(p) /\ Enters(p) /\ w \in Keys
     /\ S!Refuse(w)
     /\ IF wire'.kind = "local" THEN HandOver(p, Zero, p.dst, "local")
        ELSE HandOver(p, NextHop(Zero), Zero, "astray")

\* The router's own address, from the LAN or with no port to translate.
Local(p) ==
  /\ Accepted(p) /\ ToMe(p) /\ ~Leaves(p)
  /\ Enters(p) => p.proto \notin Translated
  /\ Ignored
  /\ HandOver(p, Zero, p.dst, "local")

\* Everything else is routed as it came.
Plain(p) ==
  /\ Accepted(p)
  /\ Leaves(p) => p.proto \notin Translated
  /\ ToMe(p) => Leaves(p)
  /\ Ignored
  /\ HandOver(p, NextHop(p.dst), p.dst, "plain")

Ipv4(p) == \/ Drop(p) \/ Dhcp(p) \/ Outbound(p) \/ Inbound(p) \/ InboundUnowned(p)
           \/ Local(p) \/ Plain(p)

-----------------------------------------------------------------------------
(***************************************************************************)
(* The other frames, and the sweep.                                        *)
(***************************************************************************)
Arp == /\ \/ \E h \in Neighbors : N!Learn(h)
          \/ \E h \in Neighbors, i \in N!Ifaces : N!ReceiveReply(h, i)
          \/ \E h \in Neighbors \ {Zero} : N!ReceiveAnnouncement(h) \/ N!AnswerRequest(h)
       /\ Ignored

\* Neighbours answer on their own.
Reply == /\ \E h \in Neighbors \ {Zero}, i \in N!Ifaces : N!Reply(h, i)
         /\ UNCHANGED sessions

\* What the sweep leaves alone is what Nat is shown to promise in Sessions.
Sweep == S!Close /\ UNCHANGED neighbor

\* Nothing is kept over a restart; what has been sent is history.
Blank ==
  /\ stage' = 0
  /\ firewall' = <<>> /\ routes' = <<>> /\ known' = FALSE
  /\ owner' = [w \in Keys |-> Nobody]
  /\ wire' = S!Packet("idle", Nobody, 0)
  /\ resolved' = {} /\ pending' = [h \in Hops |-> <<>>]

Restart == /\ Running /\ Blank
           /\ UNCHANGED <<probes, replies, out, count, lost>>

Init ==
  /\ stage = 0
  /\ firewall = <<>> /\ routes = <<>> /\ known = FALSE
  /\ owner = [w \in Keys |-> Nobody]
  /\ wire = S!Packet("idle", Nobody, 0)
  /\ N!Init

Run == /\ Running
       /\ (\E p \in Inputs : Ipv4(p)) \/ Arp \/ Reply \/ Sweep
       /\ UNCHANGED tables

Next == Boot \/ Run \/ Restart

Spec == Init /\ [][Next]_vars

-----------------------------------------------------------------------------
Fates == {"dropped", "dhcp", "local", "out", "private", "in", "astray", "plain",
          "answer"}

TypeOK ==
  /\ stage \in 0 .. Len(BootOrder)
  /\ \A i \in DOMAIN firewall : firewall[i].action \in Actions
  /\ Len(routes) \in {0, 4} /\ known \in BOOLEAN
  /\ S!TypeOK
  /\ resolved \subseteq Hops /\ lost \subseteq Hops
  /\ probes \cup replies \subseteq Hops \X N!Ifaces
  /\ \A h \in Hops : \A i \in DOMAIN pending[h] : pending[h][i].kind \in Fates
  /\ \A i \in DOMAIN out : out[i].iface \in N!Ifaces
  /\ count \in 0 .. MaxPackets

\* Every packet the sender has been given, sent or waiting.
Given == {out[i].packet : i \in DOMAIN out}
           \cup UNION {Range(pending[h]) : h \in Hops}

(***************************************************************************)
(* The order of the init functions leaves the configured forwards in       *)
(* place, and neither a packet nor a sweep takes one of TCP or UDP away:   *)
(* from the first packet on, a forwarded port is its host's.               *)
(***************************************************************************)
ForwardsServed ==
  Running => \A f \in Lasting : owner[PortOf(f)] = f.flow

(***************************************************************************)
(* An address is routed by the narrowest network that contains it, for the *)
(* table as boot has built and sorted it, with the addresses known by then. *)
(***************************************************************************)
RouteMostSpecific ==
  Running => \A a \in Address : \A e \in Entries :
    a \in e.net => /\ a \in Route(a).net
                  /\ ~(e.net \subseteq Route(a).net /\ e.net # Route(a).net)

(***************************************************************************)
(* What the branches of the handler decide is what the next hop says:      *)
(* every packet that is routed, translated or not, has a hop, and what is  *)
(* for the router or refused has 0.  What main makes of hop 0 is another   *)
(* matter: see DroppedStays.                                               *)
(***************************************************************************)
ForwardedHasHop ==
  \A q \in Given : q.hop = Zero <=> q.kind \in {"dropped", "dhcp", "local"}

(***************************************************************************)
(* The next hop is looked up before and the interface after the packet has *)
(* been handed back, and held packets leave where the reply came in: every *)
(* routed packet still leaves on the side its next hop is on.              *)
(***************************************************************************)
SideMatchesHop ==
  \A i \in DOMAIN out :
    LET q == out[i].packet
    IN q.hop # Zero /\ q.kind # "answer" => out[i].iface = N!Side(q.hop)

-----------------------------------------------------------------------------
(***************************************************************************)
(* What the comments say and the code does not do.                         *)
(***************************************************************************)
\* packet_read.cpp:93, "drop packets whose time to live has run out": what
\* the drop check refuses is never sent.
DroppedStays == \A i \in DOMAIN out : out[i].packet.kind # "dropped"

\* router_info.cpp:210, "the block list is dropped by default": no packet of
\* a host on the list is sent on.
BlockListDrops ==
  \A i \in DOMAIN out :
    \/ out[i].packet.kind \in {"answer", "dropped"}
    \/ out[i].packet.src \notin Range(BlockList)
=============================================================================
