---------------------------- MODULE RouterProofs ----------------------------
(***************************************************************************)
(* Proofs about Router, for any addresses, packets, forwards and block     *)
(* list, and any number of restarts.                                       *)
(*                                                                         *)
(* The forwards of TCP and UDP are owned from the moment the configuration *)
(* has been read, because the one init function that clears the table runs *)
(* before; from then on a port is opened only if nobody owns it, and never *)
(* closed.  That the sweep of the two tables closes none of theirs is not  *)
(* assumed here: Sessions promises it, and SessionProofs shows that Nat    *)
(* keeps the promise.                                                      *)
(*                                                                         *)
(* The table built at boot is sorted, so the first match is the narrowest  *)
(* network; that gives the next hop and the side of every address.  What   *)
(* is handed to the sender agrees in both, since owners of ports are hosts *)
(* that can be routed to, and the sender keeps it so in its queues.        *)
(***************************************************************************)
EXTENDS Router, FiniteSetTheorems, SequenceTheorems, TLAPS

ForwardsOwned == \A f \in Lasting : owner[PortOf(f)] = f.flow

ServedInv ==
  /\ stage \in 0 .. 8
  /\ owner \in [Keys -> Flows \cup {Nobody}]
  /\ stage > 2 => ForwardsOwned

\* The function the boot sequence is at.
LEMMA BootParts ==
  /\ Len(BootOrder) = 8
  /\ BootOrder[1] = "nat" /\ BootOrder[2] = "dhcp" /\ BootOrder[3] = "config"
  /\ BootOrder[4] = "info" /\ BootOrder[5] = "routes" /\ BootOrder[6] = "mac"
  /\ BootOrder[7] = "firewall" /\ BootOrder[8] = "wifi"
  BY DEF BootOrder

LEMMA ServedInit == Init => ServedInv
  BY DEF Init, ServedInv

(***************************************************************************)
(* The init functions.                                                     *)
(***************************************************************************)
LEMMA BootKeeps ==
  ASSUME ServedInv, Boot
  PROVE  ServedInv'
<1>t. /\ stage \in 0 .. 8 /\ owner \in [Keys -> Flows \cup {Nobody}]
      /\ stage > 2 => ForwardsOwned
  BY DEF ServedInv
<1>b. ASSUME NEW part, Booting(part)
      PROVE  stage \in 0 .. 7 /\ stage' = stage + 1 /\ BootOrder[stage + 1] = part
  BY <1>t, <1>b, BootParts DEF Booting
<1>1. CASE InitNat
  <2>1. stage = 0 /\ stage' = 1
    BY <1>1, <1>b, BootParts DEF InitNat
  <2>2. owner' \in [Keys -> Flows \cup {Nobody}]
    BY <1>1 DEF InitNat
  <2>3. QED
    BY <2>1, <2>2 DEF ServedInv
<1>2. CASE LoadConfig
  <2>1. stage = 2 /\ stage' = 3
    BY <1>2, <1>b, BootParts DEF LoadConfig
  <2>2. owner' = [w \in Keys |->
          IF \E f \in Forwards : PortOf(f) = w
            THEN (CHOOSE f \in Forwards : PortOf(f) = w).flow ELSE owner[w]]
    BY <1>2 DEF LoadConfig
  <2>3. ASSUME NEW f \in Forwards
        PROVE  (CHOOSE g \in Forwards : PortOf(g) = PortOf(f)) = f
    BY InputAssumption
  <2>4. ForwardsOwned'
    <3> SUFFICES ASSUME NEW f \in Lasting PROVE owner'[PortOf(f)] = f.flow
      BY DEF ForwardsOwned, PortOf, Lasting
    <3>1. f \in Forwards /\ PortOf(f) \in Keys
      BY InputAssumption DEF Lasting
    <3>2. QED
      BY <2>2, <2>3, <3>1
  <2>5. owner' \in [Keys -> Flows \cup {Nobody}]
    <3> SUFFICES ASSUME NEW w \in Keys
                 PROVE  (IF \E f \in Forwards : PortOf(f) = w
                           THEN (CHOOSE f \in Forwards : PortOf(f) = w).flow
                           ELSE owner[w]) \in Flows \cup {Nobody}
      BY <2>2
    <3>1. CASE \E f \in Forwards : PortOf(f) = w
      <4>1. (CHOOSE f \in Forwards : PortOf(f) = w) \in Forwards
        BY <3>1
      <4>2. QED
        BY <3>1, <4>1, InputAssumption
    <3>2. CASE ~\E f \in Forwards : PortOf(f) = w
      BY <1>t, <3>2
    <3>3. QED
      BY <3>1, <3>2
  <2>6. QED
    BY <2>1, <2>4, <2>5 DEF ServedInv
<1>3. CASE InitInfo \/ InitRoutes \/ InitMac \/ InitFirewall \/ InitOther
  <2>1. stage \in 0 .. 7 /\ stage # 2 /\ stage' = stage + 1 /\ owner' = owner
    BY <1>3, <1>b, BootParts
    DEF InitInfo, InitRoutes, InitMac, InitFirewall, InitOther
  <2>2. stage' > 2 => ForwardsOwned'
    BY <1>t, <2>1 DEF ForwardsOwned
  <2>3. QED
    BY <1>t, <2>1, <2>2 DEF ServedInv
<1>4. QED
  BY <1>1, <1>2, <1>3 DEF Boot

(***************************************************************************)
(* No packet takes a port from its owner.                                  *)
(***************************************************************************)
LEMMA SendKeeps ==
  ASSUME ServedInv, ForwardsOwned, NEW k \in Flows, NEW n, S!Send(k, n)
  PROVE  owner' \in [Keys -> Flows \cup {Nobody}] /\ ForwardsOwned'
<1>t. owner \in [Keys -> Flows \cup {Nobody}]
  BY DEF ServedInv
<1>1. CASE UNCHANGED owner
  BY <1>t, <1>1 DEF ForwardsOwned, PortOf, Lasting
<1>2. CASE S!Open(k, n)
  <2>1. /\ owner[S!KeyOf(k, n)] = Nobody
        /\ owner' = [owner EXCEPT ![S!KeyOf(k, n)] = k]
    BY <1>2 DEF S!Open
  <2>2. ASSUME NEW f \in Lasting PROVE owner'[PortOf(f)] = f.flow
    <3>1. PortOf(f) # S!KeyOf(k, n) /\ PortOf(f) \in Keys
      BY <2>1, InputAssumption DEF ForwardsOwned, Lasting
    <3>2. QED
      BY <1>t, <2>1, <3>1 DEF ForwardsOwned
  <2>3. QED
    BY <1>t, <2>1, <2>2 DEF ForwardsOwned, PortOf, Lasting
<1>3. QED
  BY <1>1, <1>2 DEF S!Send, S!Use, S!Stray

LEMMA RunKeeps ==
  ASSUME ServedInv, Run
  PROVE  ServedInv'
<1>t. owner \in [Keys -> Flows \cup {Nobody}] /\ stage = 8 /\ stage' = 8
      /\ ForwardsOwned
  BY BootParts DEF ServedInv, Run, Running, tables
<1>k. ASSUME owner' \in [Keys -> Flows \cup {Nobody}], ForwardsOwned'
      PROVE  ServedInv'
  BY <1>t, <1>k DEF ServedInv
<1>u. ASSUME UNCHANGED owner PROVE ServedInv'
  BY <1>t, <1>k, <1>u DEF ForwardsOwned, PortOf, Lasting
<1>1. ASSUME NEW p \in Inputs, Outbound(p) PROVE ServedInv'
  <2>1. FlowOf(p) \in Flows
    BY <1>1, InputAssumption DEF Outbound
  <2>2. CASE \E n \in Numbers : S!Send(FlowOf(p), n)
    BY <1>t, <1>k, <2>1, <2>2, SendKeeps
  <2>3. CASE S!Pass(FlowOf(p), p.sport)
    BY <1>u, <2>3 DEF S!Pass
  <2>4. QED
    BY <1>1, <2>2, <2>3 DEF Outbound
<1>2. ASSUME NEW p \in Inputs, Drop(p) \/ Dhcp(p) \/ Local(p) \/ Plain(p)
      PROVE  ServedInv'
  BY <1>2, <1>u DEF Drop, Dhcp, Local, Plain, Ignored
<1>3. ASSUME NEW p \in Inputs, Inbound(p) PROVE ServedInv'
  BY <1>3, <1>u DEF Inbound, S!Deliver
<1>4. ASSUME NEW p \in Inputs, InboundUnowned(p) PROVE ServedInv'
  BY <1>4, <1>u DEF InboundUnowned, S!Refuse
<1>5. CASE Arp
  BY <1>5, <1>u DEF Arp, Ignored
<1>6. CASE Reply
  BY <1>6, <1>u DEF Reply, sessions
<1>7. CASE Sweep
  <2>1. owner' \in [Keys -> Flows \cup {Nobody}]
    BY <1>t, <1>7 DEF Sweep, S!Close
  <2>2. ForwardsOwned'
    <3> SUFFICES ASSUME NEW f \in Lasting PROVE owner'[PortOf(f)] = f.flow
      BY DEF ForwardsOwned, PortOf, Lasting
    <3>1. PortOf(f) \in {PortOf(g) : g \in Lasting} /\ PortOf(f) \in Keys
      BY InputAssumption DEF Lasting
    <3>2. owner'[PortOf(f)] = owner[PortOf(f)]
      BY <1>7, <3>1 DEF Sweep, S!Close
    <3>3. QED
      BY <1>t, <3>2 DEF ForwardsOwned
  <2>3. QED
    BY <1>k, <2>1, <2>2
<1>8. QED
  BY <1>1, <1>2, <1>3, <1>4, <1>5, <1>6, <1>7 DEF Run, Ipv4

LEMMA ServedNext == ServedInv /\ [Next]_vars => ServedInv'
<1> SUFFICES ASSUME ServedInv, [Next]_vars PROVE ServedInv'
  OBVIOUS
<1>1. CASE Restart
  BY <1>1 DEF Restart, Blank, ServedInv
<1>2. CASE UNCHANGED vars
  BY <1>2 DEF vars, tables, sessions, ServedInv, ForwardsOwned, PortOf, Lasting
<1>3. QED
  BY <1>1, <1>2, BootKeeps, RunKeeps DEF Next

(***************************************************************************)
(* From the first packet on, a port forwarded for TCP or UDP is its host's *)
(* (main.cpp:76-82): for any packets, sweeps and restarts, and any forwards *)
(* that do not share a port.                                               *)
(***************************************************************************)
THEOREM ForwardsAlwaysServed == Spec => []ForwardsServed
<1>1. ServedInv => ForwardsServed
  BY BootParts DEF ServedInv, ForwardsServed, Running, ForwardsOwned
<1>2. QED
  BY <1>1, ServedInit, ServedNext, PTL DEF Spec

-----------------------------------------------------------------------------
(***************************************************************************)
(* The routing table as boot has built it: the four entries, with the      *)
(* router's addresses known, in an order std::sort may leave.              *)
(***************************************************************************)
Routed == known /\ routes \in SetToSeqs(Entries) /\ Sorted(routes)

DefaultRoute == Entry(Address, 0, Gateway, "wan", 99)
LoopRoute == Entry(Loopback, Mask8, Zero, "lo", 1)
LanRoute == Entry(LanLink, Mask24, Zero, "lan", 1)
WanRoute == Entry(WanLink, Mask24, Zero, "wan", 10)

LEMMA FourEntries ==
  ASSUME known
  PROVE  /\ Entries = {DefaultRoute, LoopRoute, LanRoute, WanRoute}
         /\ IsFiniteSet(Entries) /\ Cardinality(Entries) = 4
<1>1. Entries = {DefaultRoute, LoopRoute, LanRoute, WanRoute}
  BY DEF Entries, DefaultRoute, LoopRoute, LanRoute, WanRoute
<1>2. /\ DefaultRoute # LoopRoute /\ DefaultRoute # LanRoute /\ DefaultRoute # WanRoute
      /\ LoopRoute # LanRoute /\ LoopRoute # WanRoute /\ LanRoute # WanRoute
  BY DEF DefaultRoute, LoopRoute, LanRoute, WanRoute, Entry, Mask8, Mask24
<1>3. IsFiniteSet({DefaultRoute}) /\ Cardinality({DefaultRoute}) = 1
  BY FS_Singleton
<1>4. /\ IsFiniteSet({DefaultRoute} \cup {LoopRoute})
      /\ Cardinality({DefaultRoute} \cup {LoopRoute}) = 2
  BY <1>2, <1>3, FS_AddElement
<1>5. /\ IsFiniteSet(({DefaultRoute} \cup {LoopRoute}) \cup {LanRoute})
      /\ Cardinality(({DefaultRoute} \cup {LoopRoute}) \cup {LanRoute}) = 3
  BY <1>2, <1>4, FS_AddElement
<1>6. /\ IsFiniteSet((({DefaultRoute} \cup {LoopRoute}) \cup {LanRoute}) \cup {WanRoute})
      /\ Cardinality((({DefaultRoute} \cup {LoopRoute}) \cup {LanRoute}) \cup {WanRoute}) = 4
  BY <1>2, <1>5, FS_AddElement
<1>7. Entries = (({DefaultRoute} \cup {LoopRoute}) \cup {LanRoute}) \cup {WanRoute}
  BY <1>1
<1>8. QED
  BY <1>1, <1>6, <1>7

\* Sorting loses no entry.
LEMMA AllEntriesStand ==
  ASSUME Routed
  PROVE  /\ routes \in [1 .. 4 -> Entries] /\ Len(routes) = 4
         /\ \A e \in Entries : \E i \in 1 .. 4 : routes[i] = e
<1>1. IsFiniteSet(Entries) /\ Cardinality(Entries) = 4
  BY FourEntries DEF Routed
<1>2. /\ routes \in [1 .. 4 -> Entries]
      /\ \A i, j \in 1 .. 4 : i # j => routes[i] # routes[j]
  BY <1>1 DEF Routed, SetToSeqs
<1>3. routes \in Injection(1 .. 4, Entries)
  BY <1>2 DEF Injection, IsInjective
<1>4. Cardinality(1 .. 4) = 4
  <2>1. 1 \in Int /\ 4 \in Int
    OBVIOUS
  <2>2. Cardinality(1 .. 4) = IF 1 > 4 THEN 0 ELSE 4 - 1 + 1
    BY <2>1, FS_Interval, Zenon
  <2>3. QED
    BY <2>2
<1>5. routes \in Surjection(1 .. 4, Entries)
  BY <1>1, <1>3, <1>4, FS_Injection
<1>6. QED
  BY <1>2, <1>5 DEF Surjection

(***************************************************************************)
(* The lookup returns the first entry that covers the address, and there   *)
(* always is one, since the default route covers everything.               *)
(***************************************************************************)
LEMMA FirstMatch ==
  ASSUME Routed, NEW a \in Address
  PROVE  \E i \in 1 .. 4 : /\ Route(a) = routes[i] /\ a \in routes[i].net
                           /\ \A j \in 1 .. 4 : a \in routes[j].net => i <= j
<1> DEFINE I == {i \in 1 .. 4 : a \in routes[i].net}
<1>1. I # {}
  <2>1. DefaultRoute \in Entries /\ a \in DefaultRoute.net
    BY FourEntries DEF Routed, DefaultRoute, Entry
  <2>2. QED
    BY <2>1, AllEntriesStand
<1>2. \E i \in I : \A j \in I : i <= j
  <2>1. CASE 1 \in I
    BY <2>1
  <2>2. CASE 1 \notin I /\ 2 \in I
    BY <2>2
  <2>3. CASE 1 \notin I /\ 2 \notin I /\ 3 \in I
    BY <2>3
  <2>4. CASE 1 \notin I /\ 2 \notin I /\ 3 \notin I /\ 4 \in I
    BY <2>4
  <2>5. QED
    BY <1>1, <2>1, <2>2, <2>3, <2>4
<1>3. Min(I) \in I /\ \A j \in I : Min(I) <= j
  BY <1>2 DEF Min
<1>4. Route(a) = routes[Min(I)]
  <2>1. SelectInSeq(routes, LAMBDA e : a \in e.net) =
          IF I # {} THEN Min(I) ELSE 0
    BY AllEntriesStand DEF SelectInSeq
  <2>2. QED
    BY <1>1, <2>1 DEF Route
<1>5. QED
  BY <1>3, <1>4

(***************************************************************************)
(* No entry that covers the address belongs before the one that is found.  *)
(***************************************************************************)
LEMMA NoneBefore ==
  ASSUME Routed, NEW a \in Address
  PROVE  /\ Route(a) \in Entries /\ a \in Route(a).net
         /\ \A e \in Entries : a \in e.net => ~Before(e, Route(a))
<1>1. PICK i \in 1 .. 4 : /\ Route(a) = routes[i] /\ a \in routes[i].net
                         /\ \A j \in 1 .. 4 : a \in routes[j].net => i <= j
  BY FirstMatch
<1>2. /\ routes \in [1 .. 4 -> Entries]
      /\ \A e \in Entries : \E j \in 1 .. 4 : routes[j] = e
  BY AllEntriesStand
<1>3. ASSUME NEW e \in Entries, a \in e.net PROVE ~Before(e, Route(a))
  <2>1. PICK j \in 1 .. 4 : routes[j] = e
    BY <1>2
  <2>2. CASE i < j
    BY <1>1, <1>2, <2>1, <2>2 DEF Routed, Sorted
  <2>3. CASE i = j
    <3>1. e.mask \in Int /\ e.metric \in Int
      BY FourEntries DEF Routed, DefaultRoute, LoopRoute, LanRoute, WanRoute, Entry,
                         Mask8, Mask24
    <3>2. QED
      BY <1>1, <2>1, <2>3, <3>1 DEF Before
  <2>4. QED
    BY <1>1, <1>3, <2>1, <2>2, <2>3
<1>4. QED
  BY <1>1, <1>2, <1>3

(***************************************************************************)
(* What the lookup comes to, for every address.                            *)
(***************************************************************************)
LEMMA RouteOf ==
  ASSUME Routed, NEW a \in Address
  PROVE  /\ a \in LanLink => Route(a) = LanRoute
         /\ a \in WanLink => Route(a) = WanRoute
         /\ a \in Loopback => Route(a) = LoopRoute
         /\ a \notin LanLink \cup WanLink \cup Loopback => Route(a) = DefaultRoute
<1>1. /\ Route(a) \in {DefaultRoute, LoopRoute, LanRoute, WanRoute}
      /\ a \in Route(a).net
      /\ \A e \in {DefaultRoute, LoopRoute, LanRoute, WanRoute} :
           a \in e.net => ~Before(e, Route(a))
  BY NoneBefore, FourEntries DEF Routed
<1>2. /\ DefaultRoute.net = Address /\ LoopRoute.net = Loopback
      /\ LanRoute.net = LanLink /\ WanRoute.net = WanLink
      /\ Before(LoopRoute, DefaultRoute) /\ Before(LanRoute, DefaultRoute)
      /\ Before(WanRoute, DefaultRoute)
  BY DEF DefaultRoute, LoopRoute, LanRoute, WanRoute, Entry, Mask8, Mask24, Before
<1>3. /\ LanLink \cap WanLink = {} /\ LanLink \cap Loopback = {}
      /\ WanLink \cap Loopback = {}
  BY AddressAssumption
<1>4. QED
  BY <1>1, <1>2, <1>3

LEMMA MostSpecific == Routed => \A a \in Address : \A e \in Entries :
  a \in e.net => /\ a \in Route(a).net
                /\ ~(e.net \subseteq Route(a).net /\ e.net # Route(a).net)
<1> SUFFICES ASSUME Routed, NEW a \in Address, NEW e \in Entries, a \in e.net,
                    e.net \subseteq Route(a).net
             PROVE  a \in Route(a).net /\ e.net = Route(a).net
  BY NoneBefore
<1>1. a \in Route(a).net /\ ~Before(e, Route(a)) /\ Route(a) \in Entries
  BY NoneBefore
<1>2. Entries = {DefaultRoute, LoopRoute, LanRoute, WanRoute}
  BY FourEntries DEF Routed
<1>3. /\ DefaultRoute.net = Address /\ LoopRoute.net = Loopback
      /\ LanRoute.net = LanLink /\ WanRoute.net = WanLink
      /\ Before(LoopRoute, DefaultRoute) /\ Before(LanRoute, DefaultRoute)
      /\ Before(WanRoute, DefaultRoute)
  BY DEF DefaultRoute, LoopRoute, LanRoute, WanRoute, Entry, Mask8, Mask24, Before
<1>4. /\ LanLink \cap WanLink = {} /\ LanLink \cap Loopback = {}
      /\ WanLink \cap Loopback = {} /\ LanLink \cup WanLink \cup Loopback \subseteq Address
  BY AddressAssumption DEF Address
<1>5. QED
  BY <1>1, <1>2, <1>3, <1>4

-----------------------------------------------------------------------------
(***************************************************************************)
(* The sender under the router.  A parcel has a hop exactly when its fate  *)
(* is to be sent, and a routed one leaves on the side its hop is on: where *)
(* a neighbour's reply comes in is where the neighbour is.                 *)
(***************************************************************************)
Sides == {"lan", "wan", "lo"}

Unsent == {"dropped", "dhcp", "local"}

Parcel ==
  {q \in [id : Nat, hop : Hops, kind : Fates, held : BOOLEAN]
          \cup [id : Nat, hop : Hops, kind : Fates, held : BOOLEAN, src : Address] :
     q.hop = Zero <=> q.kind \in Unsent}

RightSide(q, iface) == q.hop # Zero /\ q.kind # "answer" => iface = N!Side(q.hop)

Carried == {f \in [packet : Parcel, iface : Sides] : RightSide(f.packet, f.iface)}

SenderInv ==
  /\ pending \in [Hops -> Seq(Parcel)]
  /\ \A h \in Hops : \A i \in DOMAIN pending[h] : pending[h][i].hop = h
  /\ out \in Seq(Carried)
  /\ resolved \subseteq Hops /\ lost \subseteq Hops
  /\ probes \subseteq Hops \X Sides
  /\ replies \subseteq {<<h, N!Side(h)>> : h \in Hops}
  /\ count \in 0 .. MaxPackets

LEMMA SenderShows == SenderInv => ForwardedHasHop /\ SideMatchesHop
<1> SUFFICES ASSUME SenderInv PROVE ForwardedHasHop /\ SideMatchesHop
  OBVIOUS
<1>1. ASSUME NEW i \in DOMAIN out
      PROVE  /\ out[i].packet \in Parcel /\ out[i].iface \in Sides
             /\ RightSide(out[i].packet, out[i].iface)
  <2>1. out[i] \in Carried
    BY DEF SenderInv
  <2>2. QED
    BY <2>1 DEF Carried
<1>2. ASSUME NEW h \in Hops, NEW q \in Range(pending[h]) PROVE q \in Parcel
  BY DEF SenderInv, Range
<1>3. ForwardedHasHop
  <2>1. \A q \in Given : q \in Parcel
    BY <1>1, <1>2 DEF Given
  <2>2. QED
    BY <2>1 DEF ForwardedHasHop, Parcel, Unsent
<1>4. SideMatchesHop
  BY <1>1 DEF SideMatchesHop, RightSide
<1>5. QED
  BY <1>3, <1>4

LEMMA HeldParcel ==
  ASSUME NEW q \in Parcel
  PROVE  /\ [q EXCEPT !.held = TRUE] \in Parcel
         /\ [q EXCEPT !.held = TRUE].hop = q.hop /\ q.hop \in Hops
<1> DEFINE r == [q EXCEPT !.held = TRUE]
<1>1. CASE q \in [id : Nat, hop : Hops, kind : Fates, held : BOOLEAN]
  <2>1. /\ r \in [id : Nat, hop : Hops, kind : Fates, held : BOOLEAN]
        /\ r.hop = q.hop /\ r.kind = q.kind /\ q.hop \in Hops
    BY <1>1
  <2> HIDE DEF r
  <2>2. r \in Parcel
    BY <2>1 DEF Parcel
  <2>3. QED
    BY <2>1, <2>2 DEF r
<1>2. CASE q \in [id : Nat, hop : Hops, kind : Fates, held : BOOLEAN, src : Address]
  <2>1. /\ r \in [id : Nat, hop : Hops, kind : Fates, held : BOOLEAN, src : Address]
        /\ r.hop = q.hop /\ r.kind = q.kind /\ q.hop \in Hops
    BY <1>2
  <2> HIDE DEF r
  <2>2. r \in Parcel
    BY <2>1 DEF Parcel
  <2>3. QED
    BY <2>1, <2>2 DEF r
<1>3. QED
  BY <1>1, <1>2 DEF Parcel

(***************************************************************************)
(* eth_send_handler, with a parcel and the interface of its route.         *)
(***************************************************************************)
LEMMA EthSendKeeps ==
  ASSUME SenderInv, NEW q \in Parcel, NEW iface \in Sides, RightSide(q, iface),
         N!EthSend(q, iface), count < MaxPackets, count' = count + 1,
         UNCHANGED <<resolved, replies>>
  PROVE  SenderInv'
<1>t. /\ pending \in [Hops -> Seq(Parcel)] /\ out \in Seq(Carried)
      /\ probes \subseteq Hops \X Sides /\ resolved \subseteq Hops
      /\ lost \subseteq Hops /\ replies \subseteq {<<h, N!Side(h)>> : h \in Hops}
      /\ q.hop \in Hops
      /\ \A h \in Hops : \A i \in DOMAIN pending[h] : pending[h][i].hop = h
  BY HeldParcel DEF SenderInv
<1>c. count' \in 0 .. MaxPackets
  BY InputAssumption DEF SenderInv
<1>1. CASE q.hop \in resolved
  <2> DEFINE f == [packet |-> q, iface |-> iface]
  <2>1. f \in Carried
    BY DEF Carried
  <2>2. out' = Append(out, f) /\ UNCHANGED <<pending, probes, lost>>
    BY <1>1 DEF N!EthSend
  <2> HIDE DEF f
  <2>3. out' \in Seq(Carried)
    BY <1>t, <2>1, <2>2
  <2>4. QED
    BY <1>t, <1>c, <2>2, <2>3 DEF SenderInv
<1>2. CASE q.hop \notin resolved
  <2> DEFINE r == [q EXCEPT !.held = TRUE]
             g == q.hop
  <2>1. r \in Parcel /\ r.hop = g /\ g \in Hops
    BY HeldParcel
  <2>2. /\ pending' = [pending EXCEPT ![g] = Append(@, r)]
        /\ probes' = probes \cup {<<g, iface>>} /\ UNCHANGED out
        /\ lost' \subseteq lost
    BY <1>2 DEF N!EthSend, N!Hold
  <2> HIDE DEF r, g
  <2>3. pending[g] \in Seq(Parcel)
    BY <1>t, <2>1
  <2>4. /\ pending'[g] \in Seq(Parcel) /\ Len(pending'[g]) = Len(pending[g]) + 1
        /\ \A i \in 1 .. Len(pending[g]) : pending'[g][i] = pending[g][i]
        /\ pending'[g][Len(pending[g]) + 1] = r
    BY <1>t, <2>1, <2>2, <2>3, AppendProperties
  <2>5. pending' \in [Hops -> Seq(Parcel)]
    BY <1>t, <2>1, <2>2, <2>4
  <2>6. ASSUME NEW h \in Hops, NEW i \in DOMAIN pending'[h]
        PROVE  pending'[h][i].hop = h
    <3>1. CASE h = g
      <4>1. CASE i \in 1 .. Len(pending[g])
        <5>1. pending'[g][i] = pending[g][i] /\ pending[g][i].hop = g
          BY <1>t, <2>1, <2>3, <2>4, <4>1
        <5>2. QED
          BY <3>1, <5>1
      <4>2. CASE i = Len(pending[g]) + 1
        BY <2>1, <2>4, <3>1, <4>2
      <4>3. QED
        BY <2>3, <2>4, <3>1, <4>1, <4>2
    <3>2. CASE h # g
      <4>1. pending'[h] = pending[h]
        BY <1>t, <2>2, <3>2
      <4>2. QED
        BY <1>t, <4>1
    <3>3. QED
      BY <3>1, <3>2
  <2>7. probes' \subseteq Hops \X Sides
    BY <1>t, <2>1, <2>2
  <2>8. QED
    BY <1>t, <1>c, <2>2, <2>5, <2>6, <2>7 DEF SenderInv
<1>3. QED
  BY <1>1, <1>2

(***************************************************************************)
(* pending_packet_send_handler sends where the reply came in, which is the *)
(* side of the hop of all it sends.                                        *)
(***************************************************************************)
LEMMA FlushKeeps ==
  ASSUME SenderInv, NEW h \in Hops, N!LearnAndFlush(h, N!Side(h)), replies' \subseteq replies
  PROVE  SenderInv'
<1> DEFINE s == N!Flushed(h, N!Side(h))
<1>1. /\ pending \in [Hops -> Seq(Parcel)] /\ out \in Seq(Carried)
      /\ pending[h] \in Seq(Parcel)
  BY DEF SenderInv
<1>2. s \in Seq(Carried)
  <2>1. s = [i \in 1 .. Len(pending[h]) |-> [packet |-> pending[h][i], iface |-> N!Side(h)]]
    BY <1>1 DEF N!Flushed, N!Frames
  <2>2. N!Side(h) \in Sides
    BY DEF N!Side, Sides
  <2> HIDE DEF s
  <2>3. ASSUME NEW i \in 1 .. Len(pending[h])
        PROVE  [packet |-> pending[h][i], iface |-> N!Side(h)] \in Carried
    <3>1. pending[h][i] \in Parcel /\ pending[h][i].hop = h
      BY <1>1 DEF SenderInv
    <3>2. RightSide(pending[h][i], N!Side(h))
      BY <3>1 DEF RightSide
    <3>3. QED
      BY <2>2, <3>1, <3>2 DEF Carried
  <2>4. QED
    BY <1>1, <2>1, <2>3
<1>3. /\ out' = out \o s /\ pending' = [pending EXCEPT ![h] = <<>>]
      /\ resolved' = resolved \cup {h}
      /\ UNCHANGED <<probes, count, lost>>
  BY DEF N!LearnAndFlush
<1> HIDE DEF s
<1>4. out' \in Seq(Carried)
  BY <1>1, <1>2, <1>3
<1>5. pending' \in [Hops -> Seq(Parcel)]
  BY <1>1, <1>3
<1>6. ASSUME NEW g \in Hops, NEW i \in DOMAIN pending'[g]
      PROVE  pending'[g][i].hop = g
  <2>1. g # h /\ pending'[g] = pending[g]
    <3>1. CASE g = h
      <4>1. pending'[g] = <<>>
        BY <1>1, <1>3, <3>1
      <4>2. QED
        BY <4>1
    <3>2. CASE g # h
      BY <1>1, <1>3, <3>2
    <3>3. QED
      BY <3>1, <3>2
  <2>2. QED
    BY <2>1 DEF SenderInv
<1>7. QED
  BY <1>3, <1>4, <1>5, <1>6 DEF SenderInv

LEMMA SenderStays ==
  ASSUME SenderInv, UNCHANGED <<pending, out, count>>,
         resolved' \subseteq Hops, lost' \subseteq Hops,
         probes' \subseteq Hops \X Sides, replies' \subseteq replies
  PROVE  SenderInv'
  BY DEF SenderInv

-----------------------------------------------------------------------------
(***************************************************************************)
(* The invariant of the whole: what each stage of boot has built, the      *)
(* owners of the ports, and the sender.                                    *)
(***************************************************************************)
Rules == [src : Address \cup {Wildcard}, dst : {Wildcard}, proto : {Wildcard},
          sport : {Wildcard}, dport : {Wildcard}, action : Actions]

Built ==
  /\ firewall \in Seq(Rules)
  /\ known \in BOOLEAN /\ (stage > 3 => known)
  /\ IF stage > 4 THEN Routed ELSE routes = <<>>

\* A port belongs to a host that packets can be routed to.
OwnersReachable ==
  \A w \in Keys : owner[w] # Nobody => owner[w].ip \in Address \ Loopback

RouterInv == ServedInv /\ Built /\ OwnersReachable /\ SenderInv

LEMMA HopsKnown ==
  /\ Neighbors \subseteq Hops /\ {Gateway, Zero} \subseteq Hops
  /\ \A p \in Inputs : p.dst \in Hops /\ p.dst \in Address /\ p.src \in Address
  /\ \A k \in Flows : k.ip \in Hops
  BY InputAssumption DEF Hops, Packet

LEMMA RouterInit == Init => RouterInv
<1> SUFFICES ASSUME Init PROVE RouterInv
  OBVIOUS
<1>1. ServedInv
  BY ServedInit
<1>2. Built
  <2>1. firewall \in Seq(Rules)
    <3>1. firewall = <<>>
      BY DEF Init
    <3>2. QED
      BY <3>1
  <2>2. stage = 0 /\ known = FALSE /\ routes = <<>>
    BY DEF Init
  <2>3. known \in BOOLEAN
    BY <2>2
  <2>4. QED
    BY <2>1, <2>2, <2>3 DEF Built
<1>o. OwnersReachable
  BY DEF Init, OwnersReachable
<1>3. SenderInv
  BY InputAssumption DEF Init, N!Init, SenderInv
<1>4. QED
  BY <1>1, <1>2, <1>o, <1>3 DEF RouterInv

(***************************************************************************)
(* Boot, step by step.                                                     *)
(***************************************************************************)
LEMMA BootBuilds ==
  ASSUME RouterInv, Boot
  PROVE  RouterInv'
<1>s. ServedInv /\ ServedInv' /\ Built /\ OwnersReachable /\ SenderInv
  BY BootKeeps DEF RouterInv
<1>b. ASSUME NEW part, Booting(part)
      PROVE  /\ stage \in 0 .. 7 /\ stage' = stage + 1 /\ BootOrder[stage + 1] = part
             /\ UNCHANGED <<pending, probes, replies, out, count, lost>>
  BY <1>s, <1>b, BootParts DEF Booting, ServedInv
<1>1. SenderInv'
  <2>1. UNCHANGED <<pending, probes, replies, out, count, lost>>
    BY <1>b DEF Boot, InitNat, LoadConfig, InitInfo, InitRoutes, InitMac, InitFirewall,
                InitOther
  <2>2. resolved' = resolved \/ resolved' = {}
    BY DEF Boot, InitNat, LoadConfig, InitInfo, InitRoutes, InitMac, InitFirewall,
           InitOther
  <2>3. /\ resolved' \subseteq Hops /\ lost' \subseteq Hops
        /\ probes' \subseteq Hops \X Sides /\ replies' \subseteq replies
    BY <1>s, <2>1, <2>2 DEF SenderInv
  <2>4. QED
    BY <1>s, <2>1, <2>3, SenderStays
<1>2. CASE InitNat
  <2>1. stage = 0 /\ stage' = 1 /\ UNCHANGED <<firewall, routes, known>>
    BY <1>2, <1>b, BootParts DEF InitNat
  <2>2. Built'
    BY <1>s, <2>1 DEF Built
  <2>3. OwnersReachable'
    BY <1>2 DEF InitNat, OwnersReachable
  <2>4. QED
    BY <1>s, <1>1, <2>2, <2>3 DEF RouterInv
<1>3. CASE LoadConfig
  <2>1. stage = 2 /\ stage' = 3 /\ UNCHANGED <<routes, known>>
    BY <1>3, <1>b, BootParts DEF LoadConfig
  <2>2. firewall' \in Seq(Rules)
    <3> DEFINE b == [i \in 1 .. Len(BlockList) |-> Rule(BlockList[i], "drop")]
    <3>1. \A a \in Address \cup {Wildcard}, x \in Actions : Rule(a, x) \in Rules
      BY DEF Rule, Rules
    <3>2. BlockList \in Seq(Address) /\ DefaultPolicy \in Actions /\ "drop" \in Actions
      BY InputAssumption DEF Actions
    <3>3. b \in Seq(Rules)
      BY <3>1, <3>2
    <3>4. <<Rule(Wildcard, DefaultPolicy)>> \in Seq(Rules)
      <4>1. Rule(Wildcard, DefaultPolicy) \in Rules
        BY <3>1, <3>2
      <4>2. QED
        BY <4>1
    <3>5. firewall' = firewall \o <<Rule(Wildcard, DefaultPolicy)>> \o b
      BY <1>3 DEF LoadConfig
    <3> HIDE DEF b
    <3>6. QED
      BY <1>s, <3>3, <3>4, <3>5 DEF Built
  <2>3. Built'
    BY <1>s, <2>1, <2>2 DEF Built
  <2>4. OwnersReachable'
    <3> SUFFICES ASSUME NEW w \in Keys, owner'[w] # Nobody
                 PROVE  owner'[w].ip \in Address \ Loopback
      BY DEF OwnersReachable
    <3>1. owner'[w] = IF \E f \in Forwards : PortOf(f) = w
                        THEN (CHOOSE f \in Forwards : PortOf(f) = w).flow
                        ELSE owner[w]
      BY <1>3 DEF LoadConfig
    <3>2. CASE \E f \in Forwards : PortOf(f) = w
      <4>1. (CHOOSE f \in Forwards : PortOf(f) = w) \in Forwards
        BY <3>2
      <4>2. QED
        BY <3>1, <3>2, <4>1, InputAssumption
    <3>3. CASE ~\E f \in Forwards : PortOf(f) = w
      BY <1>s, <3>1, <3>3 DEF OwnersReachable
    <3>4. QED
      BY <3>2, <3>3
  <2>5. QED
    BY <1>s, <1>1, <2>3, <2>4 DEF RouterInv
<1>4. CASE InitInfo \/ InitRoutes \/ InitMac \/ InitFirewall \/ InitOther
  <2>1. stage \in 0 .. 7 /\ stage' = stage + 1 /\ owner' = owner
    BY <1>4, <1>b, BootParts
    DEF InitInfo, InitRoutes, InitMac, InitFirewall, InitOther
  <2>2. OwnersReachable'
    BY <1>s, <2>1 DEF OwnersReachable
  <2>3. Built'
    <3>1. CASE InitInfo
      <4>1. stage = 3 /\ known' = TRUE /\ UNCHANGED <<firewall, routes>>
        BY <1>b, <3>1, BootParts DEF InitInfo
      <4>2. QED
        BY <1>s, <2>1, <4>1 DEF Built
    <3>2. CASE InitRoutes
      <4>1. /\ stage = 4 /\ UNCHANGED <<firewall, known>> /\ known
            /\ routes' \in SetToSeqs(Entries) /\ Sorted(routes')
        BY <1>b, <1>s, <3>2, BootParts DEF InitRoutes, Built
      <4>2. Routed'
        <5>1. Entries' = Entries
          BY <4>1 DEF Entries
        <5>2. QED
          BY <4>1, <5>1 DEF Routed, Sorted, Before, SetToSeqs
      <4>3. QED
        BY <1>s, <2>1, <4>1, <4>2 DEF Built
    <3>3. CASE InitMac \/ InitFirewall \/ InitOther
      <4>1. /\ stage # 3 /\ stage # 4 /\ UNCHANGED <<routes, known>>
            /\ firewall' = firewall \/ firewall' = <<>>
        BY <1>b, <3>3, BootParts DEF InitMac, InitFirewall, InitOther
      <4>2. firewall' \in Seq(Rules)
        <5>1. <<>> \in Seq(Rules)
          OBVIOUS
        <5>2. QED
          BY <1>s, <4>1, <5>1 DEF Built
      <4>3. Routed => Routed'
        BY <4>1 DEF Routed, Sorted, Entries
      <4>4. QED
        BY <1>s, <2>1, <4>1, <4>2, <4>3 DEF Built
    <3>4. QED
      BY <1>4, <3>1, <3>2, <3>3
  <2>4. QED
    BY <1>s, <1>1, <2>2, <2>3 DEF RouterInv
<1>5. QED
  BY <1>2, <1>3, <1>4 DEF Boot

(***************************************************************************)
(* Where the handlers send an address, and on which side that is.          *)
(***************************************************************************)
LEMMA RoutedRight ==
  ASSUME Routed, NEW a \in Address \ Loopback, a \in Hops
  PROVE  /\ NextHop(a) \in Hops /\ NextHop(a) # Zero
         /\ Route(a).interface \in Sides
         /\ Route(a).interface = N!Side(NextHop(a))
<1>a. /\ Zero \notin LanLink \cup WanLink /\ Gateway # Zero
      /\ LanLink \cap WanLink = {} /\ Gateway \notin LanLink /\ Gateway \in Hops
  BY AddressAssumption, HopsKnown
<1>e. /\ DefaultRoute.gateway = Gateway /\ DefaultRoute.interface = "wan"
      /\ LanRoute.gateway = Zero /\ LanRoute.interface = "lan"
      /\ WanRoute.gateway = Zero /\ WanRoute.interface = "wan"
  BY DEF DefaultRoute, LanRoute, WanRoute, Entry
<1>1. CASE a \in LanLink
  <2>1. Route(a) = LanRoute
    BY <1>1, RouteOf
  <2>2. QED
    BY <1>a, <1>e, <1>1, <2>1 DEF NextHop, N!Side, Sides
<1>2. CASE a \in WanLink
  <2>1. Route(a) = WanRoute
    BY <1>2, RouteOf
  <2>2. QED
    BY <1>a, <1>e, <1>2, <2>1 DEF NextHop, N!Side, Sides
<1>3. CASE a \notin LanLink \cup WanLink
  <2>1. Route(a) = DefaultRoute
    BY <1>3, RouteOf
  <2>2. QED
    BY <1>a, <1>e, <2>1 DEF NextHop, N!Side, Sides
<1>4. QED
  BY <1>1, <1>2, <1>3

\* The interface of any address, one that is not sent to included.
LEMMA InterfaceKnown ==
  ASSUME Routed, NEW a \in Address
  PROVE  Route(a).interface \in Sides
<1>1. /\ DefaultRoute.interface = "wan" /\ LoopRoute.interface = "lo"
      /\ LanRoute.interface = "lan" /\ WanRoute.interface = "wan"
  BY DEF DefaultRoute, LoopRoute, LanRoute, WanRoute, Entry
<1>2. QED
  BY <1>1, RouteOf DEF Sides

(***************************************************************************)
(* What main does with a packet and the next hop its handler returned.     *)
(***************************************************************************)
LEMMA HandOverKeeps ==
  ASSUME SenderInv, Routed, NEW p \in Inputs, NEW hop \in Hops, NEW dst \in Address,
         NEW fate \in Fates \ {"answer"}, hop = Zero <=> fate \in Unsent,
         hop # Zero => Route(dst).interface = N!Side(hop),
         HandOver(p, hop, dst, fate)
  PROVE  SenderInv'
<1> DEFINE q == [id |-> count + 1, hop |-> hop, kind |-> fate, held |-> FALSE,
                 src |-> p.src]
<1>1. CASE UNCHANGED neighbor
  BY <1>1 DEF neighbor, SenderInv
<1>2. CASE /\ count < MaxPackets /\ count' = count + 1
           /\ N!EthSend(q, Route(dst).interface)
           /\ UNCHANGED <<resolved, replies>>
  <2>1. count + 1 \in Nat /\ p.src \in Address
    BY InputAssumption, HopsKnown DEF SenderInv
  <2>2. q \in Parcel
    BY <2>1 DEF Parcel
  <2>3. RightSide(q, Route(dst).interface)
    BY DEF RightSide
  <2>4. Route(dst).interface \in Sides
    BY InterfaceKnown
  <2> HIDE DEF q
  <2>5. QED
    BY <1>2, <2>2, <2>3, <2>4, EthSendKeeps
<1>3. QED
  BY <1>1, <1>2 DEF HandOver

\* A packet that is routed, with the address it is routed to.
LEMMA ForwardKeeps ==
  ASSUME SenderInv, Routed, NEW p \in Inputs, NEW a \in Address \ Loopback, a \in Hops,
         NEW fate \in {"out", "private", "in", "astray", "plain"},
         HandOver(p, NextHop(a), a, fate)
  PROVE  SenderInv'
<1>1. fate \in Fates \ {"answer"} /\ fate \notin Unsent
  BY DEF Fates, Unsent
<1>2. QED
  BY <1>1, RoutedRight, HandOverKeeps

\* A packet that is not.
LEMMA KeepKeeps ==
  ASSUME SenderInv, Routed, NEW p \in Inputs, NEW fate \in Unsent,
         HandOver(p, Zero, p.dst, fate)
  PROVE  SenderInv'
<1>1. fate \in Fates \ {"answer"} /\ Zero \in Hops /\ p.dst \in Address
  BY HopsKnown DEF Fates, Unsent
<1>2. QED
  BY <1>1, HandOverKeeps

(***************************************************************************)
(* The steps of the running router.                                        *)
(***************************************************************************)
LEMMA OwnersKeep ==
  ASSUME ServedInv, OwnersReachable, NEW k \in Flows, k.ip \in Address \ Loopback,
         NEW n, S!Send(k, n)
  PROVE  OwnersReachable'
<1>t. owner \in [Keys -> Flows \cup {Nobody}]
  BY DEF ServedInv
<1>1. CASE UNCHANGED owner
  BY <1>1 DEF OwnersReachable
<1>2. CASE S!Open(k, n)
  BY <1>t, <1>2 DEF S!Open, OwnersReachable
<1>3. QED
  BY <1>1, <1>2 DEF S!Send, S!Use, S!Stray

LEMMA RunBuilds ==
  ASSUME RouterInv, Run
  PROVE  RouterInv'
<1>s. /\ ServedInv /\ ServedInv' /\ Built /\ OwnersReachable /\ SenderInv
      /\ UNCHANGED tables /\ stage = 8
  BY RunKeeps, BootParts DEF RouterInv, Run, Running
<1>r. Routed
  BY <1>s DEF Built
<1>b. Built'
  BY <1>s DEF Built, Routed, Sorted, Entries, tables
<1>k. ASSUME OwnersReachable', SenderInv' PROVE RouterInv'
  BY <1>s, <1>b, <1>k DEF RouterInv
<1>u. UNCHANGED owner => OwnersReachable'
  BY <1>s DEF OwnersReachable
<1>p. ASSUME NEW p \in Inputs, ~Dropped(p)
      PROVE  p.dst \in Address \ Loopback /\ p.dst \in Hops
  BY <1>p, HopsKnown DEF Dropped
<1>1. ASSUME NEW p \in Inputs, Drop(p) PROVE RouterInv'
  <2>1. SenderInv'
    BY <1>s, <1>r, <1>1, KeepKeeps DEF Drop, Unsent
  <2>2. QED
    BY <1>k, <1>u, <1>1, <2>1 DEF Drop, Ignored
<1>2. ASSUME NEW p \in Inputs, Dhcp(p) PROVE RouterInv'
  <2>1. CASE HandOver(p, Zero, p.dst, "dhcp")
    BY <1>s, <1>r, <1>k, <1>u, <1>2, <2>1, KeepKeeps DEF Dhcp, Ignored, Unsent
  <2>2. CASE UNCHANGED neighbor
    BY <1>s, <1>k, <1>u, <1>2, <2>2 DEF Dhcp, Ignored, neighbor, SenderInv
  <2>3. ASSUME NEW h \in LanLink \cap Hops, N!Learn(h) PROVE RouterInv'
    BY <1>s, <1>k, <1>u, <1>2, <2>3 DEF Dhcp, Ignored, N!Learn, SenderInv
  <2>4. QED
    BY <1>2, <2>1, <2>2, <2>3 DEF Dhcp
<1>3. ASSUME NEW p \in Inputs, Outbound(p) PROVE RouterInv'
  <2>1. /\ p.dst \in Address \ Loopback /\ p.dst \in Hops
        /\ FlowOf(p) \in Flows /\ FlowOf(p).ip = p.src /\ p.src \in Private
    BY <1>3, <1>p, InputAssumption DEF Outbound, Accepted, Leaves, FlowOf
  <2>2. FlowOf(p).ip \in Address \ Loopback
    BY <2>1, AddressAssumption DEF Address
  <2>3. SenderInv'
    BY <1>s, <1>r, <1>3, <2>1, ForwardKeeps DEF Outbound
  <2>4. OwnersReachable'
    <3>1. CASE \E n \in Numbers : S!Send(FlowOf(p), n)
      BY <1>s, <2>1, <2>2, <3>1, OwnersKeep
    <3>2. CASE S!Pass(FlowOf(p), p.sport)
      BY <1>u, <3>2 DEF S!Pass
    <3>3. QED
      BY <1>3, <3>1, <3>2 DEF Outbound
  <2>5. QED
    BY <1>k, <2>3, <2>4
<1>4. ASSUME NEW p \in Inputs, Inbound(p) PROVE RouterInv'
  <2> DEFINE w == <<p.proto, p.dport>>
  <2>1. /\ w \in Keys /\ owner[w] # Nobody /\ UNCHANGED owner
        /\ HandOver(p, NextHop(owner[w].ip), owner[w].ip, "in")
    BY <1>4 DEF Inbound, S!Deliver
  <2> HIDE DEF w
  <2>2. owner[w].ip \in Address \ Loopback /\ owner[w] \in Flows
    BY <1>s, <2>1 DEF OwnersReachable, ServedInv
  <2>3. owner[w].ip \in Hops
    BY <2>2, HopsKnown
  <2>4. QED
    BY <1>s, <1>r, <1>k, <1>u, <2>1, <2>2, <2>3, ForwardKeeps
<1>5. ASSUME NEW p \in Inputs, InboundUnowned(p) PROVE RouterInv'
  <2>1. UNCHANGED owner
    BY <1>5 DEF InboundUnowned, S!Refuse
  <2>2. CASE HandOver(p, Zero, p.dst, "local")
    BY <1>s, <1>r, <1>k, <1>u, <2>1, <2>2, KeepKeeps DEF Unsent
  <2>3. CASE HandOver(p, NextHop(Zero), Zero, "astray")
    <3>1. Zero \in Address \ Loopback /\ Zero \in Hops
      BY AddressAssumption, HopsKnown DEF Address
    <3>2. QED
      BY <1>s, <1>r, <1>k, <1>u, <2>1, <2>3, <3>1, ForwardKeeps
  <2>4. QED
    BY <1>5, <2>2, <2>3 DEF InboundUnowned
<1>6. ASSUME NEW p \in Inputs, Local(p) PROVE RouterInv'
  BY <1>s, <1>r, <1>k, <1>u, <1>6, KeepKeeps DEF Local, Ignored, Unsent
<1>7. ASSUME NEW p \in Inputs, Plain(p) PROVE RouterInv'
  BY <1>s, <1>r, <1>k, <1>u, <1>p, <1>7, ForwardKeeps DEF Plain, Accepted, Ignored
<1>8. CASE Arp
  <2>1. UNCHANGED owner
    BY <1>8 DEF Arp, Ignored
  <2>2. ASSUME NEW h \in Neighbors, N!Learn(h) PROVE SenderInv'
    BY <1>s, <2>2, HopsKnown DEF N!Learn, SenderInv
  <2>3. ASSUME NEW h \in Neighbors, NEW i \in N!Ifaces, N!ReceiveReply(h, i)
        PROVE  SenderInv'
    <3>1. <<h, i>> \in replies /\ replies' \subseteq replies /\ N!LearnAndFlush(h, i)
      BY <2>3 DEF N!ReceiveReply
    <3>2. i = N!Side(h) /\ h \in Hops
      BY <1>s, <3>1 DEF SenderInv
    <3>3. QED
      BY <1>s, <3>1, <3>2, FlushKeeps
  <2>a. ASSUME NEW h \in Neighbors \ {Zero}, N!ReceiveAnnouncement(h) PROVE SenderInv'
    <3>1. h \in Hops /\ replies' \subseteq replies /\ N!LearnAndFlush(h, N!Side(h))
      BY <2>a, HopsKnown DEF N!ReceiveAnnouncement
    <3>2. QED
      BY <1>s, <3>1, FlushKeeps
  <2>4. ASSUME NEW h \in Neighbors \ {Zero}, N!AnswerRequest(h) PROVE SenderInv'
    <3> DEFINE q == N!NextPacket(h, "answer")
    <3>1. h \in Hops /\ count \in Nat
      BY <1>s, HopsKnown, InputAssumption DEF SenderInv
    <3>2. q \in Parcel /\ q.kind = "answer"
      BY <3>1 DEF N!NextPacket, Parcel, Fates, Unsent
    <3> HIDE DEF q
    <3>3. PICK iface \in N!Ifaces : N!EthSend(q, iface)
      BY <2>4 DEF N!AnswerRequest, q
    <3>4. iface \in Sides /\ RightSide(q, iface)
      BY <3>2 DEF N!Ifaces, Sides, RightSide
    <3>5. QED
      BY <1>s, <2>4, <3>2, <3>3, <3>4, EthSendKeeps DEF N!AnswerRequest
  <2>5. QED
    BY <1>8, <1>k, <1>u, <2>1, <2>2, <2>3, <2>a, <2>4 DEF Arp
<1>9. CASE Reply
  <2>1. UNCHANGED owner
    BY <1>9 DEF Reply, sessions
  <2>2. PICK h \in Neighbors \ {Zero}, i \in N!Ifaces : N!Reply(h, i)
    BY <1>9 DEF Reply
  <2>3. SenderInv'
    <3>1. h \in Hops
      BY HopsKnown
    <3>2. replies' \subseteq replies \cup {<<h, N!Side(h)>>}
      BY <2>2 DEF N!Reply
    <3>3. replies' \subseteq {<<g, N!Side(g)>> : g \in Hops}
      BY <1>s, <3>1, <3>2 DEF SenderInv
    <3>4. UNCHANGED <<resolved, pending, out, count, lost>> /\ probes' \subseteq probes
      BY <2>2 DEF N!Reply
    <3>5. QED
      BY <1>s, <3>3, <3>4 DEF SenderInv
  <2>4. QED
    BY <1>k, <1>u, <2>1, <2>3
<1>10. CASE Sweep
  <2>1. OwnersReachable'
    <3> SUFFICES ASSUME NEW w \in Keys, owner'[w] # Nobody
                 PROVE  owner'[w].ip \in Address \ Loopback
      BY DEF OwnersReachable
    <3>1. owner'[w] = owner[w]
      BY <1>10 DEF Sweep, S!Close
    <3>2. QED
      BY <1>s, <3>1 DEF OwnersReachable
  <2>2. SenderInv'
    BY <1>s, <1>10 DEF Sweep, neighbor, SenderInv
  <2>3. QED
    BY <1>k, <2>1, <2>2
<1>11. QED
  BY <1>1, <1>2, <1>3, <1>4, <1>5, <1>6, <1>7, <1>8, <1>9, <1>10 DEF Run, Ipv4

LEMMA RouterNext == RouterInv /\ [Next]_vars => RouterInv'
<1> SUFFICES ASSUME RouterInv, [Next]_vars PROVE RouterInv'
  OBVIOUS
<1>s. ServedInv' /\ Built /\ OwnersReachable /\ SenderInv
  BY ServedNext DEF RouterInv
<1>1. CASE Restart
  <2>1. Built'
    <3>1. firewall' \in Seq(Rules)
      <4>1. firewall' = <<>>
        BY <1>1 DEF Restart, Blank
      <4>2. QED
        BY <4>1
    <3>2. stage' = 0 /\ known' = FALSE /\ routes' = <<>>
      BY <1>1 DEF Restart, Blank
    <3>3. known' \in BOOLEAN
      BY <3>2
    <3>4. QED
      BY <3>1, <3>2, <3>3 DEF Built
  <2>2. OwnersReachable'
    BY <1>1 DEF Restart, Blank, OwnersReachable
  <2>3. SenderInv'
    <3>1. /\ pending' = [h \in Hops |-> <<>>] /\ resolved' = {}
          /\ UNCHANGED <<probes, replies, out, count, lost>>
      BY <1>1 DEF Restart, Blank
    <3>2. pending' \in [Hops -> Seq(Parcel)]
      BY <3>1
    <3>3. \A h \in Hops : pending'[h] = <<>>
      BY <3>1
    <3>4. QED
      BY <1>s, <3>1, <3>2, <3>3 DEF SenderInv
  <2>4. QED
    BY <1>s, <2>1, <2>2, <2>3 DEF RouterInv
<1>2. CASE UNCHANGED vars
  <2>1. Built'
    BY <1>s, <1>2 DEF vars, tables, Built, Routed, Sorted, Entries
  <2>2. OwnersReachable' /\ SenderInv'
    BY <1>s, <1>2 DEF vars, sessions, neighbor, OwnersReachable, SenderInv
  <2>3. QED
    BY <1>s, <2>1, <2>2 DEF RouterInv
<1>3. QED
  BY <1>1, <1>2, BootBuilds, RunBuilds DEF Next

(***************************************************************************)
(* The router's state has its types.                                       *)
(***************************************************************************)
THEOREM TypeCorrect == Spec => []TypeOK
<1>1. RouterInv => TypeOK
  <2> SUFFICES ASSUME RouterInv PROVE TypeOK
    OBVIOUS
  <2>1. stage \in 0 .. Len(BootOrder) /\ S!TypeOK
    BY BootParts DEF RouterInv, ServedInv, S!TypeOK
  <2>2. \A i \in DOMAIN firewall : firewall[i].action \in Actions
    <3>1. \A i \in DOMAIN firewall : firewall[i] \in Rules
      BY DEF RouterInv, Built
    <3>2. QED
      BY <3>1 DEF Rules
  <2>3. Len(routes) \in {0, 4} /\ known \in BOOLEAN
    <3>1. CASE stage > 4
      BY <3>1, AllEntriesStand DEF RouterInv, Built
    <3>2. CASE ~(stage > 4)
      BY <3>2 DEF RouterInv, Built
    <3>3. QED
      BY <3>1, <3>2
  <2>4. \A h \in Hops : \A i \in DOMAIN pending[h] : pending[h][i].kind \in Fates
    <3>1. \A h \in Hops : \A i \in DOMAIN pending[h] : pending[h][i] \in Parcel
      BY DEF RouterInv, SenderInv
    <3>2. QED
      BY <3>1 DEF Parcel
  <2>5. \A i \in DOMAIN out : out[i].iface \in Sides
    <3>1. \A i \in DOMAIN out : out[i] \in Carried
      BY DEF RouterInv, SenderInv
    <3>2. QED
      BY <3>1 DEF Carried
  <2>6. probes \cup replies \subseteq Hops \X N!Ifaces
    <3>1. /\ probes \subseteq Hops \X Sides
          /\ replies \subseteq {<<h, N!Side(h)>> : h \in Hops}
      BY DEF RouterInv, SenderInv
    <3>2. N!Ifaces = Sides /\ \A h \in Hops : N!Side(h) \in Sides
      BY DEF N!Ifaces, N!Side, Sides
    <3>3. QED
      BY <3>1, <3>2
  <2>7. QED
    BY <2>1, <2>2, <2>3, <2>4, <2>5, <2>6
    DEF TypeOK, RouterInv, SenderInv, Sides, N!Ifaces
<1>2. QED
  BY <1>1, RouterInit, RouterNext, PTL DEF Spec

(***************************************************************************)
(* An address is routed by the narrowest network that contains it          *)
(* (route.cpp:46-69), whatever addresses the interfaces have been given.   *)
(***************************************************************************)
THEOREM RoutesMostSpecific == Spec => []RouteMostSpecific
<1>1. RouterInv => RouteMostSpecific
  BY BootParts, MostSpecific
  DEF RouterInv, Built, RouteMostSpecific, Running
<1>2. QED
  BY <1>1, RouterInit, RouterNext, PTL DEF Spec

(***************************************************************************)
(* What is routed has a next hop, and what is refused or for the router    *)
(* itself has none (packet_read.cpp:142-204).                              *)
(***************************************************************************)
THEOREM ForwardedHaveHops == Spec => []ForwardedHasHop
<1>1. RouterInv => ForwardedHasHop
  BY SenderShows DEF RouterInv
<1>2. QED
  BY <1>1, RouterInit, RouterNext, PTL DEF Spec

(***************************************************************************)
(* Every routed packet leaves on the side its next hop is on, translated   *)
(* or not, at once or after it waited (main.cpp:184-200,                   *)
(* packet_send.cpp:57-91).                                                 *)
(***************************************************************************)
THEOREM SidesMatchHops == Spec => []SideMatchesHop
<1>1. RouterInv => SideMatchesHop
  BY SenderShows DEF RouterInv
<1>2. QED
  BY <1>1, RouterInit, RouterNext, PTL DEF Spec
=============================================================================
