--------------------------- MODULE SessionProofs ----------------------------
(***************************************************************************)
(* The translator implements Sessions, for every pool, every set of hosts  *)
(* and every configuration: each of its steps is a step of Sessions on the *)
(* map from ports to flows, or leaves map and wire alone.                  *)
(***************************************************************************)
EXTENDS NatProofs, NatImplements

-----------------------------------------------------------------------------
(***************************************************************************)
(* What the invariant says of the map.                                     *)
(***************************************************************************)
LEMMA PortKeyIsKey == PortKeys \subseteq WanKey
  BY DEF PortKeys

LEMMA NobodyIsNoFlow == Nobody \notin Flow
  BY DEF Nobody, FlowOf, VoidEntry, Flow, Protocols

\* An entry at a port key is a session, under its own flow and its own key.
LEMMA PortEntry ==
  ASSUME NatInv, NEW w \in PortKeys, wan_to_lan[w] # NoEntry
  PROVE  /\ Owner[w] = FlowOf(wan_to_lan[w])
         /\ Owner[w] \in Flow
         /\ WanKeyOf(wan_to_lan[w]) = w
         /\ lan_to_wan[Owner[w]] = wan_to_lan[w]
<1>1. w \in WanKey /\ w # WanKeyOf(VoidEntry)
  BY DEF PortKeys, WanKeyOf, VoidEntry
<1>2. Session(wan_to_lan[w])
  BY <1>1 DEF NatInv, VoidsAlike, Session
<1>3. Owner[w] = FlowOf(wan_to_lan[w])
  BY DEF Owner
<1> QED BY <1>1, <1>2, <1>3 DEF NatInv, TablesAgree, WanAgrees

LEMMA OwnerType == NatInv => Owner \in [PortKeys -> Flow \cup {Nobody}]
<1> SUFFICES ASSUME NatInv PROVE Owner \in [PortKeys -> Flow \cup {Nobody}]
  OBVIOUS
<1>1. ASSUME NEW w \in PortKeys PROVE Owner[w] \in Flow \cup {Nobody}
  <2>1. CASE wan_to_lan[w] = NoEntry
    BY <2>1 DEF Owner
  <2>2. CASE wan_to_lan[w] # NoEntry
    BY <2>2, PortEntry
  <2> QED BY <2>1, <2>2
<1> QED BY <1>1 DEF Owner

\* A flow that owns a port has a session, and that session's port is the one.
LEMMA OwnedPort ==
  ASSUME NatInv, NEW k \in Flow, NEW w \in PortKeys, Owner[w] = k
  PROVE  Session(lan_to_wan[k]) /\ WanKeyOf(lan_to_wan[k]) = w
<1>1. wan_to_lan[w] # NoEntry
  BY NobodyIsNoFlow DEF Owner
<1>2. lan_to_wan[k] = wan_to_lan[w] /\ WanKeyOf(wan_to_lan[w]) = w
  BY <1>1, PortEntry
<1>3. w[1] # "none" /\ w = <<wan_to_lan[w].protocol, wan_to_lan[w].external_port>>
  BY <1>2 DEF PortKeys, WanKeyOf
<1> QED BY <1>1, <1>2, <1>3 DEF Session

\* A session of a flow is on a port of the table other than 0.
LEMMA SessionPort ==
  ASSUME NatInv, NEW k \in Flow, Session(lan_to_wan[k])
  PROVE  /\ lan_to_wan[k] \in Entry
         /\ WanKeyOf(lan_to_wan[k]) = <<k.proto, lan_to_wan[k].external_port>>
         /\ WanKeyOf(lan_to_wan[k]) \in PortKeys
         /\ lan_to_wan[k].external_port \in Numbers
         /\ Owner[WanKeyOf(lan_to_wan[k])] = k
<1> DEFINE e == lan_to_wan[k]
           w == WanKeyOf(e)
<1>1. e \in Entry /\ e # NoEntry /\ e.protocol # "none"
  BY DEF Session, NatInv, TypeOK
<1>2. FlowOf(e) = k /\ w \in WanKey /\ wan_to_lan[w] = e
  BY DEF NatInv, TablesAgree, LanAgrees
<1>3. e.protocol = k.proto /\ w = <<k.proto, e.external_port>>
  BY <1>2 DEF FlowOf, WanKeyOf
<1>4. e.external_port # 0
  <2>1. CASE e \in Forwards
    BY <2>1, ForwardAssumption
  <2>2. CASE \E f \in Forwards : WanKeyOf(f) = w
    <3>1. PICK f \in Forwards : WanKeyOf(f) = w
      BY <2>2
    <3> QED BY <3>1, ForwardAssumption DEF WanKeyOf
  <2>3. CASE e.external_port - PortBase \in used[e.protocol]
    <3>1. e.protocol \in Protocols /\ e.external_port \in Nat
      BY <1>1 DEF Entry, AnyProtocol
    <3>2. e.external_port - PortBase \in 0 .. BitmapBits - 1
      BY <2>3, <3>1 DEF NatInv, TypeOK
    <3> QED BY <3>1, <3>2, NumberAssumption
  <2>4. e \in Forwards \/ Dynamic(e)
    BY <1>2 DEF NatInv, StaticsConfigured
  <2> QED BY <1>2, <2>1, <2>2, <2>3, <2>4 DEF NatInv, SessionsHoldPorts
<1>5. w \in PortKeys
  BY <1>1, <1>2, <1>3, <1>4 DEF PortKeys, WanKeyOf
<1>6. e.external_port \in ExternalPorts
  BY <1>2, <1>3, <1>4 DEF WanKey
<1>7. Owner[w] = k
  BY <1>1, <1>2, <1>5 DEF Owner
<1> QED BY <1>1, <1>3, <1>5, <1>6, <1>7 DEF Numbers

-----------------------------------------------------------------------------
(***************************************************************************)
(* Steps that change the map, and steps that do not.                       *)
(***************************************************************************)
LEMMA OwnerUnchanged ==
  ASSUME \A w \in PortKeys : wan_to_lan'[w] = wan_to_lan[w]
  PROVE  Owner' = Owner
  BY DEF Owner

\* update_nat_table changes the map at the key of the entry only.
LEMMA UpdateOwner ==
  ASSUME NatInv, NEW k \in Flow, NEW e \in Entry, Update(k, e)
  PROVE  /\ WanKeyOf(e) \in PortKeys =>
              Owner' = [Owner EXCEPT ![WanKeyOf(e)] = FlowOf(e)]
         /\ WanKeyOf(e) \notin PortKeys => Owner' = Owner
<1>1. /\ Stamped(e) \in Entry /\ Stamped(e) # NoEntry
      /\ FlowOf(Stamped(e)) = FlowOf(e)
  BY StampFacts, DomainAssumption DEF NatInv, TypeOK
<1>2. \A w \in WanKey :
        wan_to_lan'[w] = IF w = WanKeyOf(e) THEN Stamped(e) ELSE wan_to_lan[w]
  BY DEF Update, NatInv, TypeOK
<1>3. CASE WanKeyOf(e) \in PortKeys
  BY <1>1, <1>2, <1>3, PortKeyIsKey DEF Owner
<1>4. CASE WanKeyOf(e) \notin PortKeys
  BY <1>2, <1>4, PortKeyIsKey, OwnerUnchanged
<1> QED BY <1>3, <1>4

LEMMA VoidKey == WanKeyOf(VoidEntry) \notin PortKeys
  BY DEF WanKeyOf, VoidEntry, PortKeys

\* What is recorded on the wire is what Sessions sees.
LEMMA RecordsLatest ==
  ASSUME NEW kind, NEW k, NEW n, Records(kind, k, n)
  PROVE  Latest' = S!Packet(kind, k, n)
  BY DEF Records, Latest, S!Packet

LEMMA RecordsFields ==
  ASSUME NEW kind, NEW k, NEW n, Records(kind, k, n)
  PROVE  wire'.kind = kind /\ wire'.flow = k /\ wire'.port = n
  BY DEF Records

-----------------------------------------------------------------------------
(***************************************************************************)
(* The steps.                                                              *)
(***************************************************************************)
LEMMA HitSends ==
  ASSUME NatInv, NEW k \in Flow, OutboundHit(k)
  PROVE  (\E n \in Numbers : S!Send(k, n)) /\ Owner' = Owner
<1> DEFINE e == lan_to_wan[k]
<1>1. /\ e \in Entry /\ e # NoEntry
      /\ Latest' = S!Packet("out", k, e.external_port)
      /\ UNCHANGED wan_to_lan \/ (Update(k, e) /\ k.proto = "ICMP")
  BY RecordsLatest DEF OutboundHit, tables, NatInv, TypeOK
<1>2. CASE e.protocol = "none"
  <2>1. e.external_port = 0 /\ WanKeyOf(e) \notin PortKeys
    BY <1>1, <1>2 DEF NatInv, VoidsAlike, VoidEntry, WanKeyOf, PortKeys
  <2>2. Owner' = Owner
    BY <1>1, <2>1, UpdateOwner, OwnerUnchanged
  <2>3. S!KeyOf(k, 0) \notin PortKeys /\ 0 \in Numbers
    BY DEF S!KeyOf, PortKeys, Numbers
  <2> QED BY <1>1, <2>1, <2>2, <2>3 DEF S!Send, S!Stray
<1>3. CASE e.protocol # "none"
  <2>1. /\ WanKeyOf(e) = <<k.proto, e.external_port>> /\ WanKeyOf(e) \in PortKeys
        /\ e.external_port \in Numbers /\ Owner[WanKeyOf(e)] = k
    BY <1>1, <1>3, SessionPort DEF Session
  <2>2. FlowOf(e) = k
    BY <1>1, <1>3 DEF NatInv, TablesAgree, LanAgrees, Session
  <2>3. Owner' = Owner
    <3>1. CASE UNCHANGED wan_to_lan
      BY <3>1, OwnerUnchanged
    <3>2. CASE Update(k, e)
      <4>1. Owner' = [Owner EXCEPT ![WanKeyOf(e)] = k]
        BY <1>1, <2>1, <2>2, <3>2, UpdateOwner
      <4> QED BY <2>1, <4>1, OwnerType
    <3> QED BY <1>1, <3>1, <3>2
  <2> QED BY <1>1, <2>1, <2>3 DEF S!Send, S!Use, S!KeyOf
<1> QED BY <1>2, <1>3

LEMMA NoPortWithoutEntry ==
  ASSUME NatInv, NEW k \in Flow, lan_to_wan[k] = NoEntry
  PROVE  \A w \in PortKeys : Owner[w] # k
  BY OwnedPort DEF Session

LEMMA NewSends ==
  ASSUME NatInv, NEW k \in Flow, OutboundNew(k)
  PROVE  \E n \in Numbers : S!Send(k, n)
<1>1. PICK i \in 0 .. Scan(k.proto) - 1 :
        /\ i \notin used[k.proto]
        /\ IF k.proto = "UDP" \/ i >= BitmapBits
             THEN UNCHANGED tables ELSE Update(k, NewSession(k, i))
        /\ Records("out", k, PortBase + i)
  BY DEF OutboundNew, FirstFree
<1>2. k.proto \in Protocols /\ i \in 0 .. IcmpScan - 1 /\ lan_to_wan[k] = NoEntry
  BY NumberAssumption DEF Flow, Scan, OutboundNew
<1>3. PortBase + i \in Numbers /\ Latest' = S!Packet("out", k, PortBase + i)
  BY <1>1, <1>2, RecordsLatest DEF Numbers
<1>4. CASE k.proto = "UDP"
  <2>1. Owner' = Owner
    BY <1>1, <1>4, OwnerUnchanged DEF tables
  <2> QED BY <1>3, <1>4, <2>1 DEF S!Send, S!Stray
<1>5. CASE k.proto # "UDP" /\ i >= BitmapBits
  <2>1. Owner' = Owner
    BY <1>1, <1>5, OwnerUnchanged DEF tables
  <2>2. PortBase + i \notin ExternalPorts
    <3>1. ASSUME NEW j \in 0 .. BitmapBits - 1 PROVE PortBase + i # PortBase + j
      BY <1>2, <1>5, NumberAssumption
    <3>2. ASSUME NEW f \in Forwards PROVE f.external_port # PortBase + i
      <4>1. f.external_port \in Nat /\ i \in BitmapBits .. IcmpScan - 1
        BY <1>2, <1>5, ForwardAssumption, NumberAssumption DEF Entry
      <4> QED BY <4>1, ScanAssumption, NumberAssumption
    <3> QED BY <3>1, <3>2 DEF ExternalPorts
  <2>3. PortBase + i # 0
    BY <1>2, NumberAssumption
  <2>4. S!KeyOf(k, PortBase + i) \notin PortKeys
    BY <2>2, <2>3 DEF S!KeyOf, PortKeys, WanKey
  <2> QED BY <1>3, <2>1, <2>4 DEF S!Send, S!Stray
<1>6. CASE k.proto # "UDP" /\ i < BitmapBits
  <2> DEFINE e == NewSession(k, i)
             w == S!KeyOf(k, PortBase + i)
  <2>1. i \in 0 .. BitmapBits - 1 /\ i \in Nat /\ ~(i >= BitmapBits)
    BY <1>2, <1>6, NumberAssumption
  <2>2. e \in Entry /\ FlowOf(e) = k /\ WanKeyOf(e) = w
    BY <2>1, NewSessionFacts DEF S!KeyOf
  <2>3. w \in PortKeys
    <3>1. PortBase + i # 0
      BY <2>1, NumberAssumption
    <3> QED BY <1>2, <2>1, <3>1, PoolKey DEF S!KeyOf, PortKeys, AnyProtocol, Protocols
  <2>4. Owner[w] = Nobody
    <3>1. wan_to_lan[w] = NoEntry
      BY <1>1, <1>2, <2>1, ClearBitFree DEF S!KeyOf
    <3> QED BY <2>3, <3>1 DEF Owner
  <2>5. Owner' = [Owner EXCEPT ![w] = k]
    BY <1>1, <1>6, <2>1, <2>2, <2>3, UpdateOwner
  <2>6. \A v \in PortKeys : Owner[v] # k
    BY <1>2, NoPortWithoutEntry
  <2> QED BY <1>3, <2>3, <2>4, <2>5, <2>6 DEF S!Send, S!Open
<1> QED BY <1>2, <1>4, <1>5, <1>6, NumberAssumption

LEMMA ShortPasses ==
  ASSUME NatInv, NEW k \in Flow, OutboundShort(k)
  PROVE  \E n \in Numbers : S!Pass(k, n)
<1>1. lan_to_wan[k] = NoEntry /\ UNCHANGED wan_to_lan
  BY DEF OutboundShort, tables
<1>2. k.port \in Numbers /\ Latest' = S!Packet("private", k, k.port)
  BY RecordsLatest DEF OutboundShort, Numbers, Flow
<1>3. Owner' = Owner
  BY <1>1, OwnerUnchanged
<1> QED BY <1>1, <1>2, <1>3, NoPortWithoutEntry DEF S!Pass

LEMMA MisreadSends ==
  ASSUME NatInv, NEW k \in Flow, OutboundMisread(k)
  PROVE  \E n \in Numbers : S!Send(k, n)
<1>1. Owner' = Owner
  BY VoidIsEntry, VoidKey, UpdateOwner, OwnerUnchanged DEF OutboundMisread, tables
<1>2. Latest' = S!Packet("out", k, 0) /\ 0 \in Numbers
  BY RecordsLatest DEF OutboundMisread, Numbers
<1>3. S!KeyOf(k, 0) \notin PortKeys
  BY DEF S!KeyOf, PortKeys
<1> QED BY <1>1, <1>2, <1>3 DEF S!Send, S!Stray

LEMMA InboundArrives ==
  ASSUME NatInv, NEW p \in Protocols, NEW n \in ExternalPorts, Inbound(p, n)
  PROVE  \E w \in PortKeys : S!Deliver(w) \/ S!Refuse(w)
<1> DEFINE w == <<p, n>>
<1>1. w \in PortKeys /\ w[2] = n
  <2>1. n # 0
    BY NumberAssumption, ForwardAssumption DEF ExternalPorts, Entry
  <2> QED BY <2>1 DEF PortKeys, WanKey, AnyProtocol, Protocols
<1>2. Owner' = Owner
  BY OwnerUnchanged DEF Inbound, InboundHit, InboundMiss, InboundMisread, tables
<1>3. CASE InboundHit(p, n)
  <2>1. Owner[w] = FlowOf(wan_to_lan[w]) /\ Owner[w] \in Flow
    BY <1>1, <1>3, PortEntry DEF InboundHit
  <2>2. Latest' = S!Packet("in", Owner[w], w[2])
    BY <1>1, <1>3, <2>1, RecordsLatest DEF InboundHit
  <2> QED BY <1>1, <1>2, <2>1, <2>2, NobodyIsNoFlow DEF S!Deliver
<1>4. CASE InboundMiss(p, n) \/ InboundMisread(p, n)
  <2>1. Owner[w] = Nobody
    BY <1>1, <1>4 DEF Owner, InboundMiss, InboundMisread
  <2>2. \E kind \in {"local", "in"} : Latest' = S!Packet(kind, Nobody, w[2])
    BY <1>1, <1>4, RecordsLatest DEF InboundMiss, InboundMisread, Nobody
  <2> QED BY <1>1, <1>2, <2>1, <2>2 DEF S!Refuse
<1> QED BY <1>3, <1>4 DEF Inbound

LEMMA SweepCloses ==
  ASSUME NatInv, NatInv', Sweep
  PROVE  S!Close
<1>1. Latest' = Latest
  BY DEF Sweep, Waits, Latest
<1>2. ASSUME NEW w \in PortKeys PROVE Owner'[w] \in {Owner[w], Nobody}
  BY PortKeyIsKey DEF Sweep, CleanupExpired, Owner
\* A permanent port is a forward's before and after.
<1>3. ASSUME NEW f \in Lasting PROVE Owner'[WanKeyOf(f)] = Owner[WanKeyOf(f)]
  <2>1. /\ wan_to_lan[WanKeyOf(f)] = f /\ wan_to_lan'[WanKeyOf(f)] = f
        /\ f \in Forwards
    BY DEF Lasting, NatInv, ForwardsPermanent
  <2>2. WanKeyOf(f) \in PortKeys
    <3>1. /\ f.external_port # 0 /\ FlowOf(f) \in Flow
      BY <2>1, ForwardAssumption
    <3>2. f.protocol # "none"
      BY <3>1 DEF FlowOf, Flow, Protocols
    <3> QED BY <2>1, <3>1, <3>2, ForwardKey DEF PortKeys, WanKeyOf
  <2> QED BY <2>1, <2>2 DEF Owner
<1> DEFINE ended == {w \in PortKeys : Owner'[w] # Owner[w]}
<1>4. ended \in SUBSET (PortKeys \ {WanKeyOf(f) : f \in Lasting})
  BY <1>3
<1>5. Owner' = [w \in PortKeys |-> IF w \in ended THEN Nobody ELSE Owner[w]]
  <2>1. /\ Owner' = [w \in PortKeys |-> Owner'[w]]
        /\ \A w \in PortKeys :
             Owner'[w] = IF w \in ended THEN Nobody ELSE Owner[w]
    BY <1>2 DEF Owner
  <2> HIDE DEF ended
  <2> QED BY <2>1
<1> HIDE DEF ended
<1> QED BY <1>1, <1>4, <1>5 DEF S!Close

LEMMA InitMaps == Init => S!Init
<1> SUFFICES ASSUME Init PROVE S!Init
  OBVIOUS
<1>1. NatInv
  BY InitInv
<1>2. ASSUME NEW v \in PortKeys, NEW w \in PortKeys,
             Owner[v] = Owner[w], Owner[v] # Nobody
      PROVE  v = w
  <2>1. Owner[v] \in Flow
    BY <1>1, <1>2, OwnerType
  <2> QED BY <1>1, <1>2, <2>1, OwnedPort
<1>3. Latest = S!Packet("idle", Nobody, 0)
  BY DEF Init, Idle, Latest, S!Packet, Nobody
<1> QED BY <1>1, <1>2, <1>3, OwnerType DEF S!Init

LEMMA StepMaps == NatInv /\ [Next]_vars => [S!Next]_(S!vars)
<1> SUFFICES ASSUME NatInv, [Next]_vars PROVE [S!Next]_(S!vars)
  OBVIOUS
<1>1. ASSUME NEW k \in Senders, Outbound(k)
      PROVE  \E n \in Numbers : S!Send(k, n) \/ S!Pass(k, n)
  <2>1. k \in Flow
    BY DomainAssumption
  <2> QED BY <1>1, <2>1, HitSends, NewSends, ShortPasses, MisreadSends DEF Outbound
<1>2. ASSUME NEW k \in Senders, Outbound(k) PROVE S!Next
  BY <1>1, <1>2, DomainAssumption DEF S!Next
<1>3. ASSUME NEW p \in Protocols, NEW n \in ExternalPorts, Inbound(p, n)
      PROVE  S!Next
  BY <1>3, InboundArrives DEF S!Next
<1>4. CASE OtherFrame
  <2>1. Latest' = S!Packet("idle", Nobody, 0)
    BY <1>4 DEF OtherFrame, Idle, Latest, S!Packet, Nobody
  <2>2. Owner' = Owner
    BY <1>4, OwnerUnchanged DEF OtherFrame, tables
  <2> QED BY <2>1, <2>2 DEF S!Next, S!Other
<1>5. CASE Sweep
  BY <1>5, NextInv, SweepCloses DEF S!Next
<1>6. CASE SkipSweep \/ Tick \/ UNCHANGED vars
  <2>1. UNCHANGED <<wan_to_lan, wire>>
    BY <1>6 DEF SkipSweep, Waits, Tick, tables, vars
  <2> QED BY <2>1, OwnerUnchanged DEF S!vars, Latest
<1> QED BY <1>2, <1>3, <1>4, <1>5, <1>6 DEF Next, Receive

(***************************************************************************)
(* Two tables, three bitmaps and a sweep implement one map from ports to   *)
(* flows: a port belongs to one flow, a recorded flow leaves with its own  *)
(* port, and what comes back is for the owner.                             *)
(***************************************************************************)
THEOREM SessionsImplemented == Spec => ImplementsSessions
<1>1. Init => S!Init
  BY InitMaps
<1>2. NatInv /\ [Next]_vars => [S!Next]_(S!vars)
  BY StepMaps
<1> QED BY <1>1, <1>2, InvariantHolds, PTL DEF Spec, ImplementsSessions, S!Spec

(***************************************************************************)
(* The answer to a packet that has just left finds its flow.               *)
(***************************************************************************)
Found == AnswerFinds /\ <<wire.flow.proto, wire.port>> \in PortKeys

LEMMA FreshAnswer ==
  ASSUME NatInv, Receive
  PROVE  (Answerable => Found)'
<1>1. ASSUME NEW k \in Flow, OutboundHit(k) PROVE (Answerable => Found)'
  <2> DEFINE e == lan_to_wan[k]
  <2>1. e # NoEntry /\ wire'.flow = k /\ wire'.port = e.external_port
    BY <1>1 DEF OutboundHit, Records
  <2>2. CASE e.protocol = "none"
    BY <2>1, <2>2 DEF NatInv, VoidsAlike, VoidEntry, Answerable
  <2>3. CASE e.protocol # "none"
    <3>1. /\ <<k.proto, e.external_port>> \in PortKeys
          /\ Owner[<<k.proto, e.external_port>>] = k /\ Owner' = Owner
      BY <1>1, <2>1, <2>3, SessionPort, HitSends DEF Session
    <3>2. Owner'[<<k.proto, e.external_port>>] = k
      BY <3>1
    <3> QED BY <2>1, <3>1, <3>2, NobodyIsNoFlow
            DEF Owner, Found, AnswerFinds, AnswerEntry
  <2> QED BY <2>2, <2>3
<1>2. ASSUME NEW k \in Flow, OutboundNew(k) PROVE (Answerable => Found)'
  <2>1. PICK i \in 0 .. Scan(k.proto) - 1 :
          /\ Take(k.proto, i)
          /\ IF k.proto = "UDP" \/ i >= BitmapBits
               THEN UNCHANGED tables ELSE Update(k, NewSession(k, i))
          /\ Records("out", k, PortBase + i)
    BY <1>2 DEF OutboundNew
  <2>2. i \in Nat /\ k.proto \in Protocols
    BY ScanNat, NumberAssumption DEF Flow
  <2>3. CASE k.proto = "UDP"
    BY <2>1, <2>3 DEF Records, Answerable
  <2>4. CASE i >= BitmapBits
    BY <2>1, <2>2, <2>4, NumberAssumption DEF Take, Answerable
  <2>5. CASE k.proto # "UDP" /\ i < BitmapBits
    <3> DEFINE e == NewSession(k, i)
               w == <<k.proto, PortBase + i>>
    <3>1. e \in Entry /\ FlowOf(e) = k /\ WanKeyOf(e) = w
      BY <2>2, NewSessionFacts
    <3>2. w \in PortKeys /\ Update(k, e)
      <4>1. i \in 0 .. BitmapBits - 1 /\ ~(i >= BitmapBits) /\ PortBase + i # 0
        BY <2>2, <2>5, NumberAssumption
      <4> QED BY <2>1, <2>2, <2>5, <4>1, PoolKey DEF PortKeys, AnyProtocol, Protocols
    <3>3. Owner'[w] = k
      BY <3>1, <3>2, UpdateOwner, OwnerType
    <3>4. wire'.flow = k /\ wire'.port = PortBase + i
      BY <2>1 DEF Records
    <3> QED BY <3>2, <3>3, <3>4, NobodyIsNoFlow DEF Owner, Found, AnswerFinds, AnswerEntry
  <2> QED BY <2>2, <2>3, <2>4, <2>5, NumberAssumption
<1>3. ASSUME NEW k \in Flow, OutboundShort(k) \/ OutboundMisread(k)
      PROVE  ~Answerable'
  <2>1. wire'.kind = "private" \/ wire'.port = 0
    BY <1>3, RecordsFields DEF OutboundShort, OutboundMisread
  <2> QED BY <2>1 DEF Answerable
<1>4. ASSUME NEW p \in Protocols, NEW n \in ExternalPorts, Inbound(p, n)
      PROVE  ~Answerable'
  <2>1. wire'.kind \in {"in", "local"}
    BY <1>4, RecordsFields DEF Inbound, InboundHit, InboundMiss, InboundMisread
  <2> QED BY <2>1 DEF Answerable
<1>5. CASE OtherFrame
  BY <1>5 DEF OtherFrame, Idle, Answerable
<1> QED BY <1>1, <1>2, <1>3, <1>4, <1>5, DomainAssumption DEF Receive, Outbound

(***************************************************************************)
(* Between two frames a session is only ever taken away, by the sweep.     *)
(***************************************************************************)
Awaited == Answerable =>
  /\ <<wire.flow.proto, wire.port>> \in PortKeys
  /\ AnswerFinds \/ (loop = "recv" /\ AnswerEntry = NoEntry)

Kept == Answerable' =>
  \/ AnswerFinds'
  \/ /\ loop' = "recv" /\ AnswerEntry' = NoEntry
     /\ AnswerFinds =>
          /\ Dynamic(AnswerEntry)
          /\ now - AnswerEntry.last_updated > Timeout[wire.flow.proto]

LEMMA SweepAwaited ==
  ASSUME NatInv, Awaited, Sweep
  PROVE  Awaited' /\ Kept
<1> DEFINE w == <<wire.flow.proto, wire.port>>
<1>1. wire' = wire /\ loop' = "recv" /\ overrun' = overrun
  BY DEF Sweep, Waits, CleanupExpired
<1>2. Answerable' = Answerable /\ AnswerEntry' = wan_to_lan'[w]
  BY <1>1 DEF Answerable, AnswerEntry
<1>3. SUFFICES ASSUME Answerable PROVE Awaited' /\ Kept
  BY <1>2 DEF Awaited, Kept
<1>4. w \in PortKeys /\ w \in WanKey
  BY <1>3, PortKeyIsKey DEF Awaited
<1>5. CASE w \in ExpiredKeys
  <2>1. AnswerEntry' = NoEntry
    BY <1>2, <1>4, <1>5 DEF Sweep, CleanupExpired
  <2>2. Expired(wan_to_lan[w])
    BY <1>5 DEF ExpiredKeys
  <2>3. WanKeyOf(wan_to_lan[w]) = w
    BY <1>4, <2>2, PortEntry DEF Expired
  <2>4. wan_to_lan[w].protocol = wire.flow.proto /\ wire.flow.proto # "none"
    BY <1>4, <2>3 DEF WanKeyOf, PortKeys
  <2>5. /\ Dynamic(AnswerEntry)
        /\ now - AnswerEntry.last_updated > Timeout[wire.flow.proto]
    BY <2>2, <2>4 DEF Expired, Dynamic, Session, AnswerEntry
  <2> QED BY <1>1, <1>4, <2>1, <2>5 DEF Awaited, Kept
<1>6. CASE w \notin ExpiredKeys
  <2>1. wan_to_lan'[w] = wan_to_lan[w]
    BY <1>4, <1>6 DEF Sweep, CleanupExpired
  <2>2. AnswerEntry' = AnswerEntry /\ AnswerFinds' = AnswerFinds
    BY <1>1, <1>2, <2>1 DEF AnswerEntry, AnswerFinds
  <2> QED BY <1>1, <1>3, <1>4, <2>2 DEF Awaited, Kept
<1> QED BY <1>5, <1>6

LEMMA AnswerStep ==
  ASSUME NatInv, Awaited, [Next]_vars
  PROVE  Awaited' /\ (Kept \/ UNCHANGED vars)
<1>1. CASE Receive
  BY <1>1, FreshAnswer DEF Found, Awaited, Kept
<1>2. CASE SkipSweep \/ Tick
  <2>1. /\ UNCHANGED <<wan_to_lan, wire, overrun>>
        /\ loop' = loop \/ loop' = "recv"
    BY <1>2 DEF SkipSweep, Waits, Tick, tables, pools
  <2>2. /\ Answerable' = Answerable /\ AnswerEntry' = AnswerEntry
        /\ AnswerFinds' = AnswerFinds
    BY <2>1 DEF Answerable, AnswerEntry, AnswerFinds
  <2> QED BY <2>1, <2>2 DEF Awaited, Kept
<1>3. CASE UNCHANGED vars
  BY <1>3 DEF vars, tables, pools, Awaited, Answerable, AnswerEntry, AnswerFinds
<1> QED BY <1>1, <1>2, <1>3, SweepAwaited DEF Next

(***************************************************************************)
(* The answer to a TCP or ICMP packet finds the flow it came from until    *)
(* the next frame is read, over the sweep in between; that takes only a    *)
(* session past its limit, and leaves nobody for the answer                *)
(* (nat.cpp:86-90, 112-181).                                               *)
(***************************************************************************)
THEOREM AnswersFindTheirFlow == Spec => OutboundReversible
<1>1. Init => Awaited
  BY DEF Init, Idle, Awaited, Answerable
<1>2. NatInv /\ Awaited /\ [Next]_vars => Awaited'
  BY AnswerStep
<1>3. NatInv /\ Awaited /\ [Next]_vars => [Kept]_vars
  BY AnswerStep
<1> QED BY <1>1, <1>2, <1>3, InvariantHolds, PTL DEF Spec, OutboundReversible, Kept
=============================================================================
