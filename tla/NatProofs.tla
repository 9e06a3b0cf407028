----------------------------- MODULE NatProofs -----------------------------
(***************************************************************************)
(* Proofs about Nat for every set of hosts, ports, flows and forwards,     *)
(* every pool size and every time limit.                                   *)
(***************************************************************************)
EXTENDS Nat, TLAPS

-----------------------------------------------------------------------------
(***************************************************************************)
(* Entries.                                                                *)
(***************************************************************************)
LEMMA VoidIsEntry == VoidEntry \in Entry
  BY DEF VoidEntry, Entry, AnyProtocol

\* Stamping changes the time of an entry and nothing else.
LEMMA StampFacts ==
  ASSUME NEW e \in Entry, now \in Nat
  PROVE  /\ Stamped(e) \in Entry
         /\ Stamped(e).last_updated = now
         /\ Stamped(e).protocol = e.protocol
         /\ FlowOf(Stamped(e)) = FlowOf(e)
         /\ WanKeyOf(Stamped(e)) = WanKeyOf(e)
         /\ Stamped(e).external_port = e.external_port
  BY DEF Stamped, Entry, FlowOf, WanKeyOf

LEMMA FlowOfEntry ==
  ASSUME NEW e \in Entry
  PROVE  FlowOf(e) \in [proto : AnyProtocol, ip : Hosts \cup {NoIp},
                        port : IntPorts \cup {0}]
  BY DEF Entry, FlowOf

LEMMA NewSessionFacts ==
  ASSUME NEW k \in Flow, NEW i \in Nat
  PROVE  /\ NewSession(k, i) \in Entry
         /\ NewSession(k, i).protocol = k.proto
         /\ NewSession(k, i).protocol \in Protocols
         /\ FlowOf(NewSession(k, i)) = k
         /\ WanKeyOf(NewSession(k, i)) = <<k.proto, PortBase + i>>
         /\ NewSession(k, i).external_port = PortBase + i
  BY NumberAssumption DEF NewSession, Entry, Flow, FlowOf, WanKeyOf, AnyProtocol

\* An index of the bitmaps is a port the tables can be asked for.
LEMMA PoolKey ==
  ASSUME NEW p \in AnyProtocol, NEW i \in 0 .. BitmapBits - 1
  PROVE  <<p, PortBase + i>> \in WanKey
  BY DEF WanKey, ExternalPorts

LEMMA ForwardKey ==
  ASSUME NEW f \in Forwards
  PROVE  /\ f \in Entry
         /\ f \in Entry \ {NoEntry}
         /\ WanKeyOf(f) \in WanKey
         /\ FlowOf(f) \in Flow
         /\ f.protocol \in Protocols
         /\ f.last_updated = 0
<1>1. f \in Entry /\ FlowOf(f) \in Flow /\ f.last_updated = 0
  BY ForwardAssumption
<1>2. f.protocol \in Protocols
  BY <1>1 DEF FlowOf, Flow
<1>3. f.external_port \in ExternalPorts
  BY DEF ExternalPorts
<1>4. WanKeyOf(f) \in WanKey
  BY <1>2, <1>3 DEF WanKeyOf, WanKey, AnyProtocol
<1> QED BY <1>1, <1>2, <1>4, DomainAssumption

-----------------------------------------------------------------------------
(***************************************************************************)
(* Type correctness.                                                       *)
(***************************************************************************)
LEMMA UpdateType ==
  ASSUME TypeOK, NEW k \in Flow, NEW e \in Entry, Update(k, e)
  PROVE  /\ lan_to_wan' \in [Flow -> Entry \cup {NoEntry}]
         /\ wan_to_lan' \in [WanKey -> Entry \cup {NoEntry}]
<1>1. Stamped(e) \in Entry
  BY StampFacts DEF TypeOK
<1> QED BY <1>1 DEF TypeOK, Update

LEMMA TakeType ==
  ASSUME TypeOK, NEW p \in Protocols, NEW i \in Nat, Take(p, i)
  PROVE  /\ used' \in [Protocols -> SUBSET (0 .. BitmapBits - 1)]
         /\ last' \in [Protocols -> Nat]
         /\ overrun' \in BOOLEAN
<1>1. CASE i < BitmapBits
  <2>1. i \in 0 .. BitmapBits - 1
    BY <1>1, NumberAssumption
  <2> QED BY <1>1, <2>1 DEF TypeOK, Take
<1>2. CASE ~(i < BitmapBits)
  BY <1>2 DEF TypeOK, Take
<1> QED BY <1>1, <1>2

LEMMA RecordsType ==
  ASSUME TypeOK, NEW kind \in {"out", "private", "in", "local"},
         NEW flow \in [proto : AnyProtocol, ip : Hosts \cup {NoIp},
                       port : IntPorts \cup {0}],
         NEW port \in Nat, Records(kind, flow, port)
  PROVE  wire' \in Wire
  BY DEF TypeOK, Records, Wire

LEMMA FlowIsWireFlow ==
  ASSUME NEW k \in Flow
  PROVE  k \in [proto : AnyProtocol, ip : Hosts \cup {NoIp},
                port : IntPorts \cup {0}]
  BY DEF Flow, AnyProtocol

LEMMA ScanNat == ASSUME NEW p PROVE Scan(p) \in Nat
  BY NumberAssumption DEF Scan

LEMMA ExternalPortNat == ExternalPorts \subseteq Nat
  BY NumberAssumption, ForwardAssumption DEF ExternalPorts, Entry

LEMMA InitType == Init => TypeOK
<1> SUFFICES ASSUME Init PROVE TypeOK
  OBVIOUS
<1>1. ASSUME NEW k \in Flow
      PROVE  lan_to_wan[k] \in Entry \cup {NoEntry}
  BY <1>1, ForwardKey DEF Init
<1>2. ASSUME NEW w \in WanKey
      PROVE  wan_to_lan[w] \in Entry \cup {NoEntry}
  BY <1>2, ForwardKey DEF Init
<1>3. /\ lan_to_wan \in [Flow -> Entry \cup {NoEntry}]
      /\ wan_to_lan \in [WanKey -> Entry \cup {NoEntry}]
  BY <1>1, <1>2 DEF Init
<1>4. wire \in Wire
  BY VoidIsEntry, FlowOfEntry DEF Init, Idle, Wire
<1>5. FirstIdx \in Nat
  BY NumberAssumption
<1>6. last \in [Protocols -> Nat] /\ used \in [Protocols -> SUBSET (0 .. BitmapBits - 1)]
  BY <1>5 DEF Init
<1>7. now \in Nat \ {0} /\ last_cleanup \in Nat /\ loop \in {"top", "recv"}
  BY DEF Init
<1>8. overrun \in BOOLEAN
  BY DEF Init
<1> QED BY <1>3, <1>4, <1>6, <1>7, <1>8 DEF TypeOK

LEMMA NextType == TypeOK /\ [Next]_vars => TypeOK'
<1> SUFFICES ASSUME TypeOK, [Next]_vars PROVE TypeOK'
  OBVIOUS
<1> USE DEF vars, tables, pools
<1>1. ASSUME NEW k \in Senders, OutboundHit(k) PROVE TypeOK'
  <2>1. k \in Flow /\ lan_to_wan[k] \in Entry
    BY <1>1, DomainAssumption DEF OutboundHit, TypeOK
  <2>2. lan_to_wan[k].external_port \in Nat
    BY <2>1 DEF Entry
  <2>3. wire' \in Wire
    BY <1>1, <2>1, <2>2, FlowIsWireFlow, RecordsType DEF OutboundHit
  <2>4. /\ lan_to_wan' \in [Flow -> Entry \cup {NoEntry}]
        /\ wan_to_lan' \in [WanKey -> Entry \cup {NoEntry}]
    BY <1>1, <2>1, UpdateType DEF OutboundHit, TypeOK
  <2> QED BY <1>1, <2>3, <2>4 DEF OutboundHit, Receiving, TypeOK
<1>2. ASSUME NEW k \in Senders, OutboundNew(k) PROVE TypeOK'
  <2>1. k \in Flow
    BY DomainAssumption
  <2>2. PICK i \in 0 .. Scan(k.proto) - 1 :
          /\ Take(k.proto, i)
          /\ \/ UNCHANGED tables
             \/ Update(k, NewSession(k, i))
          /\ Records("out", k, PortBase + i)
    BY <1>2 DEF OutboundNew
  <2>3. i \in Nat /\ PortBase + i \in Nat /\ k.proto \in Protocols
    BY <2>1, ScanNat, NumberAssumption DEF Flow
  <2>4. wire' \in Wire
    BY <2>1, <2>2, <2>3, FlowIsWireFlow, RecordsType
  <2>5. /\ lan_to_wan' \in [Flow -> Entry \cup {NoEntry}]
        /\ wan_to_lan' \in [WanKey -> Entry \cup {NoEntry}]
    BY <2>1, <2>2, <2>3, NewSessionFacts, UpdateType DEF TypeOK
  <2>6. /\ used' \in [Protocols -> SUBSET (0 .. BitmapBits - 1)]
        /\ last' \in [Protocols -> Nat]
        /\ overrun' \in BOOLEAN
    BY <2>2, <2>3, TakeType
  <2> QED BY <1>2, <2>4, <2>5, <2>6 DEF OutboundNew, Receiving, TypeOK
<1>3. ASSUME NEW k \in Senders, OutboundShort(k) PROVE TypeOK'
  <2>1. k \in Flow /\ k.port \in Nat
    BY DomainAssumption, NumberAssumption DEF Flow
  <2>2. wire' \in Wire
    BY <1>3, <2>1, FlowIsWireFlow, RecordsType DEF OutboundShort
  <2> QED BY <1>3, <2>2 DEF OutboundShort, Receiving, TypeOK
<1>4. ASSUME NEW k \in Senders, OutboundMisread(k) PROVE TypeOK'
  <2>1. k \in Flow
    BY DomainAssumption
  <2>2. wire' \in Wire
    BY <1>4, <2>1, FlowIsWireFlow, RecordsType DEF OutboundMisread
  <2>3. /\ lan_to_wan' \in [Flow -> Entry \cup {NoEntry}]
        /\ wan_to_lan' \in [WanKey -> Entry \cup {NoEntry}]
    BY <1>4, <2>1, VoidIsEntry, UpdateType DEF OutboundMisread, TypeOK
  <2> QED BY <1>4, <2>2, <2>3 DEF OutboundMisread, Receiving, TypeOK
<1>5. ASSUME NEW p \in Protocols, NEW n \in ExternalPorts, Inbound(p, n)
      PROVE  TypeOK'
  <2>1. <<p, n>> \in WanKey /\ n \in Nat
    BY ExternalPortNat DEF WanKey, AnyProtocol
  <2>2. \E flow \in [proto : AnyProtocol, ip : Hosts \cup {NoIp},
                     port : IntPorts \cup {0}], kind \in {"in", "local"} :
          Records(kind, flow, n)
    <3>1. CASE InboundHit(p, n)
      <4>1. wan_to_lan[<<p, n>>] \in Entry
        BY <2>1, <3>1 DEF TypeOK, InboundHit
      <4> QED BY <3>1, <4>1, FlowOfEntry DEF InboundHit
    <3>2. CASE InboundMiss(p, n) \/ InboundMisread(p, n)
      BY <3>2, VoidIsEntry, FlowOfEntry DEF InboundMiss, InboundMisread
    <3> QED BY <1>5, <3>1, <3>2 DEF Inbound
  <2>3. wire' \in Wire
    BY <2>1, <2>2, RecordsType
  <2>4. UNCHANGED <<tables, pools>> /\ Receiving
    BY <1>5 DEF Inbound, InboundHit, InboundMiss, InboundMisread
  <2> QED BY <2>3, <2>4 DEF Receiving, TypeOK
<1>6. CASE OtherFrame
  <2>1. wire' \in Wire
    BY <1>6, VoidIsEntry, FlowOfEntry DEF OtherFrame, Idle, Wire
  <2> QED BY <1>6, <2>1 DEF OtherFrame, Receiving, TypeOK
<1>7. CASE Sweep
  BY <1>7 DEF Sweep, Waits, CleanupExpired, TypeOK
<1>8. CASE SkipSweep
  BY <1>8 DEF SkipSweep, Waits, TypeOK
<1>9. CASE Tick
  BY <1>9 DEF Tick, TypeOK
<1>10. CASE UNCHANGED vars
  BY <1>10 DEF TypeOK
<1> QED BY <1>1, <1>2, <1>3, <1>4, <1>5, <1>6, <1>7, <1>8, <1>9, <1>10
        DEF Next, Receive, Outbound

(***************************************************************************)
(* Every reachable state is typed: what the tables hold are entries, and   *)
(* no bit beyond the end of a bitmap is ever taken for a port.             *)
(***************************************************************************)
THEOREM TypeCorrect == Spec => []TypeOK
  BY InitType, NextType, PTL DEF Spec

-----------------------------------------------------------------------------
(***************************************************************************)
(* The inductive invariant: one lemma for each way the tables change.      *)
(***************************************************************************)
LEMMA TimeoutNat == \A p \in AnyProtocol : Timeout[p] \in Nat
  BY NumberAssumption DEF Timeout, AnyProtocol, Protocols

\* A forward's external port is not one the allocators hand out.
LEMMA ForwardOutsidePool ==
  ASSUME NEW f \in Forwards, NEW p, NEW i \in 0 .. BitmapBits - 1
  PROVE  WanKeyOf(f) # <<p, PortBase + i>>
<1>1. f.external_port \in Nat /\ f.external_port - PortBase # i
  BY ForwardAssumption DEF Entry
<1>2. PortBase \in Nat
  BY NumberAssumption
<1> QED BY <1>1, <1>2 DEF WanKeyOf

LEMMA InitInv == Init => NatInv
<1> SUFFICES ASSUME Init PROVE NatInv
  OBVIOUS
<1>1. TypeOK
  BY InitType
<1>2. ASSUME NEW k \in Flow, lan_to_wan[k] # NoEntry
      PROVE  lan_to_wan[k] \in Forwards /\ FlowOf(lan_to_wan[k]) = k
  BY <1>2 DEF Init
<1>3. ASSUME NEW w \in WanKey, wan_to_lan[w] # NoEntry
      PROVE  wan_to_lan[w] \in Forwards /\ WanKeyOf(wan_to_lan[w]) = w
  BY <1>3 DEF Init
<1>4. ASSUME NEW f \in Forwards
      PROVE  lan_to_wan[FlowOf(f)] = f /\ wan_to_lan[WanKeyOf(f)] = f
  <2>1. lan_to_wan[FlowOf(f)] = CHOOSE g \in Forwards : FlowOf(g) = FlowOf(f)
    BY ForwardKey DEF Init
  <2>2. wan_to_lan[WanKeyOf(f)] = CHOOSE g \in Forwards : WanKeyOf(g) = WanKeyOf(f)
    BY ForwardKey DEF Init
  <2> QED BY <2>1, <2>2, ForwardAssumption
<1>5. \A f \in Forwards : f.protocol # "none" /\ f.last_updated = 0
  BY ForwardKey DEF Protocols
<1>6. LanAgrees
  <2> SUFFICES ASSUME NEW k \in Flow, lan_to_wan[k] # NoEntry
               PROVE  /\ FlowOf(lan_to_wan[k]) = k
                      /\ WanKeyOf(lan_to_wan[k]) \in WanKey
                      /\ wan_to_lan[WanKeyOf(lan_to_wan[k])] = lan_to_wan[k]
    BY DEF LanAgrees, Session
  <2> QED BY <1>2, <1>4, ForwardKey
<1>7. WanAgrees
  <2> SUFFICES ASSUME NEW w \in WanKey, wan_to_lan[w] # NoEntry
               PROVE  /\ WanKeyOf(wan_to_lan[w]) = w
                      /\ FlowOf(wan_to_lan[w]) \in Flow
                      /\ lan_to_wan[FlowOf(wan_to_lan[w])] = wan_to_lan[w]
    BY DEF WanAgrees, Session
  <2> QED BY <1>3, <1>4, ForwardKey
<1>8. SessionsHoldPorts /\ Swept
  BY <1>3, <1>5 DEF SessionsHoldPorts, Swept, Dynamic, Session
<1>9. PortsHaveSessions
  BY DEF PortsHaveSessions, Init, Protocols
<1>10. ForwardsPermanent
  BY <1>4 DEF ForwardsPermanent
<1>11. ClocksOrdered
  BY <1>3, <1>5 DEF ClocksOrdered, Init
<1>12. VoidsAlike
  BY <1>2, <1>3, <1>5 DEF VoidsAlike
<1>13. StaticsConfigured
  BY <1>3 DEF StaticsConfigured, Session
<1> QED BY <1>1, <1>6, <1>7, <1>8, <1>9, <1>10, <1>11, <1>12, <1>13
        DEF NatInv, TablesAgree

\* Steps that leave the tables and the bits alone.
LEMMA QuietStep ==
  ASSUME NatInv, TypeOK', UNCHANGED <<lan_to_wan, wan_to_lan, used, last_cleanup>>,
         now <= now'
  PROVE  NatInv'
<1>1. ClocksOrdered'
  <2>1. now \in Nat /\ now' \in Nat /\ last_cleanup \in Nat
    BY DEF NatInv, TypeOK
  <2>2. ASSUME NEW w \in WanKey, wan_to_lan[w] # NoEntry
        PROVE  wan_to_lan[w].last_updated <= now'
    <3>1. wan_to_lan[w].last_updated \in Nat /\ wan_to_lan[w].last_updated <= now
      BY <2>2 DEF NatInv, TypeOK, Entry, ClocksOrdered
    <3> QED BY <2>1, <3>1
  <2> QED BY <2>1, <2>2 DEF NatInv, ClocksOrdered
<1> QED BY <1>1 DEF NatInv, TablesAgree, LanAgrees, WanAgrees, Session, Dynamic,
        SessionsHoldPorts, PortsHaveSessions, ForwardsPermanent, Swept,
        VoidsAlike, StaticsConfigured

(***************************************************************************)
(* update_nat_table on a session: the key is free in both tables, or both  *)
(* hold the entry already.                                                 *)
(***************************************************************************)
LEMMA UpdateKeeps ==
  ASSUME NatInv, NEW k \in Flow, NEW e \in Entry, Update(k, e),
         UNCHANGED <<now, last_cleanup>>,
         e.protocol \in {"TCP", "ICMP"}, FlowOf(e) = k, WanKeyOf(e) \in WanKey,
         lan_to_wan[k] = NoEntry \/ lan_to_wan[k] = e,
         wan_to_lan[WanKeyOf(e)] = lan_to_wan[k],
         \A f \in Forwards : f.protocol # "ICMP" =>
           FlowOf(f) # k /\ WanKeyOf(f) # WanKeyOf(e)
  PROVE  /\ TablesAgree' /\ ForwardsPermanent' /\ Swept' /\ ClocksOrdered'
         /\ VoidsAlike' /\ StaticsConfigured'
         /\ \A w \in WanKey \ {WanKeyOf(e)} : wan_to_lan'[w] = wan_to_lan[w]
         /\ Dynamic(wan_to_lan'[WanKeyOf(e)])
         /\ WanKeyOf(wan_to_lan'[WanKeyOf(e)]) = WanKeyOf(e)
<1> DEFINE s == Stamped(e)
           v == WanKeyOf(e)
<1>1. now \in Nat \ {0}
  BY DEF NatInv, TypeOK
<1>2. /\ s \in Entry /\ s # NoEntry /\ s.last_updated = now
      /\ s.protocol = e.protocol /\ FlowOf(s) = k /\ WanKeyOf(s) = v
  BY <1>1, StampFacts, DomainAssumption
<1>3. /\ lan_to_wan'[k] = s
      /\ \A x \in Flow \ {k} : lan_to_wan'[x] = lan_to_wan[x]
      /\ wan_to_lan'[v] = s
      /\ \A w \in WanKey \ {v} : wan_to_lan'[w] = wan_to_lan[w]
  BY DEF Update, NatInv, TypeOK
<1>4. v \in WanKey /\ (wan_to_lan[v] = NoEntry \/ wan_to_lan[v] = e)
  OBVIOUS
<1>5. Session(s) /\ Dynamic(s)
  BY <1>1, <1>2 DEF Session, Dynamic
<1> HIDE DEF s, v
<1>6. LanAgrees'
  <2> SUFFICES ASSUME NEW x \in Flow, Session(lan_to_wan'[x])
               PROVE  /\ FlowOf(lan_to_wan'[x]) = x
                      /\ WanKeyOf(lan_to_wan'[x]) \in WanKey
                      /\ wan_to_lan'[WanKeyOf(lan_to_wan'[x])] = lan_to_wan'[x]
    BY DEF LanAgrees, Session
  <2>1. CASE x = k
    BY <1>2, <1>3, <1>4, <2>1
  <2>2. CASE x # k
    <3>1. /\ FlowOf(lan_to_wan[x]) = x
          /\ WanKeyOf(lan_to_wan[x]) \in WanKey
          /\ wan_to_lan[WanKeyOf(lan_to_wan[x])] = lan_to_wan[x]
          /\ lan_to_wan[x] # NoEntry
      BY <1>3, <2>2 DEF NatInv, TablesAgree, LanAgrees, Session
    <3>2. WanKeyOf(lan_to_wan[x]) # v
      BY <1>4, <2>2, <3>1
    <3> QED BY <1>3, <2>2, <3>1, <3>2
  <2> QED BY <2>1, <2>2
<1>7. WanAgrees'
  <2> SUFFICES ASSUME NEW w \in WanKey, Session(wan_to_lan'[w])
               PROVE  /\ WanKeyOf(wan_to_lan'[w]) = w
                      /\ FlowOf(wan_to_lan'[w]) \in Flow
                      /\ lan_to_wan'[FlowOf(wan_to_lan'[w])] = wan_to_lan'[w]
    BY DEF WanAgrees, Session
  <2>1. CASE w = v
    BY <1>2, <1>3, <2>1
  <2>2. CASE w # v
    <3>1. /\ WanKeyOf(wan_to_lan[w]) = w
          /\ FlowOf(wan_to_lan[w]) \in Flow
          /\ lan_to_wan[FlowOf(wan_to_lan[w])] = wan_to_lan[w]
          /\ wan_to_lan[w] # NoEntry
      BY <1>3, <2>2 DEF NatInv, TablesAgree, WanAgrees, Session
    <3>2. FlowOf(wan_to_lan[w]) # k
      BY <2>2, <3>1 DEF v
    <3> QED BY <1>3, <2>2, <3>1, <3>2
  <2> QED BY <2>1, <2>2
<1>8. ForwardsPermanent'
  BY <1>3, ForwardKey DEF NatInv, ForwardsPermanent, v
<1>9. Swept'
  <2> SUFFICES ASSUME NEW w \in WanKey, Dynamic(wan_to_lan'[w])
               PROVE  last_cleanup - wan_to_lan'[w].last_updated
                        <= Timeout[wan_to_lan'[w].protocol]
    BY DEF Swept, Dynamic, Session
  <2>1. CASE w = v
    <3>1. last_cleanup <= now /\ last_cleanup \in Nat
      BY DEF NatInv, ClocksOrdered, TypeOK
    <3>2. Timeout[s.protocol] \in Nat
      BY <1>2, TimeoutNat DEF AnyProtocol, Protocols
    <3> QED BY <1>1, <1>2, <1>3, <2>1, <3>1, <3>2
  <2>2. CASE w # v
    BY <1>3, <2>2 DEF NatInv, Swept
  <2> QED BY <2>1, <2>2
<1>10. ClocksOrdered'
  BY <1>1, <1>2, <1>3, <1>4 DEF NatInv, ClocksOrdered
<1>11. VoidsAlike'
  <2>1. s.protocol # "none"
    BY <1>2
  <2> QED BY <1>3, <2>1 DEF NatInv, VoidsAlike
<1>12. StaticsConfigured'
  BY <1>3, <1>5 DEF NatInv, StaticsConfigured, Session, Dynamic
<1> QED BY <1>2, <1>3, <1>5, <1>6, <1>7, <1>8, <1>9, <1>10, <1>11, <1>12
        DEF TablesAgree, v

\* update_nat_table on the entry of a misread miss: no session is touched.
LEMMA UpdateVoidKeeps ==
  ASSUME NatInv, TypeOK', NEW k \in Flow, NEW e \in Entry, Update(k, e),
         UNCHANGED <<now, used, last_cleanup>>,
         e = [VoidEntry EXCEPT !.last_updated = e.last_updated],
         lan_to_wan[k] = NoEntry \/ lan_to_wan[k].protocol = "none"
  PROVE  NatInv'
<1> DEFINE s == Stamped(e)
           v == WanKeyOf(VoidEntry)
<1>1. now \in Nat \ {0}
  BY DEF NatInv, TypeOK
<1>2. /\ e.protocol = "none" /\ FlowOf(e) = FlowOf(VoidEntry) /\ WanKeyOf(e) = v
      /\ v[1] = "none"
  BY DEF VoidEntry, FlowOf, WanKeyOf
<1>3. v \in WanKey
  BY DEF VoidEntry, WanKeyOf, WanKey, AnyProtocol
<1>4. /\ s \in Entry /\ s # NoEntry /\ s.last_updated = now
      /\ s.protocol = "none" /\ FlowOf(s) = FlowOf(VoidEntry)
      /\ s = [VoidEntry EXCEPT !.last_updated = s.last_updated]
  BY <1>1, <1>2, StampFacts, DomainAssumption DEF Stamped, VoidEntry
<1>5. /\ lan_to_wan'[k] = s
      /\ \A x \in Flow \ {k} : lan_to_wan'[x] = lan_to_wan[x]
      /\ wan_to_lan'[v] = s
      /\ \A w \in WanKey \ {v} : wan_to_lan'[w] = wan_to_lan[w]
  BY <1>2, <1>3 DEF Update, NatInv, TypeOK
<1> HIDE DEF s, v
<1>6. ~Session(wan_to_lan[v])
  <2>1. ASSUME Session(wan_to_lan[v]) PROVE FALSE
    <3>1. WanKeyOf(wan_to_lan[v]) = v /\ wan_to_lan[v].protocol # "none"
      BY <1>3, <2>1 DEF NatInv, TablesAgree, WanAgrees, Session
    <3> QED BY <1>2, <3>1 DEF WanKeyOf
  <2> QED BY <2>1
<1>7. \A x \in Flow :
        \/ ~Session(lan_to_wan'[x]) /\ ~Session(lan_to_wan[x])
        \/ lan_to_wan'[x] = lan_to_wan[x]
  BY <1>4, <1>5 DEF Session
<1>8. \A w \in WanKey :
        \/ ~Session(wan_to_lan'[w]) /\ ~Session(wan_to_lan[w])
        \/ wan_to_lan'[w] = wan_to_lan[w]
  BY <1>4, <1>5, <1>6 DEF Session
<1>9. LanAgrees'
  <2> SUFFICES ASSUME NEW x \in Flow, Session(lan_to_wan'[x])
               PROVE  /\ FlowOf(lan_to_wan'[x]) = x
                      /\ WanKeyOf(lan_to_wan'[x]) \in WanKey
                      /\ wan_to_lan'[WanKeyOf(lan_to_wan'[x])] = lan_to_wan'[x]
    BY DEF LanAgrees, Session
  <2>1. lan_to_wan'[x] = lan_to_wan[x] /\ Session(lan_to_wan[x])
    BY <1>7
  <2> QED BY <1>8, <2>1 DEF NatInv, TablesAgree, LanAgrees
<1>10. WanAgrees'
  <2> SUFFICES ASSUME NEW w \in WanKey, Session(wan_to_lan'[w])
               PROVE  /\ WanKeyOf(wan_to_lan'[w]) = w
                      /\ FlowOf(wan_to_lan'[w]) \in Flow
                      /\ lan_to_wan'[FlowOf(wan_to_lan'[w])] = wan_to_lan'[w]
    BY DEF WanAgrees, Session
  <2>1. wan_to_lan'[w] = wan_to_lan[w] /\ Session(wan_to_lan[w])
    BY <1>8
  <2> QED BY <1>7, <2>1 DEF NatInv, TablesAgree, WanAgrees
<1>11. SessionsHoldPorts'
  BY <1>8 DEF NatInv, SessionsHoldPorts, Dynamic, Session
<1>12. PortsHaveSessions'
  <2> SUFFICES ASSUME NEW p \in {"TCP", "ICMP"}, NEW i \in used[p], i < PoolSize
               PROVE  Dynamic(wan_to_lan'[<<p, PortBase + i>>])
    BY DEF PortsHaveSessions, Dynamic, Session
  <2>1. <<p, PortBase + i>> \in WanKey
    BY PoolKey DEF NatInv, TypeOK, Protocols, AnyProtocol
  <2>2. Dynamic(wan_to_lan[<<p, PortBase + i>>])
    BY DEF NatInv, PortsHaveSessions
  <2> QED BY <1>8, <2>1, <2>2 DEF Dynamic
<1>13. ForwardsPermanent'
  <2>1. \A f \in Forwards : Session(f) /\ FlowOf(f) \in Flow /\ WanKeyOf(f) \in WanKey
    BY ForwardKey DEF Session, Protocols
  <2> QED BY <1>7, <1>8, <2>1 DEF NatInv, ForwardsPermanent
<1>14. Swept'
  BY <1>8 DEF NatInv, Swept, Dynamic, Session
<1>15. ClocksOrdered'
  BY <1>1, <1>4, <1>5 DEF NatInv, ClocksOrdered
<1>16. VoidsAlike'
  BY <1>4, <1>5 DEF NatInv, VoidsAlike, v
<1>17. StaticsConfigured'
  BY <1>8 DEF NatInv, StaticsConfigured, Dynamic, Session
<1> QED BY <1>9, <1>10, <1>11, <1>12, <1>13, <1>14, <1>15, <1>16, <1>17
        DEF NatInv, TablesAgree

\* A clear bit means a free port: no table holds an entry for it.
LEMMA ClearBitFree ==
  ASSUME NatInv, NEW p \in Protocols, NEW i \in 0 .. BitmapBits - 1,
         i \notin used[p]
  PROVE  wan_to_lan[<<p, PortBase + i>>] = NoEntry
<1> DEFINE w == <<p, PortBase + i>>
           e == wan_to_lan[w]
<1>1. w \in WanKey
  BY PoolKey DEF AnyProtocol
<1> SUFFICES ASSUME e # NoEntry PROVE FALSE
  OBVIOUS
<1>2. Session(e)
  <2>1. w # WanKeyOf(VoidEntry)
    BY DEF WanKeyOf, VoidEntry, Protocols
  <2> QED BY <1>1, <2>1 DEF NatInv, VoidsAlike, Session
<1>3. WanKeyOf(e) = w
  BY <1>1, <1>2 DEF NatInv, TablesAgree, WanAgrees
<1>4. \A f \in Forwards : WanKeyOf(f) # w
  BY ForwardOutsidePool
<1>5. Dynamic(e)
  BY <1>1, <1>2, <1>3, <1>4 DEF NatInv, StaticsConfigured
<1>6. e.protocol = p /\ e.external_port - PortBase = i
  BY <1>3, NumberAssumption DEF WanKeyOf
<1>7. e.external_port - PortBase \in used[e.protocol]
  BY <1>1, <1>4, <1>5 DEF NatInv, SessionsHoldPorts
<1> QED BY <1>6, <1>7

LEMMA HitKeeps ==
  ASSUME NatInv, TypeOK', NEW k \in Flow, OutboundHit(k)
  PROVE  NatInv'
<1>1. CASE k.proto # "ICMP"
  <2>1. now \in Nat /\ UNCHANGED <<lan_to_wan, wan_to_lan, used, now, last_cleanup>>
    BY <1>1 DEF OutboundHit, Receiving, tables, pools, NatInv, TypeOK
  <2> QED BY <2>1, QuietStep
<1>2. CASE k.proto = "ICMP" /\ lan_to_wan[k].protocol = "none"
  <2>1. /\ lan_to_wan[k] \in Entry
        /\ lan_to_wan[k] = [VoidEntry EXCEPT !.last_updated = lan_to_wan[k].last_updated]
    BY <1>2 DEF OutboundHit, NatInv, TypeOK, VoidsAlike
  <2> QED BY <1>2, <2>1, UpdateVoidKeeps DEF OutboundHit, Receiving, pools
<1>3. CASE k.proto = "ICMP" /\ lan_to_wan[k].protocol # "none"
  <2> DEFINE e == lan_to_wan[k]
             v == WanKeyOf(e)
  <2>1. e \in Entry /\ Session(e) /\ Update(k, e)
    BY <1>3 DEF OutboundHit, NatInv, TypeOK, Session
  <2>2. FlowOf(e) = k /\ v \in WanKey /\ wan_to_lan[v] = e
    BY <2>1 DEF NatInv, TablesAgree, LanAgrees
  <2>3. e.protocol = "ICMP" /\ v[1] = "ICMP"
    BY <1>3, <2>2 DEF FlowOf, WanKeyOf
  <2>4. \A f \in Forwards : f.protocol # "ICMP" => FlowOf(f) # k /\ WanKeyOf(f) # v
    BY <1>3, <2>3 DEF FlowOf, WanKeyOf
  <2>5. UNCHANGED <<now, used, last_cleanup>>
    BY DEF OutboundHit, Receiving, pools
  <2>6. /\ TablesAgree' /\ ForwardsPermanent' /\ Swept' /\ ClocksOrdered'
        /\ VoidsAlike' /\ StaticsConfigured'
        /\ \A w \in WanKey \ {v} : wan_to_lan'[w] = wan_to_lan[w]
        /\ Dynamic(wan_to_lan'[v]) /\ WanKeyOf(wan_to_lan'[v]) = v
    BY <2>1, <2>2, <2>3, <2>4, <2>5, UpdateKeeps
  <2>7. \/ e.external_port - PortBase \in used[e.protocol]
        \/ \E f \in Forwards : WanKeyOf(f) = v
    BY <2>1, <2>2 DEF NatInv, SessionsHoldPorts, StaticsConfigured
  <2>8. SessionsHoldPorts'
    <3> SUFFICES ASSUME NEW w \in WanKey, Dynamic(wan_to_lan'[w])
                 PROVE  \/ wan_to_lan'[w].external_port - PortBase
                             \in used[wan_to_lan'[w].protocol]
                        \/ \E f \in Forwards : WanKeyOf(f) = w
      BY <2>5 DEF SessionsHoldPorts, Dynamic, Session
    <3>1. CASE w = v
      <4>1. /\ wan_to_lan'[v].external_port = e.external_port
            /\ wan_to_lan'[v].protocol = e.protocol
        BY <2>6 DEF WanKeyOf
      <4> QED BY <2>7, <3>1, <4>1
    <3>2. CASE w # v
      BY <2>6, <3>2 DEF NatInv, SessionsHoldPorts
    <3> QED BY <3>1, <3>2
  <2>9. PortsHaveSessions'
    <3> SUFFICES ASSUME NEW p \in {"TCP", "ICMP"}, NEW i \in used[p], i < PoolSize
                 PROVE  Dynamic(wan_to_lan'[<<p, PortBase + i>>])
      BY <2>5 DEF PortsHaveSessions, Dynamic, Session
    <3>1. <<p, PortBase + i>> \in WanKey
      BY PoolKey DEF NatInv, TypeOK, Protocols, AnyProtocol
    <3>2. Dynamic(wan_to_lan[<<p, PortBase + i>>])
      BY DEF NatInv, PortsHaveSessions
    <3> QED BY <2>6, <3>1, <3>2
  <2> QED BY <2>6, <2>8, <2>9 DEF NatInv
<1> QED BY <1>1, <1>2, <1>3

LEMMA NewKeeps ==
  ASSUME NatInv, TypeOK', NEW k \in Flow, OutboundNew(k)
  PROVE  NatInv'
<1>1. PICK i \in 0 .. Scan(k.proto) - 1 :
        /\ i \notin used[k.proto]
        /\ Take(k.proto, i)
        /\ IF k.proto = "UDP" \/ i >= BitmapBits
             THEN UNCHANGED tables ELSE Update(k, NewSession(k, i))
  BY DEF OutboundNew, FirstFree
<1> DEFINE p == k.proto
<1>2. p \in Protocols /\ i \in Nat /\ lan_to_wan[k] = NoEntry
  BY ScanNat DEF Flow, OutboundNew
<1>3. UNCHANGED <<now, last_cleanup>> /\ now \in Nat
  BY DEF OutboundNew, Receiving, NatInv, TypeOK
<1>4. BitmapBits \in Nat /\ PoolSize \in Nat /\ PoolSize <= BitmapBits
  BY NumberAssumption
<1>5. CASE i >= BitmapBits
  <2>1. UNCHANGED <<lan_to_wan, wan_to_lan, used>>
    BY <1>1, <1>2, <1>4, <1>5 DEF Take, tables
  <2> QED BY <1>3, <2>1, QuietStep
<1>6. CASE p = "UDP" /\ i < BitmapBits
  <2>1. UNCHANGED <<lan_to_wan, wan_to_lan>>
    BY <1>1, <1>6 DEF tables
  <2>2. used' = [used EXCEPT ![p] = @ \cup {i}]
    BY <1>1, <1>6 DEF Take
  <2>3. \A q \in Protocols : used[q] \subseteq used'[q] /\ (q # "UDP" => used'[q] = used[q])
    BY <1>6, <2>2 DEF NatInv, TypeOK
  <2>4. SessionsHoldPorts'
    <3> SUFFICES ASSUME NEW w \in WanKey, Dynamic(wan_to_lan[w])
                 PROVE  \/ wan_to_lan[w].external_port - PortBase
                             \in used'[wan_to_lan[w].protocol]
                        \/ \E f \in Forwards : WanKeyOf(f) = w
      BY <2>1 DEF SessionsHoldPorts, Dynamic, Session
    <3>1. wan_to_lan[w].protocol \in Protocols
      BY DEF Dynamic, Session, NatInv, TypeOK, Entry, AnyProtocol
    <3> QED BY <2>3, <3>1 DEF NatInv, SessionsHoldPorts
  <2>5. PortsHaveSessions'
    BY <2>1, <2>3 DEF NatInv, PortsHaveSessions, Dynamic, Session, Protocols
  <2> QED BY <1>3, <2>1, <2>4, <2>5
          DEF NatInv, TablesAgree, LanAgrees, WanAgrees, Session, Dynamic,
              ForwardsPermanent, Swept, ClocksOrdered, VoidsAlike, StaticsConfigured
<1>7. CASE p # "UDP" /\ i < BitmapBits
  <2> DEFINE e == NewSession(k, i)
             v == <<p, PortBase + i>>
  <2>1. i \in 0 .. BitmapBits - 1 /\ p \in {"TCP", "ICMP"}
    BY <1>2, <1>4, <1>7 DEF Protocols
  <2>2. Update(k, e) /\ used' = [used EXCEPT ![p] = @ \cup {i}]
    BY <1>1, <1>2, <1>4, <1>7 DEF Take
  <2>3. /\ e \in Entry /\ e.protocol = p /\ FlowOf(e) = k /\ WanKeyOf(e) = v
        /\ e.external_port = PortBase + i
    BY <1>2, NewSessionFacts
  <2>4. v \in WanKey
    BY <1>2, <2>1, PoolKey DEF AnyProtocol
  <2>5. wan_to_lan[v] = NoEntry
    BY <1>1, <1>2, <2>1, ClearBitFree
  <2>6. \A f \in Forwards : f.protocol # "ICMP" => FlowOf(f) # k /\ WanKeyOf(f) # v
    <3> SUFFICES ASSUME NEW f \in Forwards, f.protocol # "ICMP"
                 PROVE  FlowOf(f) # k /\ WanKeyOf(f) # v
      OBVIOUS
    <3>1. lan_to_wan[FlowOf(f)] # NoEntry
      BY ForwardKey DEF NatInv, ForwardsPermanent
    <3> QED BY <1>2, <2>1, <3>1, ForwardOutsidePool
  <2> HIDE DEF e, v
  <2>7. /\ TablesAgree' /\ ForwardsPermanent' /\ Swept' /\ ClocksOrdered'
        /\ VoidsAlike' /\ StaticsConfigured'
        /\ \A w \in WanKey \ {v} : wan_to_lan'[w] = wan_to_lan[w]
        /\ Dynamic(wan_to_lan'[v]) /\ WanKeyOf(wan_to_lan'[v]) = v
    BY <1>2, <1>3, <2>1, <2>2, <2>3, <2>4, <2>5, <2>6, UpdateKeeps
  <2>8. /\ \A q \in Protocols : used[q] \subseteq used'[q]
        /\ \A q \in Protocols \ {p} : used'[q] = used[q]
        /\ used'[p] = used[p] \cup {i}
    BY <1>2, <2>2 DEF NatInv, TypeOK
  <2>9. SessionsHoldPorts'
    <3> SUFFICES ASSUME NEW w \in WanKey, Dynamic(wan_to_lan'[w])
                 PROVE  \/ wan_to_lan'[w].external_port - PortBase
                             \in used'[wan_to_lan'[w].protocol]
                        \/ \E f \in Forwards : WanKeyOf(f) = w
      BY DEF SessionsHoldPorts, Dynamic, Session
    <3>1. CASE w = v
      <4>1. wan_to_lan'[v].external_port = PortBase + i /\ wan_to_lan'[v].protocol = p
        BY <2>7 DEF WanKeyOf, v
      <4>2. wan_to_lan'[v].external_port - PortBase = i
        BY <1>2, <4>1, NumberAssumption
      <4>3. i \in used'[wan_to_lan'[v].protocol]
        BY <2>8, <4>1
      <4> QED BY <3>1, <4>2, <4>3
    <3>2. CASE w # v
      <4>1. wan_to_lan'[w] = wan_to_lan[w]
        BY <2>7, <3>2
      <4>2. wan_to_lan[w].protocol \in Protocols
        BY <4>1 DEF Dynamic, Session, NatInv, TypeOK, Entry, AnyProtocol
      <4> QED BY <2>8, <4>1, <4>2 DEF NatInv, SessionsHoldPorts
    <3> QED BY <3>1, <3>2
  <2>10. PortsHaveSessions'
    <3> SUFFICES ASSUME NEW q \in {"TCP", "ICMP"}, NEW j \in used'[q], j < PoolSize
                 PROVE  Dynamic(wan_to_lan'[<<q, PortBase + j>>])
      BY DEF PortsHaveSessions, Dynamic, Session
    <3>1. CASE q = p /\ j = i
      BY <2>7, <3>1 DEF v
    <3>2. CASE ~(q = p /\ j = i)
      <4>1. q \in Protocols /\ j \in used[q]
        BY <2>8, <3>2 DEF Protocols
      <4>2. j \in 0 .. BitmapBits - 1
        BY <4>1 DEF NatInv, TypeOK
      <4>3. <<q, PortBase + j>> \in WanKey
        BY <4>1, <4>2, PoolKey DEF AnyProtocol
      <4>4. <<q, PortBase + j>> # v
        BY <1>2, <3>2, <4>2, NumberAssumption DEF v
      <4>5. Dynamic(wan_to_lan[<<q, PortBase + j>>])
        BY <4>1 DEF NatInv, PortsHaveSessions
      <4> QED BY <2>7, <4>3, <4>4, <4>5
    <3> QED BY <3>1, <3>2
  <2> QED BY <2>7, <2>9, <2>10 DEF NatInv
<1> QED BY <1>2, <1>4, <1>5, <1>6, <1>7

LEMMA SweepKeeps ==
  ASSUME NatInv, TypeOK', Sweep
  PROVE  NatInv'
<1>1. /\ \A w \in WanKey : w \in ExpiredKeys => wan_to_lan'[w] = NoEntry
      /\ \A w \in WanKey : w \notin ExpiredKeys => wan_to_lan'[w] = wan_to_lan[w]
      /\ \A k \in Flow : lan_to_wan'[k] # NoEntry =>
           /\ lan_to_wan'[k] = lan_to_wan[k]
           /\ \A w \in ExpiredKeys : FlowOf(wan_to_lan[w]) # k
      /\ \A k \in Flow : (\A w \in ExpiredKeys : FlowOf(wan_to_lan[w]) # k)
                            => lan_to_wan'[k] = lan_to_wan[k]
      /\ \A p \in Protocols : used'[p] = used[p] \ Freed(p)
      /\ now' = now /\ last_cleanup' = now
  BY DEF Sweep, Waits, CleanupExpired
<1>2. /\ ExpiredKeys \subseteq WanKey
      /\ \A w \in ExpiredKeys : /\ wan_to_lan[w] # NoEntry
                                /\ wan_to_lan[w].last_updated # 0
  BY DEF ExpiredKeys, Expired
<1> USE DEF Session
<1>3. LanAgrees'
  <2> SUFFICES ASSUME NEW k \in Flow, Session(lan_to_wan'[k])
               PROVE  /\ FlowOf(lan_to_wan'[k]) = k
                      /\ WanKeyOf(lan_to_wan'[k]) \in WanKey
                      /\ wan_to_lan'[WanKeyOf(lan_to_wan'[k])] = lan_to_wan'[k]
    BY DEF LanAgrees
  <2>1. /\ lan_to_wan'[k] = lan_to_wan[k]
        /\ \A w \in ExpiredKeys : FlowOf(wan_to_lan[w]) # k
    BY <1>1
  <2>2. /\ FlowOf(lan_to_wan[k]) = k /\ WanKeyOf(lan_to_wan[k]) \in WanKey
        /\ wan_to_lan[WanKeyOf(lan_to_wan[k])] = lan_to_wan[k]
    BY <2>1 DEF NatInv, TablesAgree, LanAgrees
  <2> QED BY <1>1, <2>1, <2>2
<1>4. WanAgrees'
  <2> SUFFICES ASSUME NEW w \in WanKey, Session(wan_to_lan'[w])
               PROVE  /\ WanKeyOf(wan_to_lan'[w]) = w
                      /\ FlowOf(wan_to_lan'[w]) \in Flow
                      /\ lan_to_wan'[FlowOf(wan_to_lan'[w])] = wan_to_lan'[w]
    BY DEF WanAgrees
  <2> DEFINE e == wan_to_lan[w]
  <2>1. w \notin ExpiredKeys /\ wan_to_lan'[w] = e /\ Session(e)
    BY <1>1
  <2>2. WanKeyOf(e) = w /\ FlowOf(e) \in Flow /\ lan_to_wan[FlowOf(e)] = e
    BY <2>1 DEF NatInv, TablesAgree, WanAgrees
  <2>3. ASSUME NEW x \in ExpiredKeys, FlowOf(wan_to_lan[x]) = FlowOf(e)
        PROVE  FALSE
    <3>1. x \in WanKey /\ Session(wan_to_lan[x])
      BY <1>2, <2>1, <2>3 DEF FlowOf
    <3>2. WanKeyOf(wan_to_lan[x]) = x /\ lan_to_wan[FlowOf(wan_to_lan[x])] = wan_to_lan[x]
      BY <3>1 DEF NatInv, TablesAgree, WanAgrees
    <3> QED BY <2>1, <2>2, <2>3, <3>2
  <2> QED BY <1>1, <2>1, <2>2, <2>3
<1>5. SessionsHoldPorts'
  <2> SUFFICES ASSUME NEW w \in WanKey, Dynamic(wan_to_lan'[w]),
                      \A f \in Forwards : WanKeyOf(f) # w
               PROVE  wan_to_lan'[w].external_port - PortBase
                        \in used'[wan_to_lan'[w].protocol]
    BY DEF SessionsHoldPorts, Dynamic
  <2> DEFINE e == wan_to_lan[w]
             p == e.protocol
             i == e.external_port - PortBase
  <2>1. w \notin ExpiredKeys /\ wan_to_lan'[w] = e /\ Dynamic(e)
    BY <1>1 DEF Dynamic
  <2>2. WanKeyOf(e) = w /\ i \in used[p]
    BY <2>1 DEF NatInv, TablesAgree, WanAgrees, SessionsHoldPorts, Dynamic
  <2>3. e \in Entry /\ p \in Protocols /\ e.external_port \in Nat
    BY <2>1 DEF Dynamic, NatInv, TypeOK, Entry, AnyProtocol
  <2>4. ASSUME i \in Freed(p) PROVE FALSE
    <3>1. PICK x \in ExpiredKeys : /\ wan_to_lan[x].protocol = p
                                   /\ wan_to_lan[x].external_port = PortBase + i
      BY <2>4 DEF Freed
    <3>2. PortBase + i = e.external_port
      BY <2>3, NumberAssumption
    <3>3. WanKeyOf(wan_to_lan[x]) = WanKeyOf(e)
      BY <3>1, <3>2 DEF WanKeyOf
    <3>4. WanKeyOf(wan_to_lan[x]) = x
      BY <1>2, <2>3, <3>1 DEF NatInv, TablesAgree, WanAgrees, Protocols
    <3> QED BY <2>1, <2>2, <3>3, <3>4
  <2> QED BY <1>1, <2>1, <2>2, <2>3, <2>4
<1>6. PortsHaveSessions'
  <2> SUFFICES ASSUME NEW p \in {"TCP", "ICMP"}, NEW i \in used'[p], i < PoolSize
               PROVE  Dynamic(wan_to_lan'[<<p, PortBase + i>>])
    BY DEF PortsHaveSessions, Dynamic
  <2> DEFINE w == <<p, PortBase + i>>
  <2>1. p \in Protocols /\ i \in used[p] /\ i \notin Freed(p)
    BY <1>1 DEF Protocols
  <2>2. i \in 0 .. BitmapBits - 1 /\ i \in 0 .. PoolSize - 1
    BY <2>1, NumberAssumption DEF NatInv, TypeOK
  <2>3. w \in WanKey /\ Dynamic(wan_to_lan[w])
    BY <2>1, <2>2, PoolKey DEF NatInv, PortsHaveSessions, AnyProtocol
  <2>4. wan_to_lan[w].protocol = p /\ wan_to_lan[w].external_port = PortBase + i
    BY <2>3 DEF NatInv, TablesAgree, WanAgrees, Dynamic, WanKeyOf
  <2>5. w \notin ExpiredKeys
    BY <2>1, <2>2, <2>4 DEF Freed
  <2> QED BY <1>1, <2>3, <2>5 DEF Dynamic
<1>7. ForwardsPermanent'
  <2> SUFFICES ASSUME NEW f \in Forwards, f.protocol # "ICMP"
               PROVE  lan_to_wan'[FlowOf(f)] = f /\ wan_to_lan'[WanKeyOf(f)] = f
    BY DEF ForwardsPermanent
  <2>1. /\ lan_to_wan[FlowOf(f)] = f /\ wan_to_lan[WanKeyOf(f)] = f
        /\ FlowOf(f) \in Flow /\ WanKeyOf(f) \in WanKey
        /\ f.last_updated = 0 /\ f.protocol # "none"
    BY ForwardKey DEF NatInv, ForwardsPermanent, Protocols
  <2>2. WanKeyOf(f) \notin ExpiredKeys
    BY <1>2, <2>1
  <2>3. ASSUME NEW x \in ExpiredKeys, FlowOf(wan_to_lan[x]) = FlowOf(f)
        PROVE  FALSE
    <3>1. x \in WanKey /\ Session(wan_to_lan[x])
      BY <1>2, <2>1, <2>3 DEF FlowOf
    <3>2. lan_to_wan[FlowOf(wan_to_lan[x])] = wan_to_lan[x]
      BY <3>1 DEF NatInv, TablesAgree, WanAgrees
    <3> QED BY <1>2, <2>1, <2>3, <3>2
  <2> QED BY <1>1, <2>1, <2>2, <2>3
<1>8. Swept'
  <2> SUFFICES ASSUME NEW w \in WanKey, Dynamic(wan_to_lan'[w])
               PROVE  now - wan_to_lan'[w].last_updated
                        <= Timeout[wan_to_lan'[w].protocol]
    BY <1>1 DEF Swept, Dynamic
  <2>1. w \notin ExpiredKeys /\ wan_to_lan'[w] = wan_to_lan[w] /\ Dynamic(wan_to_lan[w])
    BY <1>1 DEF Dynamic
  <2>2. /\ wan_to_lan[w].last_updated \in Nat
        /\ Timeout[wan_to_lan[w].protocol] \in Nat /\ now \in Nat
    BY <2>1, TimeoutNat DEF Dynamic, NatInv, TypeOK, Entry
  <2> QED BY <2>1, <2>2 DEF Dynamic, ExpiredKeys, Expired
<1>9. ClocksOrdered'
  BY <1>1, <1>2 DEF NatInv, ClocksOrdered, TypeOK
<1>10. VoidsAlike'
  BY <1>1 DEF NatInv, VoidsAlike
<1>11. StaticsConfigured'
  BY <1>1 DEF NatInv, StaticsConfigured, Dynamic
<1> QED BY <1>3, <1>4, <1>5, <1>6, <1>7, <1>8, <1>9, <1>10, <1>11
        DEF NatInv, TablesAgree

LEMMA NextInv == NatInv /\ [Next]_vars => NatInv'
<1> SUFFICES ASSUME NatInv, [Next]_vars PROVE NatInv'
  OBVIOUS
<1>1. TypeOK' /\ now \in Nat
  BY NextType DEF NatInv, TypeOK
<1>2. ASSUME NEW k \in Senders, Outbound(k) PROVE NatInv'
  <2>1. k \in Flow
    BY DomainAssumption
  <2>2. CASE OutboundHit(k)
    BY <1>1, <2>1, <2>2, HitKeeps
  <2>3. CASE OutboundNew(k)
    BY <1>1, <2>1, <2>3, NewKeeps
  <2>4. CASE OutboundShort(k)
    BY <1>1, <2>4, QuietStep DEF OutboundShort, Receiving, tables, pools
  <2>5. CASE OutboundMisread(k)
    <3>1. CASE k.proto = "ICMP"
      <4>1. VoidEntry = [VoidEntry EXCEPT !.last_updated = VoidEntry.last_updated]
        BY DEF VoidEntry
      <4>2. /\ Update(k, VoidEntry) /\ lan_to_wan[k] = NoEntry
            /\ UNCHANGED <<now, used, last_cleanup>>
        BY <2>5, <3>1 DEF OutboundMisread, Receiving, pools
      <4> QED BY <1>1, <2>1, <4>1, <4>2, VoidIsEntry, UpdateVoidKeeps
    <3>2. CASE k.proto # "ICMP"
      BY <1>1, <2>5, <3>2, QuietStep DEF OutboundMisread, Receiving, tables, pools
    <3> QED BY <3>1, <3>2
  <2> QED BY <1>2, <2>2, <2>3, <2>4, <2>5 DEF Outbound
<1>3. ASSUME NEW p \in Protocols, NEW n \in ExternalPorts, Inbound(p, n)
      PROVE  NatInv'
  <2>1. UNCHANGED <<tables, pools>> /\ Receiving
    BY <1>3 DEF Inbound, InboundHit, InboundMiss, InboundMisread
  <2> QED BY <1>1, <2>1, QuietStep DEF Receiving, tables, pools
<1>4. CASE OtherFrame
  BY <1>1, <1>4, QuietStep DEF OtherFrame, Receiving, tables, pools
<1>5. CASE Sweep
  BY <1>1, <1>5, SweepKeeps
<1>6. CASE SkipSweep
  BY <1>1, <1>6, QuietStep DEF SkipSweep, Waits, tables, pools
<1>7. CASE Tick
  BY <1>1, <1>7, QuietStep DEF Tick, tables, pools
<1>8. CASE UNCHANGED vars
  BY <1>1, <1>8, QuietStep DEF vars, tables, pools
<1> QED BY <1>2, <1>3, <1>4, <1>5, <1>6, <1>7, <1>8 DEF Next, Receive

(***************************************************************************)
(* The inductive invariant holds in every reachable state.                 *)
(***************************************************************************)
THEOREM InvariantHolds == Spec => []NatInv
  BY InitInv, NextInv, PTL DEF Spec

(***************************************************************************)
(* The two session tables always describe the same sessions.               *)
(***************************************************************************)
THEOREM TablesAlwaysAgree == Spec => []TablesAgree
<1>1. NatInv => TablesAgree
  BY DEF NatInv
<1> QED BY <1>1, InvariantHolds, PTL

(***************************************************************************)
(* A session that the allocator made holds its port.                       *)
(***************************************************************************)
THEOREM PortsHeld == Spec => []SessionsHoldPorts
<1>1. NatInv => SessionsHoldPorts
  BY DEF NatInv
<1> QED BY <1>1, InvariantHolds, PTL

(***************************************************************************)
(* Within the pool no TCP or ICMP port is held without a session.          *)
(***************************************************************************)
THEOREM PortsNotLost == Spec => []PortsHaveSessions
<1>1. NatInv => PortsHaveSessions
  BY DEF NatInv
<1> QED BY <1>1, InvariantHolds, PTL

(***************************************************************************)
(* No two flows ever have the same external port of one protocol.          *)
(***************************************************************************)
THEOREM NoSharedPort ==
  Spec => [](\A k, x \in Flow :
               Session(lan_to_wan[k]) /\ Session(lan_to_wan[x])
                 /\ WanKeyOf(lan_to_wan[k]) = WanKeyOf(lan_to_wan[x]) => k = x)
<1>1. NatInv => \A k, x \in Flow :
                  Session(lan_to_wan[k]) /\ Session(lan_to_wan[x])
                    /\ WanKeyOf(lan_to_wan[k]) = WanKeyOf(lan_to_wan[x]) => k = x
  <2> SUFFICES ASSUME NatInv, NEW k \in Flow, NEW x \in Flow,
                      Session(lan_to_wan[k]), Session(lan_to_wan[x]),
                      WanKeyOf(lan_to_wan[k]) = WanKeyOf(lan_to_wan[x])
               PROVE  k = x
    OBVIOUS
  <2>1. FlowOf(lan_to_wan[k]) = k /\ FlowOf(lan_to_wan[x]) = x
    BY DEF NatInv, TablesAgree, LanAgrees
  <2>2. lan_to_wan[k] = lan_to_wan[x]
    BY DEF NatInv, TablesAgree, LanAgrees
  <2> QED BY <2>1, <2>2
<1> QED BY <1>1, InvariantHolds, PTL

(***************************************************************************)
(* TCP and UDP forwards stay in both tables.                               *)
(***************************************************************************)
THEOREM ForwardsStay == Spec => []ForwardsPermanent
<1>1. NatInv => ForwardsPermanent
  BY DEF NatInv
<1> QED BY <1>1, InvariantHolds, PTL

(***************************************************************************)
(* Whenever the router waits for a frame again, no session is older than   *)
(* its limit by a cleanup period.                                          *)
(***************************************************************************)
THEOREM StaleIsBounded == Spec => StaleBound
<1>1. ASSUME NatInv, NatInv', [Next]_vars, loop' = "recv", loop = "top",
             NEW w \in WanKey, Dynamic(wan_to_lan'[w])
      PROVE  now - wan_to_lan'[w].last_updated
               < Timeout[wan_to_lan'[w].protocol] + CleanupPeriod
  <2>1. now = now' /\ now \in Nat /\ last_cleanup \in Nat /\ CleanupPeriod \in Nat \ {0}
    <3>1. now = now'
      BY <1>1 DEF Next, Receive, Outbound, Inbound, OutboundHit, OutboundNew,
         OutboundShort, OutboundMisread, InboundHit, InboundMiss, InboundMisread,
         OtherFrame, Receiving, Sweep, SkipSweep, Waits, Tick, vars
    <3> QED BY <3>1, <1>1, NumberAssumption DEF NatInv, TypeOK
  <2>2. /\ wan_to_lan'[w].last_updated \in Nat
        /\ Timeout[wan_to_lan'[w].protocol] \in Nat
    BY <1>1, TimeoutNat DEF Dynamic, Session, NatInv, TypeOK, Entry
  <2>3. last_cleanup' - wan_to_lan'[w].last_updated <= Timeout[wan_to_lan'[w].protocol]
    BY <1>1 DEF NatInv, Swept
  <2>4. Sweep \/ SkipSweep
    BY <1>1 DEF Next, Receive, Outbound, Inbound, OutboundHit, OutboundNew,
       OutboundShort, OutboundMisread, InboundHit, InboundMiss, InboundMisread,
       OtherFrame, Receiving, Tick, vars
  <2>5. CASE Sweep
    BY <2>1, <2>2, <2>3, <2>5 DEF Sweep
  <2>6. CASE SkipSweep
    <3> DEFINE d == wan_to_lan'[w].last_updated
               t == Timeout[wan_to_lan'[w].protocol]
    <3>1. d \in Nat /\ t \in Nat
      BY <2>2
    <3>2. ~(now - last_cleanup >= CleanupPeriod) /\ last_cleanup - d <= t
      BY <2>3, <2>6 DEF SkipSweep, Due
    <3> HIDE DEF d, t
    <3>3. now - d < t + CleanupPeriod
      <4>1. \A n, c, x, y, p \in Nat : ~(n - c >= p) /\ c - x <= y => n - x < y + p
        OBVIOUS
      <4>2. now \in Nat /\ last_cleanup \in Nat /\ CleanupPeriod \in Nat
        BY <2>1
      <4> QED BY <3>1, <3>2, <4>1, <4>2
    <3> QED BY <3>3 DEF d, t
  <2> QED BY <2>4, <2>5, <2>6
<1>2. NatInv /\ NatInv' /\ [Next]_vars =>
        [loop' = "recv" /\ loop = "top" =>
           \A w \in WanKey : Dynamic(wan_to_lan'[w]) =>
             now - wan_to_lan'[w].last_updated
               < Timeout[wan_to_lan'[w].protocol] + CleanupPeriod]_vars
  BY <1>1
<1> QED BY <1>2, InvariantHolds, PTL DEF Spec, StaleBound

(***************************************************************************)
(* An external port never passes from one flow to another in one step.     *)
(***************************************************************************)
THEOREM PortsKeepOwners == Spec => PortKeepsOwner
<1>1. ASSUME NatInv, [Next]_vars,
             NEW w \in WanKey, wan_to_lan[w] # NoEntry, wan_to_lan'[w] # NoEntry
      PROVE  FlowOf(wan_to_lan'[w]) = FlowOf(wan_to_lan[w])
  <2>1. CASE UNCHANGED wan_to_lan
    BY <1>1, <2>1
  <2>2. CASE Sweep
    BY <1>1, <2>2 DEF Sweep, CleanupExpired
  <2>3. ASSUME NEW k \in Flow, NEW e \in Entry, Update(k, e),
               wan_to_lan[WanKeyOf(e)] = NoEntry
                 \/ FlowOf(wan_to_lan[WanKeyOf(e)]) = FlowOf(e)
        PROVE  FlowOf(wan_to_lan'[w]) = FlowOf(wan_to_lan[w])
    <3>1. FlowOf(Stamped(e)) = FlowOf(e)
      BY <1>1, StampFacts DEF NatInv, TypeOK
    <3>2. wan_to_lan'[w] = IF w = WanKeyOf(e) THEN Stamped(e) ELSE wan_to_lan[w]
      BY <1>1, <2>3 DEF Update, NatInv, TypeOK
    <3> QED BY <1>1, <2>3, <3>1, <3>2
  <2>4. ASSUME NEW k \in Flow, NEW e \in Entry, Update(k, e), e.protocol = "none",
               FlowOf(e) = FlowOf(VoidEntry), WanKeyOf(e) = WanKeyOf(VoidEntry)
        PROVE  FlowOf(wan_to_lan'[w]) = FlowOf(wan_to_lan[w])
    <3>1. WanKeyOf(VoidEntry) \in WanKey
      BY DEF VoidEntry, WanKeyOf, WanKey, AnyProtocol
    <3>2. wan_to_lan[WanKeyOf(e)] = NoEntry \/ FlowOf(wan_to_lan[WanKeyOf(e)]) = FlowOf(e)
      <4>1. WanKeyOf(VoidEntry)[1] = "none"
        BY DEF VoidEntry, WanKeyOf
      <4>2. ASSUME Session(wan_to_lan[WanKeyOf(e)]) PROVE FALSE
        BY <1>1, <2>4, <3>1, <4>1, <4>2
           DEF NatInv, TablesAgree, WanAgrees, Session, WanKeyOf
      <4> QED BY <1>1, <2>4, <3>1, <4>2 DEF NatInv, VoidsAlike, Session
    <3> QED BY <2>3, <2>4, <3>2
  <2>5. ASSUME NEW k \in Senders, OutboundHit(k), k.proto = "ICMP"
        PROVE  FlowOf(wan_to_lan'[w]) = FlowOf(wan_to_lan[w])
    <3>1. k \in Flow /\ lan_to_wan[k] \in Entry /\ Update(k, lan_to_wan[k])
      BY <1>1, <2>5, DomainAssumption DEF OutboundHit, NatInv, TypeOK
    <3>2. CASE lan_to_wan[k].protocol = "none"
      <4>1. FlowOf(lan_to_wan[k]) = FlowOf(VoidEntry)
              /\ WanKeyOf(lan_to_wan[k]) = WanKeyOf(VoidEntry)
        BY <1>1, <2>5, <3>1, <3>2
           DEF OutboundHit, NatInv, VoidsAlike, FlowOf, WanKeyOf, VoidEntry
      <4> QED BY <2>4, <3>1, <3>2, <4>1
    <3>3. CASE lan_to_wan[k].protocol # "none"
      BY <1>1, <2>3, <2>5, <3>1, <3>3
         DEF OutboundHit, NatInv, TablesAgree, LanAgrees, Session
    <3> QED BY <3>2, <3>3
  <2>6. ASSUME NEW k \in Senders, OutboundNew(k), ~UNCHANGED wan_to_lan
        PROVE  FlowOf(wan_to_lan'[w]) = FlowOf(wan_to_lan[w])
    <3>1. PICK i \in 0 .. Scan(k.proto) - 1 :
            i \notin used[k.proto] /\ i < BitmapBits /\ Update(k, NewSession(k, i))
      BY <2>6, ScanNat, NumberAssumption DEF OutboundNew, FirstFree, tables
    <3>2. k \in Flow /\ k.proto \in Protocols /\ i \in 0 .. BitmapBits - 1
      BY <3>1, ScanNat, DomainAssumption, NumberAssumption DEF Flow
    <3>3. NewSession(k, i) \in Entry
            /\ wan_to_lan[WanKeyOf(NewSession(k, i))] = NoEntry
      BY <1>1, <3>1, <3>2, NewSessionFacts, ClearBitFree
    <3> QED BY <2>3, <3>1, <3>2, <3>3
  <2>7. ASSUME NEW k \in Senders, OutboundMisread(k), k.proto = "ICMP"
        PROVE  FlowOf(wan_to_lan'[w]) = FlowOf(wan_to_lan[w])
    BY <2>4, <2>7, VoidIsEntry, DomainAssumption DEF OutboundMisread, VoidEntry
  <2> QED BY <1>1, <2>1, <2>2, <2>5, <2>6, <2>7
          DEF Next, Receive, Outbound, Inbound, OutboundHit, OutboundNew, OutboundShort,
              OutboundMisread, InboundHit, InboundMiss, InboundMisread, OtherFrame,
              SkipSweep, Tick, vars, tables
<1>2. NatInv /\ [Next]_vars =>
        [\A w \in WanKey : wan_to_lan[w] # NoEntry /\ wan_to_lan'[w] # NoEntry =>
           FlowOf(wan_to_lan'[w]) = FlowOf(wan_to_lan[w])]_vars
  BY <1>1
<1> QED BY <1>2, InvariantHolds, PTL DEF Spec, PortKeepsOwner

(***************************************************************************)
(* The last sweep has left nothing behind that had expired by then.        *)
(***************************************************************************)
THEOREM SweptClean == Spec => []Swept
<1>1. NatInv => Swept
  BY DEF NatInv
<1> QED BY <1>1, InvariantHolds, PTL

-----------------------------------------------------------------------------
\* The entry of an ICMP flow that has just sent has the time of its packet.
SenderStamped ==
  \A k \in Flow :
    k.proto = "ICMP" /\ wire.kind = "out" /\ wire.flow = k /\ lan_to_wan[k] # NoEntry
      => lan_to_wan[k].last_updated = wire.at

LEMMA OutboundStamps ==
  ASSUME NatInv, NEW x \in Flow, Outbound(x)
  PROVE  SenderStamped'
<1> SUFFICES ASSUME NEW k \in Flow, k.proto = "ICMP", wire'.kind = "out",
                    wire'.flow = k, lan_to_wan'[k] # NoEntry
             PROVE  lan_to_wan'[k].last_updated = wire'.at
  BY DEF SenderStamped
<1>1. k = x /\ wire'.at = now /\ now \in Nat
  <2>1. \E kind, n : Records(kind, x, n)
    BY DEF Outbound, OutboundHit, OutboundNew, OutboundShort, OutboundMisread
  <2> QED BY <2>1 DEF Records, NatInv, TypeOK
<1>2. ASSUME NEW e \in Entry, Update(k, e)
      PROVE  lan_to_wan'[k].last_updated = now
  <2>1. lan_to_wan'[k] = Stamped(e)
    BY <1>2 DEF Update, NatInv, TypeOK
  <2> QED BY <1>1, <2>1, StampFacts
<1>3. CASE OutboundHit(k)
  <2>1. lan_to_wan[k] \in Entry /\ Update(k, lan_to_wan[k])
    BY <1>3 DEF OutboundHit, NatInv, TypeOK
  <2> QED BY <1>1, <1>2, <2>1
<1>4. CASE OutboundNew(k)
  <2>1. PICK i \in 0 .. Scan(k.proto) - 1 :
          IF k.proto = "UDP" \/ i >= BitmapBits
            THEN UNCHANGED tables ELSE Update(k, NewSession(k, i))
    BY <1>4 DEF OutboundNew
  <2>2. Update(k, NewSession(k, i))
    BY <1>4, <2>1 DEF OutboundNew, tables
  <2>3. NewSession(k, i) \in Entry
    BY ScanNat, NewSessionFacts DEF Flow
  <2> QED BY <1>1, <1>2, <2>2, <2>3
<1>5. CASE OutboundMisread(k)
  BY <1>1, <1>2, <1>5, VoidIsEntry DEF OutboundMisread
<1>6. CASE OutboundShort(k)
  BY <1>6 DEF OutboundShort, Records
<1> QED BY <1>1, <1>3, <1>4, <1>5, <1>6 DEF Outbound

LEMMA StampedHolds == Spec => []SenderStamped
<1>1. Init => SenderStamped
  BY DEF Init, SenderStamped, Idle
<1>2. NatInv /\ SenderStamped /\ [Next]_vars => SenderStamped'
  <2> SUFFICES ASSUME NatInv, SenderStamped, [Next]_vars PROVE SenderStamped'
    OBVIOUS
  <2>1. ASSUME NEW x \in Senders, Outbound(x) PROVE SenderStamped'
    BY <2>1, OutboundStamps, DomainAssumption
  <2>2. ASSUME NEW p \in Protocols, NEW n \in ExternalPorts, Inbound(p, n)
        PROVE  SenderStamped'
    <3>1. \E k, m : Records("in", k, m) \/ Records("local", k, m)
      BY <2>2 DEF Inbound, InboundHit, InboundMiss, InboundMisread
    <3>2. wire'.kind # "out"
      BY <3>1 DEF Records
    <3> QED BY <3>2 DEF SenderStamped
  <2>3. CASE OtherFrame
    BY <2>3 DEF OtherFrame, Idle, SenderStamped
  <2>4. CASE Sweep
    BY <2>4 DEF Sweep, Waits, CleanupExpired, SenderStamped
  <2>5. CASE SkipSweep \/ Tick \/ UNCHANGED vars
    BY <2>5 DEF SkipSweep, Waits, Tick, vars, tables, SenderStamped
  <2> QED BY <2>1, <2>2, <2>3, <2>4, <2>5 DEF Next, Receive
<1> QED BY <1>1, <1>2, InvariantHolds, PTL DEF Spec

(***************************************************************************)
(* An ICMP flow that sends keeps its session: what the sweep erases has    *)
(* not carried the latest packet within its limit.                         *)
(***************************************************************************)
THEOREM IcmpSendersKept == Spec => IcmpSenderKept
<1>1. ASSUME NatInv, SenderStamped, [Next]_vars,
             NEW k \in Flow, k.proto = "ICMP", JustSent(k), lan_to_wan[k] # NoEntry,
             lan_to_wan'[k] = NoEntry
      PROVE  FALSE
  <2>1. lan_to_wan[k].last_updated = wire.at
    BY <1>1 DEF SenderStamped, JustSent
  <2>2. CASE Sweep
    <3>1. PICK w \in ExpiredKeys : FlowOf(wan_to_lan[w]) = k
      BY <1>1, <2>2 DEF Sweep, CleanupExpired
    <3>2. w \in WanKey /\ wan_to_lan[w] # NoEntry /\ wan_to_lan[w].protocol = "ICMP"
      BY <1>1, <3>1 DEF ExpiredKeys, Expired, FlowOf
    <3>3. lan_to_wan[k] = wan_to_lan[w]
      BY <1>1, <3>1, <3>2 DEF NatInv, TablesAgree, WanAgrees, Session
    <3>4. now - wire.at > Timeout["ICMP"]
      BY <2>1, <3>1, <3>2, <3>3 DEF ExpiredKeys, Expired
    <3>5. /\ now \in Nat /\ wire.at \in Nat /\ Timeout["ICMP"] \in Nat
          /\ now - wire.at <= Timeout["ICMP"]
      BY <1>1, TimeoutNat DEF NatInv, TypeOK, Wire, JustSent, AnyProtocol, Protocols
    <3> QED BY <3>4, <3>5
  <2>3. CASE \E x \in Senders : Outbound(x)
    <3>1. PICK x \in Senders : Outbound(x)
      BY <2>3
    <3>2. x \in Flow /\ now \in Nat
      BY <1>1, DomainAssumption DEF NatInv, TypeOK
    <3>3. UNCHANGED lan_to_wan \/ \E e \in Entry : Update(x, e)
      <4>1. CASE OutboundHit(x)
        BY <1>1, <3>2, <4>1 DEF OutboundHit, tables, NatInv, TypeOK
      <4>2. CASE OutboundNew(x)
        BY <3>2, <4>2, ScanNat, NewSessionFacts DEF OutboundNew, tables, Flow
      <4>3. CASE OutboundShort(x) \/ OutboundMisread(x)
        BY <4>3, VoidIsEntry DEF OutboundShort, OutboundMisread, tables
      <4> QED BY <3>1, <4>1, <4>2, <4>3 DEF Outbound
    <3>4. ASSUME NEW e \in Entry, Update(x, e) PROVE FALSE
      <4>1. Stamped(e) \in Entry
        BY <3>2, StampFacts
      <4> QED BY <1>1, <3>4, <4>1, DomainAssumption DEF Update, NatInv, TypeOK
    <3> QED BY <1>1, <3>3, <3>4
  <2> QED BY <1>1, <2>2, <2>3
          DEF Next, Receive, Inbound, InboundHit, InboundMiss, InboundMisread,
              OtherFrame, SkipSweep, Tick, vars, tables
<1>2. NatInv /\ SenderStamped /\ [Next]_vars =>
        [\A k \in Flow : k.proto = "ICMP" /\ JustSent(k) /\ lan_to_wan[k] # NoEntry =>
           lan_to_wan'[k] # NoEntry]_vars
  BY <1>1
<1> QED BY <1>2, InvariantHolds, StampedHolds, PTL DEF Spec, IcmpSenderKept
=============================================================================
