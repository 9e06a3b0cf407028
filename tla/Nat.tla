-------------------------------- MODULE Nat --------------------------------
(***************************************************************************)
(* The address translator of the router (include/nat.cpp): the two session *)
(* tables, the external port bitmaps, the handlers of outbound and inbound *)
(* packets, and the sweep the main loop (src/main.cpp) makes at most once  *)
(* every CleanupPeriod seconds before it blocks for the next frame.        *)
(*                                                                         *)
(* The handlers run one at a time on one thread; what interleaves with     *)
(* them is the clock, the order in which LAN hosts and WAN peers send, and *)
(* the sweep.  One action is one pass through the body of the main loop.   *)
(***************************************************************************)
EXTENDS Integers

CONSTANTS
  Hosts,          \* addresses of the LAN
  NoIp,           \* the address 0.0.0.0
  IntPorts,       \* ports (ICMP: identifiers) the LAN hosts use
  Senders,        \* flows of the LAN that send packets to the WAN
  Forwards,       \* the port_forward entries of config.json
  PortBase,       \* 10000, the first port of the pool
  PoolSize,       \* 20000, the ports of the TCP and the UDP pool
  BitmapBits,     \* 20008, the bits of a bitmap (2501 bytes)
  IcmpScan,       \* 40000, the indexes allocate_icmp_port goes through
  FirstIdx,       \* 10000, where the first scan starts
  TcpTimeout, UdpTimeout, IcmpTimeout, CleanupPeriod,
  MaxTime,        \* bound on the clock
  NoEntry,        \* "no such key" in a table
  MissTest        \* what memcmp may say of a miss: TRUE, it is void_entry

Protocols == {"TCP", "UDP", "ICMP"}

AnyProtocol == Protocols \cup {"none"}

\* make_nat_key packs protocol, address and port into disjoint bits.
Flow == [proto : Protocols, ip : Hosts, port : IntPorts]

Entry == [ip : Hosts \cup {NoIp}, internal_port : IntPorts \cup {0},
          external_port : Nat, protocol : AnyProtocol, last_updated : Nat]

\* NAT_TABLE_ENTRY{0, 0, 0, 0, 0}, what a lookup that misses returns.
VoidEntry == [ip |-> NoIp, internal_port |-> 0, external_port |-> 0,
              protocol |-> "none", last_updated |-> 0]

FlowOf(e) == [proto |-> e.protocol, ip |-> e.ip, port |-> e.internal_port]

WanKeyOf(e) == <<e.protocol, e.external_port>>

ExternalPorts == {PortBase + i : i \in 0 .. BitmapBits - 1}
                   \cup {f.external_port : f \in Forwards}

WanKey == AnyProtocol \X (ExternalPorts \cup {0})

\* The default limit of cleanup_expired_nat_entries is that of "none".
Timeout == [p \in AnyProtocol |->
              CASE p = "TCP" -> TcpTimeout
                [] p = "UDP" -> UdpTimeout
                [] p = "ICMP" -> IcmpTimeout
                [] p = "none" -> 1000000]

\* How many indexes the allocator of a protocol goes through.
Scan(p) == IF p = "ICMP" THEN IcmpScan ELSE PoolSize

ASSUME NumberAssumption ==
  /\ {PortBase, PoolSize, BitmapBits, IcmpScan} \subseteq Nat \ {0}
  /\ PoolSize <= BitmapBits /\ BitmapBits < IcmpScan
  /\ FirstIdx \in 0 .. PoolSize - 1
  /\ {TcpTimeout, UdpTimeout, IcmpTimeout, MaxTime} \subseteq Nat
  /\ CleanupPeriod \in Nat \ {0}
  /\ IntPorts \subseteq Nat

ASSUME DomainAssumption ==
  /\ NoIp \notin Hosts
  /\ NoEntry \notin Entry
  /\ Senders \subseteq Flow
  /\ MissTest \subseteq BOOLEAN /\ MissTest # {}

(***************************************************************************)
(* What load_config relies on without checking it: a forwarded port lies   *)
(* outside the pool, and no two forwards share an external port or an      *)
(* internal address and port.  The ports of config.json do.                *)
(***************************************************************************)
ASSUME ForwardAssumption ==
  /\ Forwards \subseteq Entry
  /\ \A f \in Forwards : /\ FlowOf(f) \in Flow
                         /\ f.last_updated = 0
                         /\ f.external_port # 0
                         /\ f.external_port - PortBase \notin 0 .. BitmapBits - 1
  /\ \A f, g \in Forwards : FlowOf(f) = FlowOf(g) => f = g
  /\ \A f, g \in Forwards : WanKeyOf(f) = WanKeyOf(g) => f = g

VARIABLES
  lan_to_wan,    \* lan_to_wan_table
  wan_to_lan,    \* wan_to_lan_table
  used,          \* the is_..._port_allocated bitmaps, as sets of indexes
  last,          \* the last_..._port_num
  now,           \* time(NULL); 0 is the mark of a configured forward
  last_cleanup,  \* last_cleanup_time of the main loop
  loop,          \* where the main loop is: before the sweep, or in recvfrom
  overrun,       \* a bitmap was indexed beyond its last bit
  wire           \* history: what the last frame became

tables == <<lan_to_wan, wan_to_lan>>
pools == <<used, last, overrun>>
vars == <<tables, pools, now, last_cleanup, loop, wire>>

Wire == [kind : {"idle", "out", "private", "in", "local"},
         flow : [proto : AnyProtocol, ip : Hosts \cup {NoIp},
                 port : IntPorts \cup {0}],
         port : Nat, at : Nat]

Idle == [kind |-> "idle", flow |-> FlowOf(VoidEntry), port |-> 0, at |-> 0]

TypeOK ==
  /\ lan_to_wan \in [Flow -> Entry \cup {NoEntry}]
  /\ wan_to_lan \in [WanKey -> Entry \cup {NoEntry}]
  /\ used \in [Protocols -> SUBSET (0 .. BitmapBits - 1)]
  /\ last \in [Protocols -> Nat]
  /\ now \in Nat \ {0} /\ last_cleanup \in Nat
  /\ loop \in {"top", "recv"}
  /\ overrun \in BOOLEAN
  /\ wire \in Wire

-----------------------------------------------------------------------------
(***************************************************************************)
(* Port allocation: the first index from last on, wrapping around, whose   *)
(* bit is clear.  Bits at BitmapBits and beyond belong to other members of *)
(* router_info; a scan that gets there is recorded in overrun and what     *)
(* follows is not modelled.                                                *)
(***************************************************************************)
Probe(p, d) == (last[p] + d) % Scan(p)

FirstFree(p, i) ==
  \E d \in 0 .. Scan(p) - 1 :
     /\ i = Probe(p, d)
     /\ i \notin used[p]
     /\ \A c \in 0 .. d - 1 : Probe(p, c) \in used[p]

Shortage(p) == 0 .. Scan(p) - 1 \subseteq used[p]

\* Faulty: the port is handed out and its bit left clear.
TakeUnmarked(p, i) == /\ last' = [last EXCEPT ![p] = i]
                      /\ UNCHANGED <<used, overrun>>

\* Faulty: the next scan is to start one index earlier.
TakeBefore(p, i) ==
  /\ last' = [last EXCEPT ![p] = i - 1]
  /\ used' = [used EXCEPT ![p] = @ \cup {i}]
  /\ UNCHANGED overrun

Take(p, i) ==
  /\ last' = [last EXCEPT ![p] = i]
  /\ IF i < BitmapBits
       THEN /\ used' = [used EXCEPT ![p] = @ \cup {i}]
            /\ UNCHANGED overrun
       ELSE overrun' = TRUE /\ UNCHANGED used

-----------------------------------------------------------------------------
(***************************************************************************)
(* The tables.                                                             *)
(***************************************************************************)
Stamped(e) == [e EXCEPT !.last_updated = now]

\* Faulty: only the table of the outbound direction learns the session.
UpdateOneSided(k, e) ==
  /\ lan_to_wan' = [lan_to_wan EXCEPT ![k] = Stamped(e)]
  /\ UNCHANGED wan_to_lan

\* update_nat_table: both tables get the entry, stamped with the time.
Update(k, e) ==
  /\ lan_to_wan' = [lan_to_wan EXCEPT ![k] = Stamped(e)]
  /\ wan_to_lan' = [wan_to_lan EXCEPT ![WanKeyOf(e)] = Stamped(e)]

\* Faulty: configured forwards age like sessions.
ExpiredWithForwards(e) ==
  e # NoEntry /\ now - e.last_updated > Timeout[e.protocol]

\* Faulty: the default limit applies to every protocol.
ExpiredByDefault(e) ==
  e # NoEntry /\ e.last_updated # 0 /\ now - e.last_updated > Timeout["none"]

Expired(e) ==
  e # NoEntry /\ e.last_updated # 0 /\ now - e.last_updated > Timeout[e.protocol]

ExpiredKeys == {w \in WanKey : Expired(wan_to_lan[w])}

\* Faulty: the sweep gives no port back.
FreedKept(p) == {}

\* Faulty: an expired session clears its index in every bitmap.
FreedEverywhere(p) == {i \in 0 .. PoolSize - 1 :
                         \E w \in ExpiredKeys :
                            wan_to_lan[w].external_port = PortBase + i}

\* Indexes the sweep clears in the bitmap of p: at most PoolSize - 1.
Freed(p) == {i \in 0 .. PoolSize - 1 :
               \E w \in ExpiredKeys :
                  /\ wan_to_lan[w].protocol = p
                  /\ wan_to_lan[w].external_port = PortBase + i}

\* Faulty: the internal key of an expired session is left behind.
CleanupOneSided ==
  /\ wan_to_lan' = [w \in WanKey |->
                      IF w \in ExpiredKeys THEN NoEntry ELSE wan_to_lan[w]]
  /\ used' = [p \in Protocols |-> used[p] \ Freed(p)]
  /\ UNCHANGED <<lan_to_wan, last, overrun>>

\* cleanup_expired_nat_entries: it walks wan_to_lan_table, and erases the
\* internal key of what has expired along with the external one.
CleanupExpired ==
  /\ wan_to_lan' = [w \in WanKey |->
                      IF w \in ExpiredKeys THEN NoEntry ELSE wan_to_lan[w]]
  /\ lan_to_wan' = [k \in Flow |->
                      IF \E w \in ExpiredKeys : FlowOf(wan_to_lan[w]) = k
                        THEN NoEntry ELSE lan_to_wan[k]]
  /\ used' = [p \in Protocols |-> used[p] \ Freed(p)]
  /\ UNCHANGED <<last, overrun>>

-----------------------------------------------------------------------------
(***************************************************************************)
(* nat_outbound_handler on a packet of flow k.                             *)
(***************************************************************************)
Receiving == loop = "recv" /\ loop' = "top" /\ UNCHANGED <<now, last_cleanup>>

Records(kind, flow, port) ==
  wire' = [kind |-> kind, flow |-> flow, port |-> port, at |-> now]

\* Faulty: every branch stamps a copy of the entry.
OutboundHitCopied(k) ==
  /\ Receiving
  /\ lan_to_wan[k] # NoEntry
  /\ UNCHANGED <<tables, pools>>
  /\ Records("out", k, lan_to_wan[k].external_port)

\* A session of this flow is found.  Only the ICMP branch calls
\* update_nat_table; the other two stamp a copy of the entry.
OutboundHit(k) ==
  /\ Receiving
  /\ lan_to_wan[k] # NoEntry
  /\ IF k.proto = "ICMP" THEN Update(k, lan_to_wan[k]) ELSE UNCHANGED tables
  /\ UNCHANGED pools
  /\ Records("out", k, lan_to_wan[k].external_port)

NewSession(k, i) ==
  [ip |-> k.ip, internal_port |-> k.port, external_port |-> PortBase + i,
   protocol |-> k.proto, last_updated |-> 0]

\* The flow has no session and gets a port.  The UDP branch does not call
\* update_nat_table.
OutboundNew(k) ==
  /\ Receiving
  /\ lan_to_wan[k] = NoEntry /\ TRUE \in MissTest
  /\ \E i \in 0 .. Scan(k.proto) - 1 :
        /\ FirstFree(k.proto, i)
        /\ Take(k.proto, i)
        /\ IF k.proto = "UDP" \/ i >= BitmapBits
             THEN UNCHANGED tables ELSE Update(k, NewSession(k, i))
        /\ Records("out", k, PortBase + i)

\* No port is left: the handler returns and the packet goes on as it came.
OutboundShort(k) ==
  /\ Receiving
  /\ lan_to_wan[k] = NoEntry /\ TRUE \in MissTest
  /\ Shortage(k.proto)
  /\ UNCHANGED <<tables, pools>>
  /\ Records("private", k, k.port)

\* memcmp also compares the 7 padding bytes of the entry, which the lookup
\* leaves unset: a miss may be taken for a session on port 0.
OutboundMisread(k) ==
  /\ Receiving
  /\ lan_to_wan[k] = NoEntry /\ FALSE \in MissTest
  /\ IF k.proto = "ICMP" THEN Update(k, VoidEntry) ELSE UNCHANGED tables
  /\ UNCHANGED pools
  /\ Records("out", k, 0)

-----------------------------------------------------------------------------
(***************************************************************************)
(* nat_inbound_handler on a packet to port n of the WAN address.  A hit    *)
(* stamps a copy of the entry, so no branch changes a table.               *)
(***************************************************************************)
InboundHit(p, n) ==
  /\ Receiving
  /\ wan_to_lan[<<p, n>>] # NoEntry
  /\ UNCHANGED <<tables, pools>>
  /\ Records("in", FlowOf(wan_to_lan[<<p, n>>]), n)

\* Not in the table: the packet is the router's own.
InboundMiss(p, n) ==
  /\ Receiving
  /\ wan_to_lan[<<p, n>>] = NoEntry /\ TRUE \in MissTest
  /\ UNCHANGED <<tables, pools>>
  /\ Records("local", FlowOf(VoidEntry), n)

InboundMisread(p, n) ==
  /\ Receiving
  /\ wan_to_lan[<<p, n>>] = NoEntry /\ FALSE \in MissTest
  /\ UNCHANGED <<tables, pools>>
  /\ Records("in", FlowOf(VoidEntry), n)

\* A frame the translator does not see: ARP, DHCP, dropped, local.
OtherFrame ==
  /\ Receiving
  /\ UNCHANGED <<tables, pools>>
  /\ wire' = Idle

-----------------------------------------------------------------------------
(***************************************************************************)
(* The main loop.                                                          *)
(***************************************************************************)
\* Faulty: the sweep is made a second late.
DueLate == now - last_cleanup > CleanupPeriod

Due == now - last_cleanup >= CleanupPeriod

Waits == loop = "top" /\ loop' = "recv" /\ UNCHANGED <<now, wire>>

Sweep == Waits /\ Due /\ CleanupExpired /\ last_cleanup' = now

SkipSweep == Waits /\ ~Due /\ UNCHANGED <<tables, pools, last_cleanup>>

Tick == /\ now < MaxTime
        /\ now' = now + 1
        /\ UNCHANGED <<tables, pools, last_cleanup, loop, wire>>

Outbound(k) ==
  OutboundHit(k) \/ OutboundNew(k) \/ OutboundShort(k) \/ OutboundMisread(k)

Inbound(p, n) == InboundHit(p, n) \/ InboundMiss(p, n) \/ InboundMisread(p, n)

Receive == \/ \E k \in Senders : Outbound(k)
           \/ \E p \in Protocols, n \in ExternalPorts : Inbound(p, n)
           \/ OtherFrame

\* init_nat_table, then the port_forward loop of load_config.
Init ==
  /\ lan_to_wan = [k \in Flow |->
       IF \E f \in Forwards : FlowOf(f) = k
         THEN CHOOSE f \in Forwards : FlowOf(f) = k ELSE NoEntry]
  /\ wan_to_lan = [w \in WanKey |->
       IF \E f \in Forwards : WanKeyOf(f) = w
         THEN CHOOSE f \in Forwards : WanKeyOf(f) = w ELSE NoEntry]
  /\ used = [p \in Protocols |-> {}]
  /\ last = [p \in Protocols |-> FirstIdx]
  /\ now = 1 /\ last_cleanup = 1
  /\ loop = "top"
  /\ overrun = FALSE
  /\ wire = Idle

Next == ~overrun /\ (Receive \/ Sweep \/ SkipSweep \/ Tick)

Spec == Init /\ [][Next]_vars

(***************************************************************************)
(* Time passes, the loop runs, and some frame always arrives: recvfrom     *)
(* blocks without a timeout, so on a silent link nothing is ever swept.    *)
(***************************************************************************)
Fairness == WF_vars(Tick) /\ WF_vars(Sweep \/ SkipSweep) /\ WF_vars(Receive)

FairSpec == Spec /\ Fairness

-----------------------------------------------------------------------------
(***************************************************************************)
(* Safety.                                                                 *)
(***************************************************************************)
Session(e) == e # NoEntry /\ e.protocol # "none"

\* An entry that was made for a packet, not by the configuration.
Dynamic(e) == Session(e) /\ e.last_updated # 0

(***************************************************************************)
(* The two tables are one relation: every session is found under its own   *)
(* flow and under its own external port, and both hold the same entry.  So *)
(* no two flows ever share an external port, in spite of the sweep walking *)
(* one table and erasing from both, and of ports being reused.             *)
(***************************************************************************)
LanAgrees == \A k \in Flow : Session(lan_to_wan[k]) =>
               /\ FlowOf(lan_to_wan[k]) = k
               /\ WanKeyOf(lan_to_wan[k]) \in WanKey
               /\ wan_to_lan[WanKeyOf(lan_to_wan[k])] = lan_to_wan[k]

WanAgrees == \A w \in WanKey : Session(wan_to_lan[w]) =>
               /\ WanKeyOf(wan_to_lan[w]) = w
               /\ FlowOf(wan_to_lan[w]) \in Flow
               /\ lan_to_wan[FlowOf(wan_to_lan[w])] = wan_to_lan[w]

TablesAgree == LanAgrees /\ WanAgrees

(***************************************************************************)
(* A session holds the port it uses: its bit is set for as long as it is   *)
(* in the table, so the allocator cannot give the port to another flow.    *)
(***************************************************************************)
SessionsHoldPorts ==
  \A w \in WanKey : Dynamic(wan_to_lan[w]) =>
    \/ wan_to_lan[w].external_port - PortBase \in used[wan_to_lan[w].protocol]
    \/ \E f \in Forwards : WanKeyOf(f) = w

(***************************************************************************)
(* And no port is lost: a set bit of the TCP bitmap, and one of the ICMP   *)
(* bitmap within the pool, belongs to a session of the table.              *)
(***************************************************************************)
PortsHaveSessions ==
  \A p \in {"TCP", "ICMP"} : \A i \in used[p] :
    i < PoolSize => Dynamic(wan_to_lan[<<p, PortBase + i>>])

(***************************************************************************)
(* A configured TCP or UDP forward is in both tables for ever, as it was   *)
(* loaded, whatever the hosts send and however often the sweep runs.  An   *)
(* ICMP forward is not: see IcmpForwardsPermanent.                         *)
(***************************************************************************)
ForwardsPermanent ==
  \A f \in Forwards : f.protocol # "ICMP" =>
    lan_to_wan[FlowOf(f)] = f /\ wan_to_lan[WanKeyOf(f)] = f

(***************************************************************************)
(* What the last sweep left was not overdue when it ran.                   *)
(***************************************************************************)
Swept == \A w \in WanKey : Dynamic(wan_to_lan[w]) =>
           last_cleanup - wan_to_lan[w].last_updated
             <= Timeout[wan_to_lan[w].protocol]

\* No entry and no sweep is from the future.
ClocksOrdered ==
  /\ last_cleanup <= now
  /\ \A w \in WanKey : wan_to_lan[w] # NoEntry => wan_to_lan[w].last_updated <= now

\* The entries a misread miss leaves are alike and have no flow of their own.
VoidsAlike ==
  /\ \A k \in Flow : lan_to_wan[k] # NoEntry /\ lan_to_wan[k].protocol = "none" =>
       lan_to_wan[k] = [VoidEntry EXCEPT !.last_updated = lan_to_wan[k].last_updated]
  /\ \A w \in WanKey : wan_to_lan[w] # NoEntry /\ wan_to_lan[w].protocol = "none" =>
       /\ w = WanKeyOf(VoidEntry)
       /\ FlowOf(wan_to_lan[w]) = FlowOf(VoidEntry)

\* Only the configuration makes entries that do not age.
StaticsConfigured ==
  \A w \in WanKey : Session(wan_to_lan[w]) /\ ~Dynamic(wan_to_lan[w]) =>
    wan_to_lan[w] \in Forwards

(***************************************************************************)
(* The inductive invariant.  The tables agree only because no live session *)
(* is on a port the allocator takes for free; that needs the bits, and the *)
(* sweep's clearing of bits needs the agreement of the tables.             *)
(***************************************************************************)
NatInv ==
  /\ TypeOK
  /\ TablesAgree
  /\ SessionsHoldPorts
  /\ PortsHaveSessions
  /\ ForwardsPermanent
  /\ Swept
  /\ ClocksOrdered
  /\ VoidsAlike
  /\ StaticsConfigured

(***************************************************************************)
(* When the router goes back to wait for a frame, no session is older than *)
(* its limit by a whole cleanup period, whether that round swept or not.   *)
(***************************************************************************)
StaleBound ==
  [][loop' = "recv" /\ loop = "top" =>
       \A w \in WanKey : Dynamic(wan_to_lan'[w]) =>
         now - wan_to_lan'[w].last_updated
           < Timeout[wan_to_lan'[w].protocol] + CleanupPeriod]_vars

\* The latest packet left on a port the tables remember.  Port 0 is what a
\* misread miss puts in the packet.
Answerable == /\ wire.kind = "out" /\ wire.flow.proto # "UDP"
              /\ wire.port # 0 /\ ~overrun

\* What the answer to the latest packet will find.
AnswerEntry == wan_to_lan[<<wire.flow.proto, wire.port>>]

AnswerFinds == AnswerEntry # NoEntry /\ FlowOf(AnswerEntry) = wire.flow

(***************************************************************************)
(* From the moment a TCP or ICMP packet has left until the next frame is   *)
(* read, the answer to its port finds the flow it came from.  Only the     *)
(* sweep in between ends that, for a session that is past its limit as     *)
(* its stamp counts it; the answer then finds nobody, never another flow.  *)
(***************************************************************************)
OutboundReversible ==
  [][Answerable' =>
       \/ AnswerFinds'
       \/ /\ loop' = "recv" /\ AnswerEntry' = NoEntry
          /\ AnswerFinds =>
               /\ Dynamic(AnswerEntry)
               /\ now - AnswerEntry.last_updated > Timeout[wire.flow.proto]]_vars

(***************************************************************************)
(* An external port never passes straight from one flow to another: the    *)
(* next owner gets it only after the sweep has erased the previous one, so *)
(* no answer of an open session is ever delivered to another host.         *)
(***************************************************************************)
PortKeepsOwner ==
  [][\A w \in WanKey : wan_to_lan[w] # NoEntry /\ wan_to_lan'[w] # NoEntry =>
       FlowOf(wan_to_lan'[w]) = FlowOf(wan_to_lan[w])]_vars

\* The latest packet is one of flow k to the WAN, sent within the time limit.
JustSent(k) == wire.kind = "out" /\ wire.flow = k /\ now - wire.at <= Timeout[k.proto]

(***************************************************************************)
(* An ICMP flow that sends keeps its session: the sweep never erases one   *)
(* that carried the latest packet to the WAN within its limit.             *)
(***************************************************************************)
IcmpSenderKept ==
  [][\A k \in Flow : k.proto = "ICMP" /\ JustSent(k) /\ lan_to_wan[k] # NoEntry =>
       lan_to_wan'[k] # NoEntry]_vars

(***************************************************************************)
(* The TCP pool recovers: when it has run out, a port comes back within    *)
(* the time limit and one cleanup period.                                  *)
(***************************************************************************)
TcpPoolRecovers ==
  (Shortage("TCP") /\ now + TcpTimeout + CleanupPeriod <= MaxTime)
     ~> ~Shortage("TCP")

-----------------------------------------------------------------------------
(***************************************************************************)
(* What the comments say and the code does not do.                         *)
(***************************************************************************)
\* nat.cpp:304, "a port is already assigned -> refresh the time": a TCP flow
\* that sends keeps its session.
TcpSenderKept ==
  [][\A k \in Flow : k.proto = "TCP" /\ JustSent(k) /\ lan_to_wan[k] # NoEntry =>
       lan_to_wan'[k] # NoEntry]_vars

\* nat.cpp:341, "if a port is assigned, use it as it is": two packets of a
\* UDP flow, the second within the time limit, leave with the same port.
UdpPortKept ==
  [][(wire.kind = "out" /\ wire'.kind = "out" /\ wire.flow = wire'.flow
        /\ wire.flow.proto = "UDP" /\ wire'.at - wire.at <= UdpTimeout)
       => wire'.port = wire.port]_vars

\* nat.cpp:121, "the entries port forwarding has made" (are passed over by the
\* sweep): a forwarded port is its host's for good, ICMP included.
IcmpForwardsPermanent ==
  \A f \in Forwards : f.protocol = "ICMP" => wan_to_lan[WanKeyOf(f)] # NoEntry
=============================================================================
