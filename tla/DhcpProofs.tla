---------------------------- MODULE DhcpProofs ----------------------------
(***************************************************************************)
(* Proofs about Dhcp, for any hosts, range, reservations and lease time,   *)
(* and any number of frames and restarts.                                  *)
(*                                                                         *)
(* The leases of two hosts are told apart long before they are held.  A    *)
(* host is tied to a number from the moment the router grants it: by the   *)
(* acknowledgement on its way, by the lease it holds, by a renewal on its  *)
(* way.  A grant that is not a renewal needs a clear bit, every tie keeps  *)
(* the bit set, and a renewal is sent by a host that is tied already.      *)
(* A host that a restart found tied is in old until it is tied no more.    *)
(***************************************************************************)
EXTENDS Dhcp, TLAPS

Acknowledged(c, n) == \E m \in net : m.type = "ack" /\ m.to = c /\ m.num = n

Renews(c, n) == \E m \in net :
  m.type = "request" /\ m.renewal /\ m.from = c /\ m.num = n

Tied(c, n) == \/ Acknowledged(c, n)
              \/ Renews(c, n)
              \/ phase[c] \in {"bound", "renewing"} /\ addr[c] = n

Addressed == \A c \in Clients :
  phase[c] \in {"requesting", "bound", "renewing"} => addr[c] \in Nums

NothingAhead ==
  /\ \A n \in Nums : table[n].second <= now + LeaseTime
  /\ \A m \in net : m.type = "request" => m.at <= now

TiesMarked == \A c \in Clients \ old, n \in Nums :
  Tied(c, n) => table[n].first /\ arp[n] # NoMac

TiesUnique == \A c, d \in Clients \ old, n \in Nums :
  Tied(c, n) /\ Tied(d, n) => c = d

EndsCovered == \A c \in Clients \ old :
  /\ \A m \in net : m.type = "ack" /\ m.to = c
                      => table[m.num].second >= m.at + LeaseTime
  /\ phase[c] \in {"bound", "renewing"} => table[addr[c]].second >= until[c]

LeaseInv == /\ TypeOK /\ Addressed /\ NothingAhead
            /\ TiesMarked /\ TiesUnique /\ EndsCovered

-----------------------------------------------------------------------------
(***************************************************************************)
(* Frames of each kind have the fields of their kind.                      *)
(***************************************************************************)
LEMMA FrameTypes ==
  ASSUME TypeOK, NEW m \in net
  PROVE  /\ m.type = "discover" => m.from \in Clients
         /\ m.type = "offer" => m.to \in Clients /\ m.num \in Nums
         /\ m.type = "request" => /\ m.from \in Clients /\ m.num \in Nums
                                  /\ m.renewal \in BOOLEAN /\ m.at \in Nat
         /\ m.type \in {"ack", "nak"} =>
              m.to \in Clients /\ m.num \in Nums /\ m.at \in Nat
<1>1. m \in Discovers \/ m \in Offers \/ m \in Requests \/ m \in Answers
  BY DEF TypeOK
<1>2. CASE m \in Discovers
  BY <1>2 DEF Discovers
<1>3. CASE m \in Offers
  BY <1>3 DEF Offers
<1>4. CASE m \in Requests
  BY <1>4 DEF Requests
<1>5. CASE m \in Answers
  BY <1>5 DEF Answers
<1>6. QED
  BY <1>1, <1>2, <1>3, <1>4, <1>5

(***************************************************************************)
(* What dhcp_discover_handler offers is a number of the table.             *)
(***************************************************************************)
LEMMA AllocatedNum ==
  ASSUME NEW c \in Clients, NEW n \in AllocateNum(c)
  PROVE  n \in Nums
<1>1. CASE n \in FreeNum
  BY <1>1, RangeAssumption DEF FreeNum
<1>2. CASE n \in {s.ip_num : s \in {t \in Statics : t.mac = c}}
  BY <1>2, StaticAssumption
<1>3. QED
  BY <1>1, <1>2 DEF AllocateNum

LEMMA TypeInit == Init => TypeOK
<1> SUFFICES ASSUME Init PROVE TypeOK
  OBVIOUS
<1>1. addr \in [Clients -> Nums \cup {NoNum}]
  BY RangeAssumption DEF Init
<1>2. QED
  BY <1>1, TimeAssumption DEF Init, TypeOK, BlankTable

(***************************************************************************)
(* The types of the state, and that a host which asks for a number or uses *)
(* one has one.                                                            *)
(***************************************************************************)
LEMMA TypeNext ==
  ASSUME TypeOK, Addressed, [Next]_vars
  PROVE  TypeOK' /\ Addressed'
<1> USE DEF hosts, history
<1>t. /\ table \in [Nums -> [first : BOOLEAN, second : Nat]]
      /\ arp \in [Nums -> Clients \cup {NoMac}]
      /\ phase \in [Clients -> {"init", "selecting", "requesting", "bound", "renewing"}]
      /\ addr \in [Clients -> Nums \cup {NoNum}]
      /\ until \in [Clients -> Nat]
      /\ asked \in [Clients -> Nat]
      /\ now \in Nat
      /\ restarts \in 0 .. MaxRestarts /\ old \subseteq Clients
  BY DEF TypeOK
<1> DEFINE Frames == Discovers \cup Offers \cup Requests \cup Answers
<1>n. net \subseteq Frames
  BY DEF TypeOK
<1>d. NoNum \notin Nums /\ LeaseTime \in Nat
  BY RangeAssumption, TimeAssumption
<1>1. ASSUME NEW m \in net, DiscoverOffer(m) PROVE TypeOK' /\ Addressed'
  <2>1. PICK n \in AllocateNum(m.from) :
          net' = (net \ {m}) \cup {[type |-> "offer", to |-> m.from, num |-> n]}
    BY <1>1 DEF DiscoverOffer
  <2>2. m.from \in Clients
    BY <1>1, FrameTypes DEF DiscoverOffer
  <2>3. [type |-> "offer", to |-> m.from, num |-> n] \in Offers
    BY <2>1, <2>2, AllocatedNum DEF Offers
  <2>4. QED
    BY <1>1, <1>n, <2>1, <2>3 DEF DiscoverOffer, TypeOK, Addressed
<1>2. ASSUME NEW m \in net, DiscoverRefused(m) PROVE TypeOK' /\ Addressed'
  BY <1>2, <1>n DEF DiscoverRefused, TypeOK, Addressed
<1>3. ASSUME NEW m \in net, Request(m) PROVE TypeOK' /\ Addressed'
  <2>1. m.from \in Clients /\ m.num \in Nums /\ m.at \in Nat
    BY <1>3, FrameTypes DEF Request
  <2>2. Answer(m, "ack") \in Answers /\ Answer(m, "nak") \in Answers
    BY <2>1 DEF Answer, Answers
  <2>3. net' \subseteq Frames
    BY <1>3, <1>n, <2>2 DEF Request
  <2>4. table' \in [Nums -> [first : BOOLEAN, second : Nat]]
    <3>1. [first |-> TRUE, second |-> now + LeaseTime] \in [first : BOOLEAN, second : Nat]
      BY <1>t, <1>d
    <3>2. CASE Granted(m)
      BY <1>3, <1>t, <2>1, <3>1, <3>2 DEF Request, Leased
    <3>3. CASE ~Granted(m)
      BY <1>3, <1>t, <3>3 DEF Request
    <3>4. QED
      BY <3>2, <3>3
  <2>5. arp' \in [Nums -> Clients \cup {NoMac}]
    BY <1>3, <1>t, <2>1 DEF Request
  <2>6. QED
    BY <1>3, <2>3, <2>4, <2>5 DEF Request, TypeOK, Addressed
<1>4. CASE Refresh
  BY <1>4 DEF Refresh, Refreshed, TypeOK, Addressed
<1>5. ASSUME NEW c \in Clients, ClientDiscover(c) PROVE TypeOK' /\ Addressed'
  <2>1. [type |-> "discover", from |-> c] \in Discovers
    BY DEF Discovers
  <2>2. net' \subseteq Frames
    BY <1>5, <1>n, <2>1 DEF ClientDiscover, Send
  <2>3. QED
    BY <1>5, <1>t, <2>2 DEF ClientDiscover, TypeOK, Addressed
<1>a. ASSUME NEW c \in Clients, NEW n \in Nums, NEW r \in BOOLEAN
      PROVE  Ask(c, r, n) \in Frames
  BY <1>t DEF Ask, Requests
<1>6. ASSUME NEW c \in Clients, ClientReboot(c) PROVE TypeOK' /\ Addressed'
  <2>1. addr[c] \in Nums
    BY <1>6, <1>t DEF ClientReboot
  <2>2. net' \subseteq Frames
    BY <1>6, <1>n, <2>1, <1>a DEF ClientReboot, Send
  <2>3. QED
    BY <1>6, <1>t, <2>1, <2>2 DEF ClientReboot, TypeOK, Addressed
<1>7. ASSUME NEW c \in Clients, ClientRenew(c) PROVE TypeOK' /\ Addressed'
  <2>1. addr[c] \in Nums
    BY <1>7 DEF ClientRenew, Addressed
  <2>2. net' \subseteq Frames
    BY <1>7, <1>n, <2>1, <1>a DEF ClientRenew, Send
  <2>3. QED
    BY <1>7, <1>t, <2>1, <2>2 DEF ClientRenew, TypeOK, Addressed
<1>8. ASSUME NEW c \in Clients, ClientTimeout(c) PROVE TypeOK' /\ Addressed'
  BY <1>8, <1>t, <1>n DEF ClientTimeout, StartsOver, TypeOK, Addressed
<1>9. ASSUME NEW c \in Clients, NEW m \in net, ClientSelect(c, m)
      PROVE  TypeOK' /\ Addressed'
  <2>1. m.num \in Nums
    BY <1>9, FrameTypes DEF ClientSelect
  <2>2. net' \subseteq Frames
    BY <1>9, <1>n, <2>1, <1>a DEF ClientSelect
  <2>3. QED
    BY <1>9, <1>t, <2>1, <2>2 DEF ClientSelect, TypeOK, Addressed
<1>10. ASSUME NEW c \in Clients, NEW m \in net, ClientAck(c, m)
       PROVE  TypeOK' /\ Addressed'
  <2>1. addr[c] \in Nums
    BY <1>10, FrameTypes DEF ClientAck, Awaited
  <2>2. QED
    BY <1>10, <1>t, <1>n, <1>d, <2>1 DEF ClientAck, TypeOK, Addressed
<1>11. ASSUME NEW c \in Clients, NEW m \in net, ClientNak(c, m)
       PROVE  TypeOK' /\ Addressed'
  BY <1>11, <1>t, <1>n DEF ClientNak, StartsOver, TypeOK, Addressed
<1>12. ASSUME NEW m \in net, Lose(m) PROVE TypeOK' /\ Addressed'
  BY <1>12, <1>n DEF Lose, TypeOK, Addressed
<1>13. CASE Tick
  BY <1>13 DEF Tick, TypeOK, Addressed
<1>14. CASE Restart
  BY <1>14, <1>t, TimeAssumption DEF Restart, BlankTable, TypeOK, Addressed
<1>15. CASE UNCHANGED vars
  BY <1>15 DEF vars, TypeOK, Addressed
<1>16. QED
  BY <1>1, <1>2, <1>3, <1>4, <1>5, <1>6, <1>7, <1>8, <1>9, <1>10, <1>11,
     <1>12, <1>13, <1>14, <1>15
  DEF Next, Router, Client

(***************************************************************************)
(* The state of the address server and of the hosts has its types, for any *)
(* range and any reservations: an offer always names a number, also when   *)
(* the range has run out (dhcp.cpp:73).                                    *)
(***************************************************************************)
THEOREM TypeCorrect == Spec => []TypeOK
<1>1. Init => TypeOK /\ Addressed
  BY TypeInit DEF Init, Addressed
<1>2. (TypeOK /\ Addressed) /\ [Next]_vars => (TypeOK /\ Addressed)'
  BY TypeNext
<1>3. QED
  BY <1>1, <1>2, PTL DEF Spec
-----------------------------------------------------------------------------
\* Every step but the answer to a request and a restart.
Quiet ==
  \/ \E m \in net : DiscoverOffer(m) \/ DiscoverRefused(m) \/ Lose(m)
  \/ Refresh \/ Tick
  \/ \E c \in Clients : Client(c)
  \/ UNCHANGED vars

\* A frame a quiet step adds ties nobody, or is a renewal of a lease held.
Harmless(m) ==
  \/ m.type \in {"discover", "offer"}
  \/ m.type = "request" /\ m.at = now
       /\ (m.renewal => phase[m.from] = "bound" /\ addr[m.from] = m.num)

\* A host that has a lease after the step had it before, or was granted it.
Inherited(c) ==
  \/ phase[c] \in {"bound", "renewing"} /\ addr'[c] = addr[c] /\ until'[c] = until[c]
  \/ \E m \in net : /\ m.type = "ack" /\ m.to = c /\ m.num = addr'[c]
                    /\ until'[c] = m.at + LeaseTime

\* A host leaves old only when nothing of it is on its way and it has no lease.
LeavesClean == \A c \in old \ old' :
  phase'[c] = "init" /\ \A m \in net' :
    IF m.type \in {"discover", "request"} THEN m.from # c ELSE m.to # c

QuietStep ==
  /\ UNCHANGED <<table, arp>> /\ old' \subseteq old /\ now <= now'
  /\ \A m \in net' : m \in net \/ Harmless(m)
  /\ \A c \in Clients : phase'[c] \in {"bound", "renewing"} => Inherited(c)
  /\ LeavesClean

LEMMA QuietSteps ==
  ASSUME LeaseInv, Quiet
  PROVE  QuietStep
<1> USE DEF hosts, history
<1>t. /\ phase \in [Clients -> {"init", "selecting", "requesting", "bound", "renewing"}]
      /\ addr \in [Clients -> Nums \cup {NoNum}]
      /\ until \in [Clients -> Nat]
      /\ asked \in [Clients -> Nat]
      /\ now \in Nat /\ LeaseTime \in Nat /\ old \subseteq Clients
  BY TimeAssumption DEF LeaseInv, TypeOK
<1>k. ASSUME UNCHANGED <<phase, addr, until, old>>
      PROVE  /\ \A c \in Clients : phase'[c] \in {"bound", "renewing"} => Inherited(c)
             /\ LeavesClean
  BY <1>k DEF Inherited, LeavesClean
<1>1. ASSUME NEW m \in net, DiscoverOffer(m) PROVE QuietStep
  <2>1. PICK n \in AllocateNum(m.from) :
          net' = (net \ {m}) \cup {[type |-> "offer", to |-> m.from, num |-> n]}
    BY <1>1 DEF DiscoverOffer
  <2>2. \A x \in net' : x \in net \/ Harmless(x)
    BY <2>1 DEF Harmless
  <2>3. QED
    BY <1>1, <1>k, <1>t, <2>2 DEF DiscoverOffer, QuietStep
<1>2. ASSUME NEW m \in net, DiscoverRefused(m) \/ Lose(m) PROVE QuietStep
  BY <1>2, <1>k, <1>t DEF DiscoverRefused, Lose, QuietStep
<1>3. CASE Refresh \/ UNCHANGED vars
  BY <1>3, <1>k, <1>t DEF Refresh, Refreshed, vars, QuietStep
<1>4. CASE Tick
  BY <1>4, <1>k, <1>t DEF Tick, QuietStep
<1>5. ASSUME NEW c \in Clients, Client(c) PROVE QuietStep
  <2>1. CASE ClientDiscover(c)
    <3>1. \A x \in net' : x \in net \/ Harmless(x)
      BY <2>1 DEF ClientDiscover, Send, Harmless
    <3>2. QED
      BY <1>t, <2>1, <3>1
      DEF ClientDiscover, Send, QuietStep, Inherited, LeavesClean
  <2>2. CASE ClientReboot(c)
    <3>1. \A x \in net' : x \in net \/ Harmless(x)
      BY <2>2 DEF ClientReboot, Send, Ask, Harmless
    <3>2. QED
      BY <1>t, <2>2, <3>1
      DEF ClientReboot, QuietStep, Inherited, LeavesClean
  <2>3. CASE ClientRenew(c)
    <3>1. \A x \in net' : x \in net \/ Harmless(x)
      BY <2>3 DEF ClientRenew, Send, Ask, Harmless
    <3>2. QED
      BY <1>t, <2>3, <3>1
      DEF ClientRenew, QuietStep, Inherited, LeavesClean
  <2>4. CASE ClientTimeout(c)
    <3>1. LeavesClean
      <4> SUFFICES ASSUME c \in old \ old'
                   PROVE  phase'[c] = "init" /\ \A m \in net' :
                            IF m.type \in {"discover", "request"}
                              THEN m.from # c ELSE m.to # c
        BY <2>4 DEF ClientTimeout, StartsOver, LeavesClean
      <4>1. FramesOf(c) = {}
        BY <2>4 DEF ClientTimeout, StartsOver
      <4>2. QED
        BY <1>t, <2>4, <4>1 DEF ClientTimeout, FramesOf
    <3>2. QED
      BY <1>t, <2>4, <3>1
      DEF ClientTimeout, StartsOver, QuietStep, Inherited
  <2>5. ASSUME NEW m \in net, ClientSelect(c, m) PROVE QuietStep
    <3>1. \A x \in net' : x \in net \/ Harmless(x)
      BY <2>5 DEF ClientSelect, Ask, Harmless
    <3>2. \A d \in Clients : phase'[d] \in {"bound", "renewing"} => Inherited(d)
      BY <1>t, <2>5 DEF ClientSelect, Inherited
    <3>3. UNCHANGED <<table, arp, old, now>>
      BY <2>5 DEF ClientSelect
    <3>4. QED
      BY <1>t, <3>1, <3>2, <3>3 DEF QuietStep, LeavesClean
  <2>6. ASSUME NEW m \in net, ClientAck(c, m) PROVE QuietStep
    <3>1. Inherited(c)
      BY <1>t, <2>6 DEF ClientAck, Awaited, Inherited
    <3>2. QED
      BY <1>t, <2>6, <3>1
      DEF ClientAck, QuietStep, Inherited, LeavesClean
  <2>7. ASSUME NEW m \in net, ClientNak(c, m) PROVE QuietStep
    <3>1. LeavesClean
      <4> SUFFICES ASSUME c \in old \ old'
                   PROVE  phase'[c] = "init" /\ \A x \in net' :
                            IF x.type \in {"discover", "request"}
                              THEN x.from # c ELSE x.to # c
        BY <2>7 DEF ClientNak, StartsOver, LeavesClean
      <4>1. FramesOf(c) \subseteq {m}
        BY <2>7 DEF ClientNak, StartsOver
      <4>2. QED
        BY <1>t, <2>7, <4>1 DEF ClientNak, FramesOf
    <3>2. QED
      BY <1>t, <2>7, <3>1
      DEF ClientNak, StartsOver, QuietStep, Inherited
  <2>8. QED
    BY <1>5, <2>1, <2>2, <2>3, <2>4, <2>5, <2>6, <2>7 DEF Client
<1>6. QED
  BY <1>1, <1>2, <1>3, <1>4, <1>5 DEF Quiet

(***************************************************************************)
(* A quiet step ties no host that a restart has not interrupted.           *)
(***************************************************************************)
LEMMA QuietTies ==
  ASSUME LeaseInv, QuietStep, NEW c \in Clients \ old', NEW n \in Nums, Tied(c, n)'
  PROVE  c \notin old /\ Tied(c, n)
<1>1. c \notin old
  <2> SUFFICES ASSUME c \in old PROVE FALSE
    OBVIOUS
  <2>1. phase'[c] = "init" /\ \A m \in net' :
          IF m.type \in {"discover", "request"} THEN m.from # c ELSE m.to # c
    BY DEF QuietStep, LeavesClean
  <2>2. QED
    BY <2>1 DEF Tied, Acknowledged, Renews
<1>2. ASSUME NEW m \in net', m.type = "ack", m.to = c, m.num = n
      PROVE  Tied(c, n)
  <2>1. m \in net
    BY <1>2 DEF QuietStep, Harmless
  <2>2. QED
    BY <1>2, <2>1 DEF Tied, Acknowledged
<1>3. ASSUME NEW m \in net', m.type = "request", m.renewal, m.from = c, m.num = n
      PROVE  Tied(c, n)
  <2>1. CASE m \in net
    BY <1>3, <2>1 DEF Tied, Renews
  <2>2. CASE m \notin net
    <3>1. Harmless(m)
      BY <2>2 DEF QuietStep
    <3>2. QED
      BY <1>3, <3>1 DEF Harmless, Tied
  <2>3. QED
    BY <2>1, <2>2
<1>4. CASE phase'[c] \in {"bound", "renewing"} /\ addr'[c] = n
  <2>1. Inherited(c)
    BY <1>4 DEF QuietStep
  <2>2. QED
    BY <1>1, <1>4, <2>1 DEF Inherited, Tied, Acknowledged
<1>5. CASE Acknowledged(c, n)'
  BY <1>1, <1>2, <1>5 DEF Acknowledged
<1>6. CASE Renews(c, n)'
  BY <1>1, <1>3, <1>6 DEF Renews
<1>7. QED
  BY <1>1, <1>4, <1>5, <1>6 DEF Tied

(***************************************************************************)
(* A quiet step keeps everything but the types, which TypeNext has.        *)
(***************************************************************************)
LEMMA QuietKeeps ==
  ASSUME LeaseInv, QuietStep, TypeOK', Addressed'
  PROVE  NothingAhead' /\ TiesMarked' /\ TiesUnique' /\ EndsCovered'
<1>t. /\ table \in [Nums -> [first : BOOLEAN, second : Nat]]
      /\ now \in Nat /\ now' \in Nat /\ now <= now' /\ LeaseTime \in Nat
      /\ UNCHANGED <<table, arp>>
  BY TimeAssumption DEF LeaseInv, TypeOK, QuietStep
<1>1. NothingAhead'
  <2>1. ASSUME NEW m \in net', m.type = "request" PROVE m.at <= now'
    <3>1. CASE m \in net
      <4>1. m.at \in Nat /\ m.at <= now
        BY <2>1, <3>1, FrameTypes DEF LeaseInv, NothingAhead
      <4>2. QED
        BY <1>t, <4>1
    <3>2. CASE m \notin net
      BY <1>t, <2>1, <3>2 DEF QuietStep, Harmless
    <3>3. QED
      BY <3>1, <3>2
  <2>2. ASSUME NEW n \in Nums PROVE table'[n].second <= now' + LeaseTime
    <3>1. table[n].second \in Nat /\ table[n].second <= now + LeaseTime
      BY <1>t DEF LeaseInv, NothingAhead
    <3>2. QED
      BY <1>t, <3>1
  <2>3. QED
    BY <2>1, <2>2 DEF NothingAhead
<1>2. TiesMarked'
  <2> SUFFICES ASSUME NEW c \in Clients \ old', NEW n \in Nums, Tied(c, n)'
               PROVE  table'[n].first /\ arp'[n] # NoMac
    BY DEF TiesMarked
  <2>1. QED
    BY <1>t, QuietTies DEF LeaseInv, TiesMarked
<1>3. TiesUnique'
  <2> SUFFICES ASSUME NEW c \in Clients \ old', NEW d \in Clients \ old',
                      NEW n \in Nums, Tied(c, n)', Tied(d, n)'
               PROVE  c = d
    BY DEF TiesUnique
  <2>1. QED
    BY QuietTies DEF LeaseInv, TiesUnique
<1>4. EndsCovered'
  <2> SUFFICES ASSUME NEW c \in Clients \ old'
               PROVE  /\ \A m \in net' : m.type = "ack" /\ m.to = c
                           => table'[m.num].second >= m.at + LeaseTime
                      /\ phase'[c] \in {"bound", "renewing"}
                           => table'[addr'[c]].second >= until'[c]
    BY DEF EndsCovered
  <2>1. ASSUME NEW m \in net', m.type = "ack", m.to = c
        PROVE  table'[m.num].second >= m.at + LeaseTime
    <3>1. m \in net
      BY <2>1 DEF QuietStep, Harmless
    <3>2. m.num \in Nums
      BY <2>1, <3>1, FrameTypes DEF LeaseInv
    <3>3. Acknowledged(c, m.num)'
      BY <2>1 DEF Acknowledged
    <3>4. c \notin old
      BY <3>2, <3>3, QuietTies DEF Tied
    <3>5. QED
      BY <1>t, <2>1, <3>1, <3>4 DEF LeaseInv, EndsCovered
  <2>2. ASSUME phase'[c] \in {"bound", "renewing"}
        PROVE  table'[addr'[c]].second >= until'[c]
    <3>1. PICK n \in Nums : n = addr'[c]
      BY <2>2 DEF Addressed
    <3>2. Tied(c, n)'
      BY <2>2, <3>1 DEF Tied
    <3>3. c \notin old
      BY <3>1, <3>2, QuietTies
    <3>4. Inherited(c)
      BY <2>2 DEF QuietStep
    <3>5. CASE phase[c] \in {"bound", "renewing"} /\ addr'[c] = addr[c] /\ until'[c] = until[c]
      BY <1>t, <3>3, <3>5 DEF LeaseInv, EndsCovered
    <3>6. CASE \E m \in net : /\ m.type = "ack" /\ m.to = c /\ m.num = addr'[c]
                              /\ until'[c] = m.at + LeaseTime
      BY <1>t, <3>3, <3>6 DEF LeaseInv, EndsCovered
    <3>7. QED
      BY <3>4, <3>5, <3>6 DEF Inherited
  <2>3. QED
    BY <2>1, <2>2
<1>5. QED
  BY <1>1, <1>2, <1>3, <1>4

-----------------------------------------------------------------------------
(***************************************************************************)
(* An answer ties only the host that asked, and only to a number that was  *)
(* free or that it is tied to already.                                     *)
(***************************************************************************)
LEMMA RequestTies ==
  ASSUME LeaseInv, NEW m \in net, Request(m),
         NEW c \in Clients, NEW n \in Nums, Tied(c, n)'
  PROVE  \/ Tied(c, n)
         \/ c = m.from /\ n = m.num /\ ~table[n].first /\ Granted(m)
<1>0. UNCHANGED <<phase, addr>>
  BY DEF Request, hosts
<1>1. \A x \in net' : x.type = "request" => x \in net
  BY DEF Request, Answer
<1>2. ASSUME NEW x \in net', x.type = "ack", x.to = c, x.num = n
      PROVE  \/ Tied(c, n)
             \/ c = m.from /\ n = m.num /\ ~table[n].first /\ Granted(m)
  <2>1. CASE x \in net
    BY <1>2, <2>1 DEF Tied, Acknowledged
  <2>2. CASE x \notin net
    <3>1. x = Answer(m, "ack") /\ Granted(m)
      BY <1>2, <2>2 DEF Request, Answer
    <3>2. c = m.from /\ n = m.num
      BY <1>2, <3>1 DEF Answer
    <3>3. CASE m.renewal
      BY <3>2, <3>3 DEF Request, Tied, Renews
    <3>4. CASE ~m.renewal
      BY <3>1, <3>2, <3>4 DEF Granted
    <3>5. QED
      BY <3>3, <3>4
  <2>3. QED
    BY <2>1, <2>2
<1>3. CASE Acknowledged(c, n)'
  BY <1>2, <1>3 DEF Acknowledged
<1>4. CASE Renews(c, n)'
  <2>1. Renews(c, n)
    BY <1>1, <1>4 DEF Renews
  <2>2. QED
    BY <2>1 DEF Tied
<1>5. CASE phase'[c] \in {"bound", "renewing"} /\ addr'[c] = n
  BY <1>0, <1>5 DEF Tied
<1>6. QED
  BY <1>3, <1>4, <1>5 DEF Tied

LEMMA RequestKeeps ==
  ASSUME LeaseInv, NEW m \in net, Request(m)
  PROVE  NothingAhead' /\ TiesMarked' /\ TiesUnique' /\ EndsCovered'
<1>t. /\ table \in [Nums -> [first : BOOLEAN, second : Nat]]
      /\ arp \in [Nums -> Clients \cup {NoMac}] /\ NoMac \notin Clients
      /\ now \in Nat /\ LeaseTime \in Nat
  BY TimeAssumption, StaticAssumption DEF LeaseInv, TypeOK
<1>m. /\ m.type = "request" /\ m.from \in Clients /\ m.num \in Nums
      /\ m.at \in Nat /\ m.at <= now
  BY FrameTypes DEF LeaseInv, Request, NothingAhead
<1>u. UNCHANGED <<phase, addr, until, asked, now, old>>
  BY DEF Request, hosts, history
<1>r. \A x \in net' : x.type = "request" => x \in net
  BY DEF Request, Answer
<1>g. /\ Granted(m) => table' = [table EXCEPT ![m.num] = [first |-> TRUE, second |-> now + LeaseTime]]
      /\ ~Granted(m) => table' = table
  BY DEF Request, Leased
\* A number's bit is never cleared, and its end never brought forward.
<1>a. ASSUME NEW n \in Nums
      PROVE  /\ table[n].first => table'[n].first
             /\ table'[n].second \in Nat
             /\ table'[n].second >= table[n].second
             /\ table'[n].second <= now + LeaseTime
             /\ arp[n] # NoMac => arp'[n] # NoMac
  <2>1. table[n].second \in Nat /\ table[n].second <= now + LeaseTime
    BY <1>t DEF LeaseInv, NothingAhead
  <2>2. arp[n] # NoMac => arp'[n] # NoMac
    BY <1>t, <1>m DEF Request
  <2>3. CASE Granted(m) /\ n = m.num
    BY <1>t, <1>m, <1>g, <2>1, <2>2, <2>3
  <2>4. CASE ~(Granted(m) /\ n = m.num)
    BY <1>t, <1>m, <1>g, <2>1, <2>2, <2>4
  <2>5. QED
    BY <2>3, <2>4
<1>1. NothingAhead'
  BY <1>u, <1>r, <1>a DEF LeaseInv, NothingAhead
<1>2. TiesMarked'
  <2> SUFFICES ASSUME NEW c \in Clients \ old', NEW n \in Nums, Tied(c, n)'
               PROVE  table'[n].first /\ arp'[n] # NoMac
    BY DEF TiesMarked
  <2>1. CASE Tied(c, n)
    BY <1>u, <1>a, <2>1 DEF LeaseInv, TiesMarked
  <2>2. CASE n = m.num /\ Granted(m)
    <3>1. table'[n].first
      BY <1>t, <1>m, <1>g, <2>2
    <3>2. arp'[n] # NoMac
      BY <1>t, <1>m, <2>2 DEF Request
    <3>3. QED
      BY <3>1, <3>2
  <2>3. QED
    BY <2>1, <2>2, RequestTies
<1>3. TiesUnique'
  <2> SUFFICES ASSUME NEW c \in Clients \ old', NEW d \in Clients \ old',
                      NEW n \in Nums, Tied(c, n)', Tied(d, n)'
               PROVE  c = d
    BY DEF TiesUnique
  <2>1. /\ Tied(c, n) \/ (c = m.from /\ ~table[n].first)
        /\ Tied(d, n) \/ (d = m.from /\ ~table[n].first)
    BY RequestTies
  <2>2. /\ Tied(c, n) => table[n].first
        /\ Tied(d, n) => table[n].first
    BY <1>u DEF LeaseInv, TiesMarked
  <2>3. QED
    BY <1>u, <2>1, <2>2 DEF LeaseInv, TiesUnique
<1>4. EndsCovered'
  <2> SUFFICES ASSUME NEW c \in Clients \ old'
               PROVE  /\ \A x \in net' : x.type = "ack" /\ x.to = c
                           => table'[x.num].second >= x.at + LeaseTime
                      /\ phase'[c] \in {"bound", "renewing"}
                           => table'[addr'[c]].second >= until'[c]
    BY DEF EndsCovered
  <2>1. ASSUME NEW x \in net', x.type = "ack", x.to = c
        PROVE  table'[x.num].second >= x.at + LeaseTime
    <3>1. CASE x \in net
      <4>1. x.num \in Nums /\ x.at \in Nat
        BY <2>1, <3>1, FrameTypes DEF LeaseInv
      <4>2. table[x.num].second \in Nat /\ table[x.num].second >= x.at + LeaseTime
        BY <1>t, <1>u, <2>1, <3>1, <4>1 DEF LeaseInv, EndsCovered
      <4>3. QED
        BY <1>t, <1>a, <4>1, <4>2
    <3>2. CASE x \notin net
      <4>1. x = Answer(m, "ack") /\ Granted(m)
        BY <2>1, <3>2 DEF Request, Answer
      <4>2. x.num = m.num /\ x.at = m.at
        BY <4>1 DEF Answer
      <4>3. QED
        BY <1>t, <1>m, <1>g, <4>1, <4>2
    <3>3. QED
      BY <3>1, <3>2
  <2>2. ASSUME phase'[c] \in {"bound", "renewing"}
        PROVE  table'[addr'[c]].second >= until'[c]
    <3>1. addr[c] \in Nums /\ table[addr[c]].second >= until[c]
      BY <1>u, <2>2 DEF LeaseInv, Addressed, EndsCovered
    <3>2. until[c] \in Nat /\ table[addr[c]].second \in Nat
      BY <1>t, <3>1 DEF LeaseInv, TypeOK
    <3>3. QED
      BY <1>u, <1>a, <3>1, <3>2
  <2>3. QED
    BY <2>1, <2>2
<1>5. QED
  BY <1>1, <1>2, <1>3, <1>4

(***************************************************************************)
(* A restart leaves no host tied that it has not marked old.               *)
(***************************************************************************)
LEMMA RestartKeeps ==
  ASSUME LeaseInv, Restart
  PROVE  NothingAhead' /\ TiesMarked' /\ TiesUnique' /\ EndsCovered'
<1>u. UNCHANGED <<net, phase, addr, until, now>>
  BY DEF Restart, hosts
<1>1. ASSUME NEW c \in Clients \ old'
      PROVE  /\ phase'[c] = "init"
             /\ \A m \in net' : /\ m.type \in {"discover", "request"} => m.from # c
                                /\ m.type \in {"ack", "nak"} => m.to # c
  BY <1>u DEF Restart, FramesOf
<1>2. ASSUME NEW c \in Clients \ old', NEW n \in Nums PROVE ~Tied(c, n)'
  BY <1>1 DEF Tied, Acknowledged, Renews
<1>3. NothingAhead'
  BY <1>u, TimeAssumption DEF LeaseInv, TypeOK, NothingAhead, Restart, BlankTable
<1>4. TiesMarked' /\ TiesUnique'
  BY <1>2 DEF TiesMarked, TiesUnique
<1>5. EndsCovered'
  BY <1>1 DEF EndsCovered
<1>6. QED
  BY <1>3, <1>4, <1>5

LEMMA InvariantInit == Init => LeaseInv
<1> SUFFICES ASSUME Init PROVE LeaseInv
  OBVIOUS
<1>1. TypeOK
  BY TypeInit
<1>2. QED
  BY <1>1, TimeAssumption
  DEF Init, BlankTable, LeaseInv, Addressed, NothingAhead, TiesMarked, TiesUnique,
      EndsCovered, Tied, Acknowledged, Renews

LEMMA InvariantNext == LeaseInv /\ [Next]_vars => LeaseInv'
<1> SUFFICES ASSUME LeaseInv, [Next]_vars PROVE LeaseInv'
  OBVIOUS
<1>1. TypeOK' /\ Addressed'
  BY TypeNext DEF LeaseInv
<1>2. CASE Quiet
  BY <1>1, <1>2, QuietSteps, QuietKeeps DEF LeaseInv
<1>3. CASE \E m \in net : Request(m)
  BY <1>1, <1>3, RequestKeeps DEF LeaseInv
<1>4. CASE Restart
  BY <1>1, <1>4, RestartKeeps DEF LeaseInv
<1>5. QED
  BY <1>2, <1>3, <1>4 DEF Next, Router, Quiet

THEOREM InvariantHolds == Spec => []LeaseInv
<1>1. QED
  BY InvariantInit, InvariantNext, PTL DEF Spec

(***************************************************************************)
(* Two hosts never use one address at a time (dhcp.cpp:191), hosts that a  *)
(* restart interrupted aside.                                              *)
(***************************************************************************)
THEOREM LeasesUnique == Spec => []UniqueLease
<1>1. LeaseInv => UniqueLease
  <2> SUFFICES ASSUME LeaseInv, NEW c \in Clients \ old, NEW d \in Clients \ old,
                      Holds(c), Holds(d), addr[c] = addr[d]
               PROVE  c = d
    BY DEF UniqueLease
  <2>1. Tied(c, addr[c]) /\ Tied(d, addr[c]) /\ addr[c] \in Nums
    BY DEF Holds, Tied, LeaseInv, Addressed
  <2>2. QED
    BY <2>1 DEF LeaseInv, TiesUnique
<1>2. QED
  BY <1>1, InvariantHolds, PTL

(***************************************************************************)
(* The router never believes a lease to end before its holder does         *)
(* (dhcp.cpp:193-199).                                                     *)
(***************************************************************************)
THEOREM ServerOutlasts == Spec => []ServerOutlastsHolder
<1>1. LeaseInv => ServerOutlastsHolder
  <2> SUFFICES ASSUME LeaseInv, NEW c \in Clients \ old, Holds(c)
               PROVE  table[addr[c]].first /\ table[addr[c]].second >= until[c]
    BY DEF ServerOutlastsHolder
  <2>1. Tied(c, addr[c]) /\ addr[c] \in Nums
    BY DEF Holds, Tied, LeaseInv, Addressed
  <2>2. QED
    BY <2>1 DEF LeaseInv, TiesMarked, EndsCovered, Holds
<1>2. QED
  BY <1>1, InvariantHolds, PTL

(***************************************************************************)
(* The address of a lease in use is always resolved (dhcp.cpp:275).        *)
(***************************************************************************)
THEOREM HoldersResolved == Spec => []HolderResolved
<1>1. LeaseInv => HolderResolved
  <2> SUFFICES ASSUME LeaseInv, NEW c \in Clients \ old, Holds(c)
               PROVE  arp[addr[c]] # NoMac
    BY DEF HolderResolved
  <2>1. Tied(c, addr[c]) /\ addr[c] \in Nums
    BY DEF Holds, Tied, LeaseInv, Addressed
  <2>2. QED
    BY <2>1 DEF LeaseInv, TiesMarked
<1>2. QED
  BY <1>1, InvariantHolds, PTL

=============================================================================
