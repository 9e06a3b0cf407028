-------------------------------- MODULE Dhcp --------------------------------
(***************************************************************************)
(* The address server of the router (include/dhcp.cpp) and the hosts that  *)
(* ask it for addresses.  An address is named by its last byte, as in the  *)
(* code.  The handlers run to completion on the router's one thread; the   *)
(* frames between hosts and router are delayed, reordered and lost.        *)
(*                                                                         *)
(* The hosts are not part of the repository.  They follow the client side  *)
(* of the protocol: they request only what they were offered or what they  *)
(* remember from an earlier lease, renew only what they hold, count the    *)
(* lease from the moment they asked, and stop using an address when it     *)
(* ends.                                                                   *)
(***************************************************************************)
EXTENDS Integers, FiniteSets

CONSTANTS
  Clients,      \* the hosts, by hardware address
  Nums,         \* the indexes of allocated_dhcp_ip_table, 0 .. 255
  StartNum,     \* range_start
  EndNum,       \* range_end
  Statics,      \* the static_ip entries: records [mac, ip_num]
  LeaseTime,    \* lease_time
  NoNum,        \* 256, "no number left"; also "nothing remembered"
  NoMac,        \* no entry of arp_table
  MaxTime,      \* bound on the clock
  MaxRestarts,  \* bound on the restarts of the router
  MaxFrames     \* bound on the frames on their way when a host sends

ASSUME RangeAssumption ==
  /\ Nums \subseteq Nat /\ NoNum \in Nat \ Nums
  /\ StartNum \in Nums /\ EndNum \in Nums
  /\ \A i \in StartNum .. EndNum : i \in Nums /\ i - StartNum \in Nums

ASSUME TimeAssumption ==
  /\ LeaseTime \in Nat \ {0} /\ MaxTime \in Nat
  /\ MaxFrames \in Nat \ {0} /\ MaxRestarts \in Nat

\* A static address is kept out of the range; load_config does not check it.
ASSUME StaticAssumption ==
  /\ \A s \in Statics : s.mac \in Clients /\ s.ip_num \in Nums
                          /\ s.ip_num \notin StartNum .. EndNum
  /\ \A s, t \in Statics : s.mac = t.mac \/ s.ip_num = t.ip_num => s = t
  /\ NoMac \notin Clients

VARIABLES
  table,      \* allocated_dhcp_ip_table: [first, second] for each number
  arp,        \* arp_table, for the LAN addresses
  net,        \* frames on their way, in both directions
  phase,      \* what each host is doing
  addr,       \* the number each host holds, or remembers
  until,      \* when the lease it counts on ends
  asked,      \* when its latest request was sent
  now,
  restarts,   \* how often the router has been restarted
  old         \* history: hosts that a restart found doing something and
              \* that have not started over since

hosts == <<phase, addr, until, asked>>
history == <<restarts, old>>
vars == <<table, arp, net, hosts, now, history>>

Discovers == [type : {"discover"}, from : Clients]
Offers == [type : {"offer"}, to : Clients, num : Nums]
\* ciaddr is the address a host renews; option 50 is the one it asks for.
Requests == [type : {"request"}, from : Clients, renewal : BOOLEAN,
             num : Nums, at : Nat]
Answers == [type : {"ack", "nak"}, to : Clients, num : Nums, at : Nat]

TypeOK ==
  /\ table \in [Nums -> [first : BOOLEAN, second : Nat]]
  /\ arp \in [Nums -> Clients \cup {NoMac}]
  /\ net \subseteq Discovers \cup Offers \cup Requests \cup Answers
  /\ phase \in [Clients -> {"init", "selecting", "requesting", "bound", "renewing"}]
  /\ addr \in [Clients -> Nums \cup {NoNum}]
  /\ until \in [Clients -> Nat]
  /\ asked \in [Clients -> Nat]
  /\ now \in Nat
  /\ restarts \in 0 .. MaxRestarts /\ old \subseteq Clients

-----------------------------------------------------------------------------
(***************************************************************************)
(* The router.                                                             *)
(***************************************************************************)
\* Faulty: the bit looked at is that of the next number.
FreeNumNext ==
  {i \in StartNum .. EndNum :
     /\ ~table[i - StartNum + 1].first
     /\ \A j \in StartNum .. i - 1 : table[j - StartNum + 1].first}

\* The first number whose bit is clear -- the bit looked at is not that of
\* the number but the one StartNum below it.
FreeNum ==
  {i \in StartNum .. EndNum :
     /\ ~table[i - StartNum].first
     /\ \A j \in StartNum .. i - 1 : table[j - StartNum].first}

\* Faulty: "no number left" is offered like a number.
AllocateUnguarded(c) ==
  LET reserved == {s.ip_num : s \in {t \in Statics : t.mac = c}}
  IN IF reserved # {} THEN reserved ELSE IF FreeNum = {} THEN {NoNum} ELSE FreeNum

\* allocate_ip_num: a reserved number, or the first free one.  The handler
\* takes neither 255, the broadcast address, nor 256 for an answer.
AllocateNum(c) ==
  LET reserved == {s.ip_num : s \in {t \in Statics : t.mac = c}}
  IN (IF reserved # {} THEN reserved ELSE FreeNum) \ {255, NoNum}

\* dhcp_discover_handler.  The table is not changed: an offer holds nothing.
DiscoverOffer(m) ==
  /\ m \in net /\ m.type = "discover"
  /\ \E n \in AllocateNum(m.from) :
       net' = (net \ {m}) \cup {[type |-> "offer", to |-> m.from, num |-> n]}
  /\ UNCHANGED <<table, arp, hosts, now, history>>

\* There is no number to offer: nothing is sent.
DiscoverRefused(m) ==
  /\ m \in net /\ m.type = "discover"
  /\ AllocateNum(m.from) = {}
  /\ net' = net \ {m}
  /\ UNCHANGED <<table, arp, hosts, now, history>>

\* A renewal is always granted, anything else if the number was never given.
Granted(m) == m.renewal \/ ~table[m.num].first

Answer(m, type) == [type |-> type, to |-> m.from, num |-> m.num, at |-> m.at]

\* Faulty: a renewal does not move the end of the lease.
LeasedOnce(m) ==
  table' = IF table[m.num].first THEN table
           ELSE [table EXCEPT ![m.num] = [first |-> TRUE, second |-> now + LeaseTime]]

Leased(m) ==
  table' = [table EXCEPT ![m.num] = [first |-> TRUE, second |-> now + LeaseTime]]

\* Faulty: only a renewal is learnt from.
RequestUnlearnt(m) ==
  /\ m \in net /\ m.type = "request"
  /\ IF Granted(m) THEN Leased(m) ELSE UNCHANGED table
  /\ net' = (net \ {m}) \cup {Answer(m, IF Granted(m) THEN "ack" ELSE "nak")}
  /\ IF m.renewal THEN arp' = [arp EXCEPT ![m.num] = m.from] ELSE UNCHANGED arp
  /\ UNCHANGED <<hosts, now, history>>

\* dhcp_request_handler.  Granted or refused, the address is from now on
\* resolved to the host that asked.
Request(m) ==
  /\ m \in net /\ m.type = "request"
  /\ IF Granted(m) THEN Leased(m) ELSE UNCHANGED table
  /\ net' = (net \ {m}) \cup {Answer(m, IF Granted(m) THEN "ack" ELSE "nak")}
  /\ arp' = [arp EXCEPT ![m.num] = m.from]
  /\ UNCHANGED <<hosts, now, history>>

\* Faulty: the loop runs over the entries themselves, with its condition.
RefreshedInPlace ==
  [n \in Nums |-> IF table[n].first /\ table[n].second > now
                    THEN [table[n] EXCEPT !.first = FALSE] ELSE table[n]]

\* refresh_dhcp_entries clears the bits of copies of the entries.
Refreshed == table

Refresh == table' = Refreshed /\ UNCHANGED <<arp, net, hosts, now, history>>

-----------------------------------------------------------------------------
(***************************************************************************)
(* The hosts and the wire.                                                 *)
(***************************************************************************)
FramesOf(c) == {m \in net : IF m.type \in {"discover", "request"}
                             THEN m.from = c ELSE m.to = c}

Send(m) == Cardinality(net) < MaxFrames /\ net' = net \cup {m}

Ask(c, renewal, n) ==
  [type |-> "request", from |-> c, renewal |-> renewal, num |-> n, at |-> now]

ClientDiscover(c) ==
  /\ phase[c] = "init"
  /\ phase' = [phase EXCEPT ![c] = "selecting"]
  /\ Send([type |-> "discover", from |-> c])
  /\ UNCHANGED <<table, arp, addr, until, asked, now, history>>

\* A host that starts again asks for the address it remembers.
ClientReboot(c) ==
  /\ phase[c] \in {"init", "bound"} /\ addr[c] # NoNum
  /\ phase' = [phase EXCEPT ![c] = "requesting"]
  /\ asked' = [asked EXCEPT ![c] = now]
  /\ Send(Ask(c, FALSE, addr[c]))
  /\ UNCHANGED <<table, arp, addr, until, now, history>>

ClientSelect(c, m) ==
  /\ m \in net /\ m.type = "offer" /\ m.to = c
  /\ phase[c] = "selecting"
  /\ phase' = [phase EXCEPT ![c] = "requesting"]
  /\ addr' = [addr EXCEPT ![c] = m.num]
  /\ asked' = [asked EXCEPT ![c] = now]
  /\ net' = (net \ {m}) \cup {Ask(c, FALSE, m.num)}
  /\ UNCHANGED <<table, arp, until, now, history>>

ClientRenew(c) ==
  /\ phase[c] = "bound" /\ now < until[c]
  /\ phase' = [phase EXCEPT ![c] = "renewing"]
  /\ asked' = [asked EXCEPT ![c] = now]
  /\ Send(Ask(c, TRUE, addr[c]))
  /\ UNCHANGED <<table, arp, addr, until, now, history>>

\* An answer counts if it is to the host's latest request.
Awaited(c, m) == /\ m \in net /\ m.to = c /\ m.at = asked[c] /\ m.num = addr[c]
                 /\ phase[c] \in {"requesting", "renewing"}

ClientAck(c, m) ==
  /\ m \in net /\ m.type = "ack" /\ Awaited(c, m)
  /\ phase' = [phase EXCEPT ![c] = "bound"]
  /\ until' = [until EXCEPT ![c] = asked[c] + LeaseTime]
  /\ net' = net \ {m}
  /\ UNCHANGED <<table, arp, addr, asked, now, history>>

\* Once nothing of the time before a restart is on its way, a host that
\* starts over is like any other.
StartsOver(c, seen) ==
  /\ old' = IF FramesOf(c) \subseteq seen THEN old \ {c} ELSE old
  /\ UNCHANGED restarts

ClientNak(c, m) ==
  /\ m \in net /\ m.type = "nak" /\ Awaited(c, m)
  /\ phase' = [phase EXCEPT ![c] = "init"]
  /\ addr' = [addr EXCEPT ![c] = NoNum]
  /\ net' = net \ {m}
  /\ StartsOver(c, {m})
  /\ UNCHANGED <<table, arp, until, asked, now>>

\* No answer: the host starts over.  A lease that has ended is given up.
ClientTimeout(c) ==
  /\ \/ phase[c] \in {"selecting", "requesting"}
     \/ phase[c] \in {"bound", "renewing"} /\ now >= until[c]
  /\ phase' = [phase EXCEPT ![c] = "init"]
  /\ StartsOver(c, {})
  /\ UNCHANGED <<table, arp, net, addr, until, asked, now>>

Lose(m) ==
  /\ m \in net
  /\ net' = net \ {m}
  /\ UNCHANGED <<table, arp, hosts, now, history>>

Tick == now < MaxTime /\ now' = now + 1 /\ UNCHANGED <<table, arp, net, hosts, history>>

(***************************************************************************)
(* The router is restarted: nothing it knew is kept, and the hosts and the *)
(* frames on their way are as they were.                                   *)
(***************************************************************************)
BlankTable == [n \in Nums |-> [first |-> FALSE, second |-> 0]]

Restart ==
  /\ restarts < MaxRestarts /\ restarts' = restarts + 1
  /\ table' = BlankTable
  /\ arp' = [n \in Nums |-> NoMac]
  /\ old' = old \cup {c \in Clients : phase[c] # "init" \/ FramesOf(c) # {}}
  /\ UNCHANGED <<net, hosts, now>>

Router == Refresh \/ \E m \in net : DiscoverOffer(m) \/ DiscoverRefused(m) \/ Request(m)

Client(c) ==
  \/ ClientDiscover(c) \/ ClientReboot(c) \/ ClientRenew(c) \/ ClientTimeout(c)
  \/ \E m \in net : ClientSelect(c, m) \/ ClientAck(c, m) \/ ClientNak(c, m)

\* init_dhcp_table; hosts may remember an address from before a restart.
Init ==
  /\ table = BlankTable
  /\ arp = [n \in Nums |-> NoMac]
  /\ net = {}
  /\ phase = [c \in Clients |-> "init"]
  /\ addr \in [Clients -> (StartNum .. EndNum) \cup {NoNum}]
  /\ until = [c \in Clients |-> 0]
  /\ asked = [c \in Clients |-> 0]
  /\ now = 1
  /\ restarts = 0 /\ old = {}

Next == \/ Router
        \/ \E c \in Clients : Client(c)
        \/ \E m \in net : Lose(m)
        \/ Tick
        \/ Restart

Spec == Init /\ [][Next]_vars

-----------------------------------------------------------------------------
Holds(c) == phase[c] \in {"bound", "renewing"} /\ now < until[c]

(***************************************************************************)
(* Two hosts never use one address at a time, however their requests,      *)
(* renewals and reboots cross, are lost or arrive late.  A restart takes   *)
(* this from the hosts it interrupts until they have started over, and     *)
(* from no other.                                                          *)
(***************************************************************************)
UniqueLease ==
  \A c, d \in Clients \ old :
    Holds(c) /\ Holds(d) /\ addr[c] = addr[d] => c = d

(***************************************************************************)
(* The router never believes a lease to end before its holder does, also   *)
(* when renewals are delayed, lost or overtaken.                           *)
(***************************************************************************)
ServerOutlastsHolder ==
  \A c \in Clients \ old : Holds(c) =>
    table[addr[c]].first /\ table[addr[c]].second >= until[c]

(***************************************************************************)
(* A packet for a host that holds a lease never waits for an ARP reply:    *)
(* the router resolves the address, though possibly to another host, one   *)
(* that asked for it in vain.                                              *)
(***************************************************************************)
HolderResolved == \A c \in Clients \ old : Holds(c) => arp[addr[c]] # NoMac

-----------------------------------------------------------------------------
(***************************************************************************)
(* What the comments say and the code does not do.                         *)
(***************************************************************************)
\* dhcp.cpp:337, "ack: after checking the numbers that are left": a number
\* being offered is not one that is in use.
OfferedIsFree ==
  [][\A c, d \in Clients, n \in Nums :
       LET offer == [type |-> "offer", to |-> c, num |-> n]
       IN offer \in net' /\ offer \notin net /\ d \notin old /\ Holds(d) /\ addr[d] = n
            => c = d]_vars
=============================================================================
