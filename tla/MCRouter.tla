------------------------------ MODULE MCRouter ------------------------------
(***************************************************************************)
(* An instance of Router for TLC: two LAN hosts, one of them on the block  *)
(* list and with two forwards, a gateway and a server behind it.           *)
(***************************************************************************)
EXTENDS Router

CONSTANTS zero, lanip, wanip, gateway, h1, h2, deep, server, everyone, group, self

MCLanLink == {lanip, h1, h2}
MCWanLink == {wanip, gateway}
\* deep is an address of 10.0.0.0/8 outside the LAN.
MCPrivate == MCLanLink \cup {deep}
MCElsewhere == {server, everyone}

P(proto, src, dst, sport, dport, ttl) ==
  [proto |-> proto, src |-> src, dst |-> dst, sport |-> sport, dport |-> dport,
   ttl |-> ttl]

\* Packets of every fate.
MCInputs ==
  {P("TCP", h1, server, 5, 80, 64),         \* translated, and its answer
   P("TCP", server, wanip, 80, 1, 64),
   P("TCP", server, wanip, 80, 60, 64),     \* to the forwards
   P("ICMP", server, wanip, 61, 61, 64),
   P("UDP", h1, server, 5, 53, 64),         \* translated, not remembered
   P("UDP", server, wanip, 17152, 60, 64),  \* from the port that looks like 67
   P("UDP", zero, everyone, 68, 67, 64),    \* to the address server
   P("UDP", zero, everyone, 17152, 67, 64),
   P("ICMP", h1, server, 5, 5, 1),          \* out of time
   P("UDP", h1, group, 5, 5, 64),           \* multicast
   P("TCP", h1, h2, 5, 5, 64),              \* within the LAN
   P("TCP", h1, deep, 5, 5, 64),            \* private, but not on the LAN
   P("other", h1, server, 0, 0, 64),
   P("other", server, wanip, 0, 0, 64),     \* to the router itself
   P("TCP", h1, wanip, 5, 60, 64)}          \* the forward, from inside

K(proto, ip, port) == [proto |-> proto, ip |-> ip, port |-> port]

MCFlows == {K("TCP", h1, 5), K("UDP", h1, 5), K("TCP", h2, 80), K("ICMP", h1, 5),
            K("ICMP", h2, 7)}
MCForwards == {[flow |-> K("TCP", h2, 80), port |-> 60],
               [flow |-> K("ICMP", h2, 7), port |-> 61]}
MCKeys == {<<"TCP", 1>>, <<"TCP", 60>>, <<"ICMP", 61>>, <<"UDP", 60>>}
MCNobody == K("none", zero, 0)
MCBlockList == <<h2>>

\* One packet that is refused, and one of the host on the block list.
ExpiredInputs == {P("ICMP", h1, server, 5, 5, 1)}
BlockedInputs == {P("TCP", h2, server, 80, 80, 64)}
=============================================================================
