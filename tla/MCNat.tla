------------------------------- MODULE MCNat -------------------------------
(***************************************************************************)
(* Instances of Nat for TLC: a pool of two ports, and flows of two hosts.  *)
(***************************************************************************)
EXTENDS NatImplements

CONSTANTS h1, h2

MCFlow(p, h, n) == [proto |-> p, ip |-> h, port |-> n]

\* Three TCP flows compete for two ports; h2 is also the target of a forward.
TcpFlows == {MCFlow("TCP", h1, 1), MCFlow("TCP", h1, 2), MCFlow("TCP", h2, 1)}

UdpFlows == {MCFlow("UDP", h1, 1)}

\* The target of a forward, sending.
ForwardedIcmp == {MCFlow("ICMP", h2, 1)}

\* The same host and port under every protocol, and two forwarded flows.
MixedFlows == {MCFlow(p, h1, 1) : p \in Protocols}
                \cup {MCFlow("UDP", h2, 1), MCFlow("ICMP", h2, 1)}

Forward(p, h, n, m) ==
  [ip |-> h, internal_port |-> n, external_port |-> m, protocol |-> p,
   last_updated |-> 0]

TcpForward == {Forward("TCP", h2, 2, 60)}
MixedForwards == {Forward("TCP", h2, 2, 60), Forward("UDP", h2, 1, 60),
                  Forward("ICMP", h2, 1, 60)}

BothOutcomes == {TRUE, FALSE}
PaddingZero == {TRUE}
=============================================================================
