------------------------------ MODULE Sessions ------------------------------
(***************************************************************************)
(* What the address translator promises, without its tables, bitmaps and   *)
(* clock: an external port belongs to at most one flow, a flow has at most *)
(* one external port, a recorded flow leaves with its own port only, and   *)
(* what arrives at a port is delivered to the flow that owns it.  Sessions *)
(* open when a flow sends and end at any time, those of permanent ports    *)
(* aside.                                                                  *)
(***************************************************************************)
EXTENDS Integers

CONSTANTS
  Flows,     \* records with a field proto
  Recorded,  \* the flows whose port is remembered
  Keys,      \* the external ports, as pairs of protocol and number
  Numbers,   \* every number a packet may carry
  Permanent, \* the ports that do not change hands
  Nobody     \* no flow

VARIABLES
  owner,   \* the flow each external port belongs to
  wire     \* the latest packet

vars == <<owner, wire>>

KeyOf(k, n) == <<k.proto, n>>

Packet(kind, k, n) == [kind |-> kind, flow |-> k, port |-> n]

TypeOK == owner \in [Keys -> Flows \cup {Nobody}]

\* Flow k leaves with the port it owns.
Use(k, n) == KeyOf(k, n) \in Keys /\ owner[KeyOf(k, n)] = k /\ UNCHANGED owner

\* A flow that owns no port gets one that nobody owns.
Open(k, n) ==
  /\ KeyOf(k, n) \in Keys
  /\ owner[KeyOf(k, n)] = Nobody
  /\ \A w \in Keys : owner[w] # k
  /\ owner' = [owner EXCEPT ![KeyOf(k, n)] = k]

\* There is no session: the flow is not recorded, or the packet carries a
\* number outside the table.
Stray(k, n) == (k \notin Recorded \/ KeyOf(k, n) \notin Keys) /\ UNCHANGED owner

Send(k, n) ==
  /\ wire' = Packet("out", k, n)
  /\ Use(k, n) \/ Open(k, n) \/ Stray(k, n)

\* A flow without a port gets none, and the packet goes on as it came.
Pass(k, n) ==
  /\ wire' = Packet("private", k, n)
  /\ \A w \in Keys : owner[w] # k
  /\ UNCHANGED owner

\* A packet from outside is for the owner of its port.
Deliver(w) ==
  /\ owner[w] # Nobody
  /\ wire' = Packet("in", owner[w], w[2])
  /\ UNCHANGED owner

\* A port nobody owns: the packet is the router's own, or it is lost.
Refuse(w) ==
  /\ owner[w] = Nobody
  /\ \E kind \in {"local", "in"} : wire' = Packet(kind, Nobody, w[2])
  /\ UNCHANGED owner

\* Sessions end; nothing is sent.
Close ==
  /\ \E ended \in SUBSET (Keys \ Permanent) :
       owner' = [w \in Keys |-> IF w \in ended THEN Nobody ELSE owner[w]]
  /\ UNCHANGED wire

\* A packet of no concern here.
Other == wire' = Packet("idle", Nobody, 0) /\ UNCHANGED owner

Init ==
  /\ owner \in [Keys -> Flows \cup {Nobody}]
  /\ \A v, w \in Keys : owner[v] = owner[w] /\ owner[v] # Nobody => v = w
  /\ wire = Packet("idle", Nobody, 0)

Next == \/ \E k \in Flows, n \in Numbers : Send(k, n) \/ Pass(k, n)
        \/ \E w \in Keys : Deliver(w) \/ Refuse(w)
        \/ Close
        \/ Other

Spec == Init /\ [][Next]_vars
=============================================================================
