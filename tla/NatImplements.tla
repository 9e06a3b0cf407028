--------------------------- MODULE NatImplements ----------------------------
(***************************************************************************)
(* The translator implements Sessions: the owner of an external port is    *)
(* the flow of its entry in wan_to_lan_table; bitmaps, times and the other *)
(* table are forgotten.                                                    *)
(***************************************************************************)
EXTENDS Nat

\* Where the ICMP scan goes past its bitmap it finds no forwarded port; with
\* the ports of config.json it does not.
ASSUME ScanAssumption ==
  \A f \in Forwards : f.external_port - PortBase \notin BitmapBits .. IcmpScan - 1

\* Port 0 is what a misread miss writes; it is nobody's.
PortKeys == {w \in WanKey : w[1] # "none" /\ w[2] # 0}

Numbers == {0} \cup IntPorts \cup ExternalPorts
             \cup {PortBase + i : i \in 0 .. IcmpScan - 1}

Nobody == FlowOf(VoidEntry)

Owner == [w \in PortKeys |->
            IF wan_to_lan[w] = NoEntry THEN Nobody ELSE FlowOf(wan_to_lan[w])]

Latest == [kind |-> wire.kind, flow |-> wire.flow, port |-> wire.port]

\* The forwards the sweep passes over.  The handler of ICMP stamps its own.
Lasting == {f \in Forwards : f.protocol # "ICMP"}

S == INSTANCE Sessions WITH
       Flows <- Flow, Recorded <- {k \in Flow : k.proto # "UDP"},
       Keys <- PortKeys, Numbers <- Numbers, Nobody <- Nobody,
       Permanent <- {WanKeyOf(f) : f \in Lasting},
       owner <- Owner, wire <- Latest

(***************************************************************************)
(* Every behaviour of the translator is one of Sessions: two tables, three *)
(* bitmaps and a sweep, with ports reused and misses misread, look like    *)
(* one map from ports to flows that opens and closes in single steps, and  *)
(* in which TCP and UDP forwards stay.                                     *)
(***************************************************************************)
ImplementsSessions == S!Spec
=============================================================================
