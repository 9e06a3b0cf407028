------------------------------ MODULE Neighbor ------------------------------
(***************************************************************************)
(* Address resolution and sending: arp_read_handler (packet_read.cpp), the *)
(* ARP branch of the main loop (main.cpp), and eth_send_handler with its   *)
(* queues of packets whose next hop is unresolved (packet_send.cpp).       *)
(*                                                                         *)
(* A packet is a number in the order of acceptance with its next hop.      *)
(* Which hardware address an entry holds is left out; whether there is one *)
(* decides between sending and queueing, and no entry is ever removed.     *)
(***************************************************************************)
EXTENDS Integers, SequencesExt

CONSTANTS
  Hops,         \* the neighbours, by IP address
  LanHops,      \* those on the LAN side
  MaxPackets    \* bound on the packets accepted

ASSUME NeighborAssumption ==
  LanHops \subseteq Hops /\ MaxPackets \in Nat

Ifaces == {"lan", "wan", "lo"}

Side(h) == IF h \in LanHops THEN "lan" ELSE "wan"

VARIABLES
  resolved,   \* the keys of arp_table
  pending,    \* pending_packets
  probes,     \* ARP requests of the router on their way
  replies,    \* ARP replies on their way, with the interface they arrive on
  out,        \* history: the packets sent, in order, with the interface
  count,      \* packets accepted so far
  lost        \* history: the hops whose question or answer has been lost
              \* since a routed packet last joined their queue

vars == <<resolved, pending, probes, replies, out, count, lost>>

\* "held" records that a packet went through a queue.
Packet == [id : 1 .. MaxPackets, hop : Hops, kind : {"data", "answer"},
           held : BOOLEAN]

Frame == [packet : Packet, iface : Ifaces]

TypeOK ==
  /\ resolved \subseteq Hops
  /\ pending \in [Hops -> Seq(Packet)]
  /\ probes \subseteq Hops \X Ifaces
  /\ replies \subseteq Hops \X Ifaces
  /\ out \in Seq(Frame)
  /\ count \in 0 .. MaxPackets
  /\ lost \subseteq Hops

-----------------------------------------------------------------------------
\* Faulty: the packet that finds its hop unresolved is only asked for.
HoldDropped(p, iface) == UNCHANGED <<pending, lost>>

\* The packet joins the queue of its hop.
Hold(p, iface) ==
  /\ pending' = [pending EXCEPT ![p.hop] = Append(@, [p EXCEPT !.held = TRUE])]
  /\ lost' = IF iface = Side(p.hop) THEN lost \ {p.hop} ELSE lost

\* Faulty: the frame is sent without the interface of its route.
EthSendUnrouted(p, iface) ==
  \/ /\ p.hop \in resolved
     /\ out' = Append(out, [packet |-> p, iface |-> "none"])
     /\ UNCHANGED <<pending, probes, lost>>
  \/ /\ p.hop \notin resolved
     /\ Hold(p, iface)
     /\ probes' = probes \cup {<<p.hop, iface>>}
     /\ UNCHANGED out

\* Faulty: only the first packet of a queue asks for its hop.
EthSendAskOnce(p, iface) ==
  \/ /\ p.hop \in resolved
     /\ out' = Append(out, [packet |-> p, iface |-> iface])
     /\ UNCHANGED <<pending, probes, lost>>
  \/ /\ p.hop \notin resolved
     /\ Hold(p, iface)
     /\ probes' = IF pending[p.hop] = <<>> THEN probes \cup {<<p.hop, iface>>}
                  ELSE probes
     /\ UNCHANGED out

\* eth_send_handler: send to a resolved hop, queue and ask for any other.
EthSend(p, iface) ==
  \/ /\ p.hop \in resolved
     /\ out' = Append(out, [packet |-> p, iface |-> iface])
     /\ UNCHANGED <<pending, probes, lost>>
  \/ /\ p.hop \notin resolved
     /\ Hold(p, iface)
     /\ probes' = probes \cup {<<p.hop, iface>>}
     /\ UNCHANGED out

NextPacket(h, kind) == [id |-> count + 1, hop |-> h, kind |-> kind, held |-> FALSE]

\* An IPv4 packet that is routed to hop h.
Forward(h) ==
  /\ count < MaxPackets /\ count' = count + 1
  /\ EthSend(NextPacket(h, "data"), Side(h))
  /\ UNCHANGED <<resolved, replies>>

\* Neighbour h asks for the router's address.  The request is not learnt
\* from.  The interface of the answer is that of an address made of one byte
\* past the end of the request, where an earlier frame may have left any
\* value: the loopback's too.
AnswerRequest(h) ==
  /\ count < MaxPackets /\ count' = count + 1
  /\ \E iface \in Ifaces : EthSend(NextPacket(h, "answer"), iface)
  /\ UNCHANGED <<resolved, replies>>

\* A request for another address, and any other operation, is learnt from;
\* so is a DHCP request.  Packets that wait are left waiting.
Learn(h) ==
  /\ resolved' = resolved \cup {h}
  /\ UNCHANGED <<pending, probes, replies, out, count, lost>>

Frames(s, iface) == [i \in DOMAIN s |-> [packet |-> s[i], iface |-> iface]]

\* Faulty: the queue is emptied from its end.
FlushedReversed(h, iface) == Frames(Reverse(pending[h]), iface)

\* pending_packet_send_handler: everything, in order, on the interface the
\* reply came in on.
Flushed(h, iface) == Frames(pending[h], iface)

\* A frame of operation 2: learn, then flush the queue of its sender.
LearnAndFlush(h, iface) ==
  /\ resolved' = resolved \cup {h}
  /\ out' = out \o Flushed(h, iface)
  /\ pending' = [pending EXCEPT ![h] = <<>>]
  /\ UNCHANGED <<probes, count, lost>>

\* A reply to a request of the router.
ReceiveReply(h, iface) ==
  /\ <<h, iface>> \in replies
  /\ replies' = replies \ {<<h, iface>>}
  /\ LearnAndFlush(h, iface)

\* A reply nobody asked for: it is not told from one that was.
ReceiveAnnouncement(h) == LearnAndFlush(h, Side(h)) /\ UNCHANGED replies

(***************************************************************************)
(* The neighbours: one that hears a request for its address replies, and   *)
(* its reply comes in where the request went out.                          *)
(***************************************************************************)
Reply(h, iface) ==
  /\ <<h, iface>> \in probes
  /\ probes' = probes \ {<<h, iface>>}
  /\ replies' = IF iface = Side(h) THEN replies \cup {<<h, iface>>} ELSE replies
  /\ UNCHANGED <<resolved, pending, out, count, lost>>

LoseFrame(h, iface) ==
  /\ \/ <<h, iface>> \in probes /\ probes' = probes \ {<<h, iface>>} /\ UNCHANGED replies
     \/ <<h, iface>> \in replies /\ replies' = replies \ {<<h, iface>>} /\ UNCHANGED probes
  /\ lost' = IF iface = Side(h) THEN lost \cup {h} ELSE lost
  /\ UNCHANGED <<resolved, pending, out, count>>

Init ==
  /\ resolved = {}
  /\ pending = [h \in Hops |-> <<>>]
  /\ probes = {} /\ replies = {}
  /\ out = <<>>
  /\ count = 0
  /\ lost = {}

Next == \/ \E h \in Hops : \/ Forward(h) \/ AnswerRequest(h)
                            \/ Learn(h) \/ ReceiveAnnouncement(h)
        \/ \E h \in Hops, iface \in Ifaces :
              ReceiveReply(h, iface) \/ Reply(h, iface) \/ LoseFrame(h, iface)

Spec == Init /\ [][Next]_vars

\* Neighbours answer and the router reads what arrives.
Fairness == \A h \in Hops, iface \in Ifaces :
              WF_vars(ReceiveReply(h, iface)) /\ WF_vars(Reply(h, iface))

FairSpec == Spec /\ Fairness

-----------------------------------------------------------------------------
Waiting(h) == Range(pending[h])

(***************************************************************************)
(* No packet is lost in a queue, sent twice, or both sent and kept.        *)
(***************************************************************************)
Conserved ==
  \A n \in 1 .. count :
    LET times_sent == Cardinality({i \in DOMAIN out : out[i].packet.id = n})
        waiting == {q \in Hops \X (1 .. count) :
                      q[2] \in DOMAIN pending[q[1]] /\ pending[q[1]][q[2]].id = n}
    IN times_sent + Cardinality(waiting) = 1

(***************************************************************************)
(* Packets of one hop that were queued leave in the order they came.       *)
(***************************************************************************)
HeldInOrder ==
  \A i, j \in DOMAIN out :
    LET p == out[i].packet
        q == out[j].packet
    IN i < j /\ p.held /\ q.held /\ p.hop = q.hop => p.id < q.id

(***************************************************************************)
(* When a routed packet waits, its whole queue is sent in the end, even    *)
(* when its hop is resolved by other means in between.  A lost question or *)
(* answer is made good by the next routed packet that joins, which asks    *)
(* again; only a loss that no packet follows may leave the queue standing. *)
(***************************************************************************)
WaitingLeaves ==
  \A h \in Hops :
    (\E p \in Waiting(h) : p.kind = "data") ~> (pending[h] = <<>> \/ h \in lost)
=============================================================================
