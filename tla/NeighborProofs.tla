--------------------------- MODULE NeighborProofs ---------------------------
(***************************************************************************)
(* Proofs about Neighbor, for any neighbours and any number of packets.    *)
(*                                                                         *)
(* Held packets leave in order because a queue is sorted by the order of   *)
(* acceptance, everything accepted is younger than what is queued, and     *)
(* what has left through the queue of a hop is older than what is in it:   *)
(* that a reply empties the whole queue, and in order, is what keeps this. *)
(*                                                                         *)
(* No packet is lost because every number up to the latest has one place,  *)
(* in what has left or in one queue, and a step adds the next number or    *)
(* moves a whole queue.                                                    *)
(***************************************************************************)
EXTENDS Neighbor, SequenceTheorems, FiniteSetTheorems, TLAPS

QueueSorted == \A h \in Hops :
  /\ \A i \in DOMAIN pending[h] :
       pending[h][i].hop = h /\ pending[h][i].held /\ pending[h][i].id <= count
  /\ \A i, j \in DOMAIN pending[h] : i < j => pending[h][i].id < pending[h][j].id

SentAccepted == \A i \in DOMAIN out : out[i].packet.id <= count

LeftBefore == \A i \in DOMAIN out, h \in Hops : \A j \in DOMAIN pending[h] :
  out[i].packet.held /\ out[i].packet.hop = h
    => out[i].packet.id < pending[h][j].id

QueueInv == TypeOK /\ QueueSorted /\ SentAccepted /\ LeftBefore /\ HeldInOrder

-----------------------------------------------------------------------------
(***************************************************************************)
(* A packet the sender accepts: new, and not held yet.                     *)
(***************************************************************************)
Fresh(p) == p \in Packet /\ p.id = count + 1 /\ ~p.held

LEMMA NextPacketFresh ==
  ASSUME TypeOK, count < MaxPackets, NEW h \in Hops, NEW kind \in {"data", "answer"}
  PROVE  Fresh(NextPacket(h, kind)) /\ NextPacket(h, kind).hop = h
  BY NeighborAssumption DEF TypeOK, Fresh, NextPacket, Packet

(***************************************************************************)
(* eth_send_handler: whether sent or queued, a fresh packet keeps the      *)
(* order.                                                                  *)
(***************************************************************************)
LEMMA EthSendKeeps ==
  ASSUME QueueInv, count' = count + 1, count < MaxPackets,
         NEW p, Fresh(p), NEW iface \in Ifaces, EthSend(p, iface),
         UNCHANGED <<resolved, replies>>
  PROVE  QueueInv'
<1>t. /\ pending \in [Hops -> Seq(Packet)] /\ out \in Seq(Frame)
      /\ p \in Packet /\ p.id = count + 1 /\ ~p.held /\ p.hop \in Hops
      /\ count \in Nat /\ count' \in 0 .. MaxPackets
  <2>1. count \in 0 .. MaxPackets /\ MaxPackets \in Nat
    BY NeighborAssumption DEF QueueInv, TypeOK
  <2>2. p \in Packet /\ p.id = count + 1 /\ ~p.held /\ p.hop \in Hops
    BY DEF Fresh, Packet
  <2>3. pending \in [Hops -> Seq(Packet)] /\ out \in Seq(Frame)
    BY DEF QueueInv, TypeOK
  <2>4. QED
    BY <2>1, <2>2, <2>3
<1>n. ASSUME NEW i \in DOMAIN out PROVE out[i].packet.id \in Nat
  <2>1. out[i] \in Frame
    BY <1>t
  <2>2. out[i].packet \in Packet
    BY <2>1 DEF Frame
  <2>3. QED
    BY <2>2 DEF Packet
<1>q. ASSUME NEW h \in Hops, NEW i \in DOMAIN pending[h]
      PROVE  pending[h][i].id \in Nat
  <2>1. pending[h] \in Seq(Packet)
    BY <1>t
  <2>2. pending[h][i] \in Packet
    BY <2>1
  <2>3. QED
    BY <2>2 DEF Packet
<1>1. CASE p.hop \in resolved
  <2> DEFINE f == [packet |-> p, iface |-> iface]
  <2>1. out' = Append(out, f) /\ UNCHANGED <<pending, probes, lost>>
    BY <1>1 DEF EthSend
  <2>2. f \in Frame
    BY <1>t DEF Frame
  <2>3. /\ out' \in Seq(Frame) /\ Len(out') = Len(out) + 1
        /\ \A i \in 1 .. Len(out) : out'[i] = out[i]
        /\ out'[Len(out) + 1] = f
    BY <1>t, <2>1, <2>2, AppendProperties
  <2> HIDE DEF f
  <2>f. f.packet = p
    BY DEF f
  <2>4. ASSUME NEW i \in DOMAIN out', out'[i].packet.held
        PROVE  i \in DOMAIN out /\ out'[i] = out[i]
    BY <1>t, <2>3, <2>4, <2>f
  <2>5. TypeOK'
    BY <1>t, <2>1, <2>3 DEF QueueInv, TypeOK
  <2>6. QueueSorted'
    BY <1>t, <1>q, <2>1 DEF QueueInv, QueueSorted
  <2>7. SentAccepted'
    <3> SUFFICES ASSUME NEW i \in DOMAIN out' PROVE out'[i].packet.id <= count'
      BY DEF SentAccepted
    <3>1. CASE i \in DOMAIN out
      <4>1. out'[i] = out[i]
        BY <1>t, <2>3, <3>1
      <4>2. out[i].packet.id \in Nat /\ out[i].packet.id <= count
        BY <1>n, <3>1 DEF QueueInv, SentAccepted
      <4>3. QED
        BY <1>t, <4>1, <4>2
    <3>2. CASE i = Len(out) + 1
      BY <1>t, <2>3, <2>f, <3>2
    <3>3. QED
      BY <1>t, <2>3, <3>1, <3>2
  <2>8. LeftBefore'
    BY <2>1, <2>4 DEF QueueInv, LeftBefore
  <2>9. HeldInOrder'
    BY <2>4 DEF QueueInv, HeldInOrder
  <2>10. QED
    BY <2>5, <2>6, <2>7, <2>8, <2>9 DEF QueueInv
<1>2. CASE p.hop \notin resolved
  <2> DEFINE q == [p EXCEPT !.held = TRUE]
             g == p.hop
  <2>1. /\ pending' = [pending EXCEPT ![g] = Append(@, q)]
        /\ probes' = probes \cup {<<g, iface>>} /\ UNCHANGED out
        /\ lost' \subseteq lost
    BY <1>2 DEF EthSend, Hold
  <2>2. q \in Packet /\ q.id = count + 1 /\ q.held /\ q.hop = g
    BY <1>t DEF Packet
  <2>g. g \in Hops
    BY <1>t
  <2> HIDE DEF q, g
  <2>3. pending[g] \in Seq(Packet)
    BY <1>t, <2>g
  <2>4. /\ pending'[g] \in Seq(Packet) /\ Len(pending'[g]) = Len(pending[g]) + 1
        /\ \A i \in 1 .. Len(pending[g]) : pending'[g][i] = pending[g][i]
        /\ pending'[g][Len(pending[g]) + 1] = q
    BY <1>t, <2>1, <2>2, <2>3, <2>g, AppendProperties
  <2>5. \A h \in Hops \ {g} : pending'[h] = pending[h]
    BY <1>t, <2>1
  <2>6. TypeOK'
    <3>1. pending' \in [Hops -> Seq(Packet)]
      BY <1>t, <2>1, <2>4, <2>g
    <3>2. QED
      BY <1>t, <2>1, <2>g, <3>1 DEF QueueInv, TypeOK
  \* A queued packet is an old one, or the new one at the end.
  <2>7. ASSUME NEW h \in Hops, NEW i \in DOMAIN pending'[h]
        PROVE  \/ i \in DOMAIN pending[h] /\ pending'[h][i] = pending[h][i]
               \/ h = g /\ i = Len(pending[h]) + 1 /\ pending'[h][i] = q
    <3>1. CASE h = g
      BY <2>3, <2>4, <3>1
    <3>2. CASE h # g
      BY <2>5, <3>2
    <3>3. QED
      BY <3>1, <3>2
  <2>8. QueueSorted'
    <3> SUFFICES ASSUME NEW h \in Hops
                 PROVE  /\ \A i \in DOMAIN pending'[h] :
                             /\ pending'[h][i].hop = h /\ pending'[h][i].held
                             /\ pending'[h][i].id <= count'
                        /\ \A i, j \in DOMAIN pending'[h] :
                             i < j => pending'[h][i].id < pending'[h][j].id
      BY DEF QueueSorted
    <3>1. ASSUME NEW i \in DOMAIN pending'[h]
          PROVE  /\ pending'[h][i].hop = h /\ pending'[h][i].held
                 /\ pending'[h][i].id <= count'
      <4>1. CASE i \in DOMAIN pending[h] /\ pending'[h][i] = pending[h][i]
        <5>1. /\ pending[h][i].hop = h /\ pending[h][i].held
              /\ pending[h][i].id <= count
          BY <4>1 DEF QueueInv, QueueSorted
        <5>2. pending[h][i].id \in Nat
          BY <1>q, <4>1
        <5>3. QED
          BY <1>t, <4>1, <5>1, <5>2
      <4>2. CASE h = g /\ pending'[h][i] = q
        BY <1>t, <2>2, <4>2
      <4>3. QED
        BY <2>7, <4>1, <4>2
    <3>2. ASSUME NEW i \in DOMAIN pending'[h], NEW j \in DOMAIN pending'[h], i < j
          PROVE  pending'[h][i].id < pending'[h][j].id
      <4>1. i \in Nat /\ j \in Nat /\ pending[h] \in Seq(Packet)
            /\ pending'[h] \in Seq(Packet)
        BY <1>t, <2>4, <2>5
      <4>2. i \in DOMAIN pending[h] /\ pending'[h][i] = pending[h][i]
        <5>1. j <= Len(pending[h]) + 1
          BY <2>7, <4>1
        <5>2. i # Len(pending[h]) + 1
          BY <3>2, <4>1, <5>1
        <5>3. QED
          BY <2>7, <5>2
      <4>3. CASE j \in DOMAIN pending[h] /\ pending'[h][j] = pending[h][j]
        BY <3>2, <4>2, <4>3 DEF QueueInv, QueueSorted
      <4>4. CASE pending'[h][j] = q
        BY <1>t, <1>q, <2>2, <4>2, <4>4 DEF QueueInv, QueueSorted
      <4>5. QED
        BY <2>7, <4>3, <4>4
    <3>3. QED
      BY <3>1, <3>2
  <2>9. SentAccepted'
    BY <1>t, <1>n, <2>1 DEF QueueInv, SentAccepted
  <2>10. LeftBefore'
    <3> SUFFICES ASSUME NEW i \in DOMAIN out', NEW h \in Hops,
                        NEW j \in DOMAIN pending'[h],
                        out'[i].packet.held, out'[i].packet.hop = h
                 PROVE  out'[i].packet.id < pending'[h][j].id
      BY DEF LeftBefore
    <3>1. CASE j \in DOMAIN pending[h] /\ pending'[h][j] = pending[h][j]
      BY <2>1, <3>1 DEF QueueInv, LeftBefore
    <3>2. CASE pending'[h][j] = q
      <4>1. out'[i] = out[i] /\ i \in DOMAIN out
        BY <2>1
      <4>2. out[i].packet.id \in Nat /\ out[i].packet.id <= count
        BY <1>n, <4>1 DEF QueueInv, SentAccepted
      <4>3. QED
        BY <1>t, <2>2, <3>2, <4>1, <4>2
    <3>3. QED
      BY <2>7, <3>1, <3>2
  <2>11. HeldInOrder'
    BY <2>1 DEF QueueInv, HeldInOrder
  <2>12. QED
    BY <2>6, <2>8, <2>9, <2>10, <2>11 DEF QueueInv
<1>3. QED
  BY <1>1, <1>2

(***************************************************************************)
(* The effect of a flush on what has been sent.                            *)
(***************************************************************************)
LEMMA FlushEffect ==
  ASSUME TypeOK, NEW h \in Hops, NEW iface \in Ifaces, LearnAndFlush(h, iface)
  PROVE  /\ Len(out) \in Nat /\ Len(pending[h]) \in Nat
         /\ DOMAIN out = 1 .. Len(out) /\ DOMAIN pending[h] = 1 .. Len(pending[h])
         /\ out' \in Seq(Frame) /\ DOMAIN out' = 1 .. Len(out) + Len(pending[h])
         /\ \A i \in 1 .. Len(out) : out'[i] = out[i]
         /\ \A i \in 1 .. Len(pending[h]) : out'[Len(out) + i].packet = pending[h][i]
<1> DEFINE s == Flushed(h, iface)
<1>1. pending[h] \in Seq(Packet) /\ out \in Seq(Frame) /\ out' = out \o s
  BY DEF TypeOK, LearnAndFlush
<1>3. s = [i \in 1 .. Len(pending[h]) |-> [packet |-> pending[h][i], iface |-> iface]]
  BY <1>1 DEF Flushed, Frames
<1> HIDE DEF s
<1>4. \A i \in 1 .. Len(pending[h]) :
        [packet |-> pending[h][i], iface |-> iface] \in Frame
  BY <1>1 DEF Frame
<1>5. /\ s \in Seq(Frame) /\ Len(s) = Len(pending[h])
      /\ \A i \in 1 .. Len(s) : s[i].packet = pending[h][i]
  BY <1>1, <1>3, <1>4
<1>6. /\ out \o s \in Seq(Frame) /\ Len(out \o s) = Len(out) + Len(s)
      /\ \A i \in 1 .. Len(out) + Len(s) :
           (out \o s)[i] = IF i <= Len(out) THEN out[i] ELSE s[i - Len(out)]
  BY <1>1, <1>5, ConcatProperties
<1>7. ASSUME NEW i \in 1 .. Len(pending[h])
      PROVE  out'[Len(out) + i].packet = pending[h][i]
  <2>1. Len(out) + i \in 1 .. Len(out) + Len(s) /\ ~(Len(out) + i <= Len(out))
        /\ Len(out) + i - Len(out) = i
    BY <1>1, <1>5
  <2>2. QED
    BY <1>1, <1>5, <1>6, <2>1
<1>8. \A i \in 1 .. Len(out) : out'[i] = out[i]
  BY <1>1, <1>5, <1>6
<1>9. QED
  BY <1>1, <1>5, <1>6, <1>7, <1>8

(***************************************************************************)
(* A reply appends the whole queue of its hop, in order, and empties it.   *)
(***************************************************************************)
LEMMA FlushKeeps ==
  ASSUME QueueInv, NEW h \in Hops, NEW iface \in Ifaces, LearnAndFlush(h, iface),
         replies' \subseteq replies
  PROVE  QueueInv'
<1>t. /\ pending \in [Hops -> Seq(Packet)] /\ out \in Seq(Frame)
      /\ count \in Nat
  BY NeighborAssumption DEF QueueInv, TypeOK
<1>3. /\ pending' = [pending EXCEPT ![h] = <<>>]
      /\ UNCHANGED <<probes, count, lost>>
      /\ resolved' = resolved \cup {h}
  BY DEF LearnAndFlush
<1>4. /\ Len(out) \in Nat /\ Len(pending[h]) \in Nat
      /\ DOMAIN out = 1 .. Len(out) /\ DOMAIN pending[h] = 1 .. Len(pending[h])
      /\ out' \in Seq(Frame) /\ DOMAIN out' = 1 .. Len(out) + Len(pending[h])
      /\ \A i \in 1 .. Len(out) : out'[i] = out[i]
      /\ \A i \in 1 .. Len(pending[h]) : out'[Len(out) + i].packet = pending[h][i]
  BY FlushEffect DEF QueueInv
\* What is sent after the step was sent before it, or was in the queue.
<1>5. ASSUME NEW i \in DOMAIN out'
      PROVE  \/ i \in DOMAIN out /\ out'[i] = out[i]
             \/ /\ i \notin DOMAIN out /\ i - Len(out) \in DOMAIN pending[h]
                /\ out'[i].packet = pending[h][i - Len(out)]
  <2>1. CASE i <= Len(out)
    BY <1>4, <2>1
  <2>2. CASE ~(i <= Len(out))
    <3>1. /\ i - Len(out) \in 1 .. Len(pending[h]) /\ i = Len(out) + (i - Len(out))
          /\ i \notin DOMAIN out
      BY <1>4, <2>2
    <3>2. QED
      BY <1>4, <3>1
  <2>3. QED
    BY <2>1, <2>2
<1>6. pending'[h] = <<>> /\ \A g \in Hops \ {h} : pending'[g] = pending[g]
  BY <1>t, <1>3
<1>7. TypeOK'
  <2>1. pending' \in [Hops -> Seq(Packet)]
    BY <1>t, <1>3
  <2>2. QED
    BY <1>3, <1>4, <2>1 DEF QueueInv, TypeOK
<1>8. QueueSorted'
  <2> SUFFICES ASSUME NEW g \in Hops
               PROVE  /\ \A i \in DOMAIN pending'[g] :
                           /\ pending'[g][i].hop = g /\ pending'[g][i].held
                           /\ pending'[g][i].id <= count'
                      /\ \A i, j \in DOMAIN pending'[g] :
                           i < j => pending'[g][i].id < pending'[g][j].id
    BY DEF QueueSorted
  <2>1. CASE g = h
    BY <1>6, <2>1
  <2>2. CASE g # h
    BY <1>3, <1>6, <2>2 DEF QueueInv, QueueSorted
  <2>3. QED
    BY <2>1, <2>2
<1>9. SentAccepted'
  BY <1>3, <1>5 DEF QueueInv, SentAccepted, QueueSorted
<1>10. LeftBefore'
  <2> SUFFICES ASSUME NEW i \in DOMAIN out', NEW g \in Hops,
                      NEW j \in DOMAIN pending'[g],
                      out'[i].packet.held, out'[i].packet.hop = g
               PROVE  out'[i].packet.id < pending'[g][j].id
    BY DEF LeftBefore
  <2>1. g # h /\ pending'[g] = pending[g]
    BY <1>6
  <2>2. i \in DOMAIN out /\ out'[i] = out[i]
    BY <1>5, <2>1 DEF QueueInv, QueueSorted
  <2>3. QED
    BY <2>1, <2>2 DEF QueueInv, LeftBefore
<1>11. HeldInOrder'
  <2> SUFFICES ASSUME NEW i \in DOMAIN out', NEW j \in DOMAIN out', i < j,
                      out'[i].packet.held, out'[j].packet.held,
                      out'[i].packet.hop = out'[j].packet.hop
               PROVE  out'[i].packet.id < out'[j].packet.id
    BY DEF HeldInOrder
  <2>0. i \in Nat /\ j \in Nat /\ Len(out) \in Nat /\ DOMAIN out = 1 .. Len(out)
        /\ i >= 1 /\ j >= 1
    BY <1>t, <1>4
  <2>1. CASE i \in DOMAIN out /\ j \in DOMAIN out
    BY <1>5, <2>1 DEF QueueInv, HeldInOrder
  <2>2. CASE i \in DOMAIN out /\ j \notin DOMAIN out
    BY <1>5, <2>2 DEF QueueInv, LeftBefore, QueueSorted
  <2>3. CASE i \notin DOMAIN out /\ j \notin DOMAIN out
    <3>1. i - Len(out) < j - Len(out)
      BY <2>0
    <3>2. QED
      BY <1>5, <2>3, <3>1 DEF QueueInv, QueueSorted
  <2>4. CASE i \notin DOMAIN out /\ j \in DOMAIN out
    BY <2>0, <2>4
  <2>5. QED
    BY <2>1, <2>2, <2>3, <2>4
<1>12. QED
  BY <1>7, <1>8, <1>9, <1>10, <1>11 DEF QueueInv

(***************************************************************************)
(* The remaining steps leave the queues and what has been sent alone.      *)
(***************************************************************************)
LEMMA OthersKeep ==
  ASSUME QueueInv, UNCHANGED <<pending, out, count>>,
         resolved' \subseteq Hops, replies' \subseteq Hops \X Ifaces,
         probes' \subseteq Hops \X Ifaces, lost' \subseteq Hops
  PROVE  QueueInv'
  BY DEF QueueInv, TypeOK, QueueSorted, SentAccepted, LeftBefore, HeldInOrder

LEMMA QueueInit == Init => QueueInv
<1> SUFFICES ASSUME Init PROVE QueueInv
  OBVIOUS
<1>1. pending \in [Hops -> Seq(Packet)] /\ out \in Seq(Frame)
  BY DEF Init
<1>2. TypeOK
  <2>1. count \in 0 .. MaxPackets
    BY NeighborAssumption DEF Init
  <2>2. QED
    BY <1>1, <2>1 DEF Init, TypeOK
<1>3. out = <<>> /\ \A h \in Hops : pending[h] = <<>>
  BY DEF Init
<1>4. QED
  BY <1>2, <1>3
  DEF QueueInv, QueueSorted, SentAccepted, LeftBefore, HeldInOrder

LEMMA QueueNext == QueueInv /\ [Next]_vars => QueueInv'
<1> SUFFICES ASSUME QueueInv, [Next]_vars PROVE QueueInv'
  OBVIOUS
<1>t. /\ resolved \subseteq Hops /\ replies \subseteq Hops \X Ifaces
      /\ probes \subseteq Hops \X Ifaces /\ lost \subseteq Hops /\ TypeOK
  BY DEF QueueInv, TypeOK
<1>1. ASSUME NEW h \in Hops, Forward(h) PROVE QueueInv'
  <2>1. Side(h) \in Ifaces
    BY DEF Side, Ifaces
  <2>2. QED
    BY <1>1, <1>t, <2>1, NextPacketFresh, EthSendKeeps DEF Forward
<1>2. ASSUME NEW h \in Hops, AnswerRequest(h) PROVE QueueInv'
  BY <1>2, <1>t, NextPacketFresh, EthSendKeeps DEF AnswerRequest
<1>3. ASSUME NEW h \in Hops, Learn(h) PROVE QueueInv'
  BY <1>3, <1>t, OthersKeep DEF Learn
<1>4. ASSUME NEW h \in Hops, NEW iface \in Ifaces, ReceiveReply(h, iface) PROVE QueueInv'
  <2>1. replies' \subseteq replies
    BY <1>4 DEF ReceiveReply
  <2>2. QED
    BY <1>4, <2>1, FlushKeeps DEF ReceiveReply
<1>a. ASSUME NEW h \in Hops, ReceiveAnnouncement(h) PROVE QueueInv'
  <2>1. Side(h) \in Ifaces /\ replies' \subseteq replies
    BY <1>a DEF ReceiveAnnouncement, Side, Ifaces
  <2>2. QED
    BY <1>a, <2>1, FlushKeeps DEF ReceiveAnnouncement
<1>5. ASSUME NEW h \in Hops, NEW iface \in Ifaces, Reply(h, iface) PROVE QueueInv'
  BY <1>5, <1>t, OthersKeep DEF Reply
<1>6. ASSUME NEW h \in Hops, NEW iface \in Ifaces, LoseFrame(h, iface) PROVE QueueInv'
  BY <1>6, <1>t, OthersKeep DEF LoseFrame
<1>7. CASE UNCHANGED vars
  BY <1>7, <1>t, OthersKeep DEF vars
<1>8. QED
  BY <1>1, <1>2, <1>3, <1>4, <1>a, <1>5, <1>6, <1>7 DEF Next

(***************************************************************************)
(* The sender's state has its types.                                       *)
(***************************************************************************)
THEOREM TypeCorrect == Spec => []TypeOK
<1>1. QueueInv => TypeOK
  BY DEF QueueInv
<1>2. QED
  BY <1>1, QueueInit, QueueNext, PTL DEF Spec

(***************************************************************************)
(* Packets that waited for their hop leave in the order they came          *)
(* (packet_send.cpp:57), whatever is learnt, lost or answered in between.  *)
(***************************************************************************)
THEOREM HeldLeaveInOrder == Spec => []HeldInOrder
<1>1. QueueInv => HeldInOrder
  BY DEF QueueInv
<1>2. QED
  BY <1>1, QueueInit, QueueNext, PTL DEF Spec

-----------------------------------------------------------------------------
(***************************************************************************)
(* Every packet accepted so far is in exactly one place: it was sent, once, *)
(* or waits, at one position of one queue.  That no queue is longer than   *)
(* the packets accepted makes Conserved's bounded look at the queues enough.*)
(***************************************************************************)
Sent(n) == \E i \in DOMAIN out : out[i].packet.id = n

Waits(n) == \E h \in Hops : \E i \in DOMAIN pending[h] : pending[h][i].id = n

NoneLost == \A n \in 1 .. count : Sent(n) \/ Waits(n)

SentOnce == \A i, j \in DOMAIN out : out[i].packet.id = out[j].packet.id => i = j

QueuedOnce == \A g, h \in Hops :
  \A i \in DOMAIN pending[g], j \in DOMAIN pending[h] :
    pending[g][i].id = pending[h][j].id => g = h /\ i = j

SentOrQueued == \A i \in DOMAIN out, h \in Hops : \A j \in DOMAIN pending[h] :
  out[i].packet.id # pending[h][j].id

QueuesShort == \A h \in Hops : Len(pending[h]) <= count

PlaceInv ==
  QueueInv /\ NoneLost /\ SentOnce /\ QueuedOnce /\ SentOrQueued /\ QueuesShort

LEMMA PlaceInit == Init => PlaceInv
<1> SUFFICES ASSUME Init PROVE PlaceInv
  OBVIOUS
<1>1. QueueInv
  BY QueueInit
<1>2. out = <<>> /\ count = 0 /\ \A h \in Hops : pending[h] = <<>>
  BY DEF Init
<1>3. QED
  BY <1>1, <1>2
  DEF PlaceInv, NoneLost, SentOnce, QueuedOnce, SentOrQueued, QueuesShort

\* Numbers that have been given out are below the next one.
LEMMA OldNumbers ==
  ASSUME QueueInv
  PROVE  /\ count \in Nat
         /\ \A i \in DOMAIN out : out[i].packet.id # count + 1
         /\ \A h \in Hops : \A j \in DOMAIN pending[h] : pending[h][j].id # count + 1
<1>1. count \in Nat
  BY NeighborAssumption DEF QueueInv, TypeOK
<1>2. ASSUME NEW i \in DOMAIN out PROVE out[i].packet.id # count + 1
  BY <1>1 DEF QueueInv, SentAccepted
<1>3. ASSUME NEW h \in Hops, NEW j \in DOMAIN pending[h]
      PROVE  pending[h][j].id # count + 1
  BY <1>1 DEF QueueInv, QueueSorted
<1>4. QED
  BY <1>1, <1>2, <1>3

(***************************************************************************)
(* A fresh packet gets one place, and no other packet moves.               *)
(***************************************************************************)
LEMMA EthSendPlaces ==
  ASSUME PlaceInv, count' = count + 1, count < MaxPackets,
         NEW p, Fresh(p), NEW iface \in Ifaces, EthSend(p, iface),
         UNCHANGED <<resolved, replies>>
  PROVE  PlaceInv'
<1>q. QueueInv /\ QueueInv'
  BY EthSendKeeps DEF PlaceInv
<1>o. /\ count \in Nat
      /\ \A i \in DOMAIN out : out[i].packet.id # count + 1
      /\ \A h \in Hops : \A j \in DOMAIN pending[h] : pending[h][j].id # count + 1
  BY <1>q, OldNumbers
<1>t. /\ pending \in [Hops -> Seq(Packet)] /\ out \in Seq(Frame)
      /\ p \in Packet /\ p.id = count + 1 /\ p.hop \in Hops
      /\ \A h \in Hops : pending[h] \in Seq(Packet)
  BY <1>q DEF QueueInv, TypeOK, Fresh, Packet
<1>1. CASE p.hop \in resolved
  <2> DEFINE f == [packet |-> p, iface |-> iface]
  <2>1. out' = Append(out, f) /\ UNCHANGED pending
    BY <1>1 DEF EthSend
  <2>2. f \in Frame /\ f.packet = p
    BY <1>t DEF Frame
  <2> HIDE DEF f
  <2>3. /\ Len(out') = Len(out) + 1 /\ DOMAIN out = 1 .. Len(out)
        /\ DOMAIN out' = 1 .. Len(out) + 1 /\ Len(out) \in Nat
        /\ \A i \in DOMAIN out : out'[i] = out[i]
        /\ out'[Len(out) + 1] = f
    BY <1>t, <2>1, <2>2, AppendProperties
  <2>4. /\ \A i \in DOMAIN out' : i \in DOMAIN out \/ i = Len(out) + 1
        /\ \A i \in DOMAIN out : i \in DOMAIN out'
        /\ Len(out) + 1 \in DOMAIN out' /\ out'[Len(out) + 1].packet.id = count + 1
    BY <1>t, <2>2, <2>3
  <2>5. NoneLost'
    <3> SUFFICES ASSUME NEW n \in 1 .. count + 1 PROVE Sent(n)' \/ Waits(n)'
      BY DEF NoneLost
    <3>1. CASE n = count + 1
      BY <2>4, <3>1 DEF Sent
    <3>2. CASE n # count + 1
      <4>1. n \in 1 .. count
        BY <1>o, <3>2
      <4>2. QED
        BY <2>1, <2>3, <2>4, <4>1 DEF PlaceInv, NoneLost, Sent, Waits
    <3>3. QED
      BY <3>1, <3>2
  <2>6. SentOnce'
    BY <1>o, <2>3, <2>4 DEF PlaceInv, SentOnce
  <2>7. QueuedOnce'
    BY <2>1 DEF PlaceInv, QueuedOnce
  <2>8. SentOrQueued'
    BY <1>o, <2>1, <2>3, <2>4 DEF PlaceInv, SentOrQueued
  <2>9. QueuesShort'
    BY <1>o, <1>t, <2>1 DEF PlaceInv, QueuesShort
  <2>10. QED
    BY <1>q, <2>5, <2>6, <2>7, <2>8, <2>9 DEF PlaceInv
<1>2. CASE p.hop \notin resolved
  <2> DEFINE q == [p EXCEPT !.held = TRUE]
             g == p.hop
             last == Len(pending[g]) + 1
  <2>1. pending' = [pending EXCEPT ![g] = Append(@, q)] /\ UNCHANGED out
    BY <1>2 DEF EthSend, Hold
  <2>2. q \in Packet /\ q.id = count + 1 /\ g \in Hops /\ pending[g] \in Seq(Packet)
    BY <1>t DEF Packet
  <2> HIDE DEF q, g
  <2>3. /\ Len(pending'[g]) = last /\ DOMAIN pending[g] = 1 .. Len(pending[g])
        /\ DOMAIN pending'[g] = 1 .. last /\ Len(pending[g]) \in Nat
        /\ \A i \in DOMAIN pending[g] : pending'[g][i] = pending[g][i]
        /\ pending'[g][last] = q
    BY <1>t, <2>1, <2>2, AppendProperties
  <2>4. \A h \in Hops \ {g} : pending'[h] = pending[h]
    BY <1>t, <2>1
  <2> HIDE DEF last
  <2>5. ASSUME NEW h \in Hops, NEW i \in DOMAIN pending'[h]
        PROVE  \/ /\ i \in DOMAIN pending[h] /\ pending'[h][i] = pending[h][i]
                  /\ pending'[h][i].id # count + 1
               \/ h = g /\ i = last /\ pending'[h][i].id = count + 1
    <3>1. CASE h = g
      <4>1. i \in DOMAIN pending[g] \/ i = last
        BY <2>3, <3>1 DEF last
      <4>2. QED
        BY <1>o, <2>2, <2>3, <3>1, <4>1
    <3>2. CASE h # g
      BY <1>o, <2>4, <3>2
    <3>3. QED
      BY <3>1, <3>2
  <2>6. /\ \A h \in Hops : \A i \in DOMAIN pending[h] :
             i \in DOMAIN pending'[h] /\ pending'[h][i] = pending[h][i]
        /\ last \in DOMAIN pending'[g] /\ pending'[g][last].id = count + 1
    <3>1. ASSUME NEW h \in Hops, NEW i \in DOMAIN pending[h]
          PROVE  i \in DOMAIN pending'[h] /\ pending'[h][i] = pending[h][i]
      BY <2>3, <2>4 DEF last
    <3>2. QED
      BY <2>2, <2>3, <3>1 DEF last
  <2>7. NoneLost'
    <3> SUFFICES ASSUME NEW n \in 1 .. count + 1 PROVE Sent(n)' \/ Waits(n)'
      BY DEF NoneLost
    <3>1. CASE n = count + 1
      BY <2>2, <2>6, <3>1 DEF Waits
    <3>2. CASE n # count + 1
      <4>1. n \in 1 .. count
        BY <1>o, <3>2
      <4>2. QED
        BY <2>1, <2>6, <4>1 DEF PlaceInv, NoneLost, Sent, Waits
    <3>3. QED
      BY <3>1, <3>2
  <2>8. SentOnce'
    BY <2>1 DEF PlaceInv, SentOnce
  <2>9. QueuedOnce'
    BY <2>5 DEF PlaceInv, QueuedOnce
  <2>10. SentOrQueued'
    BY <1>o, <2>1, <2>5 DEF PlaceInv, SentOrQueued
  <2>11. QueuesShort'
    <3> SUFFICES ASSUME NEW h \in Hops PROVE Len(pending'[h]) <= count + 1
      BY DEF QueuesShort
    <3>1. Len(pending[h]) <= count /\ Len(pending[h]) \in Nat
      BY <1>t DEF PlaceInv, QueuesShort
    <3>2. QED
      BY <1>o, <2>3, <2>4, <3>1 DEF last
  <2>12. QED
    BY <1>q, <2>7, <2>8, <2>9, <2>10, <2>11 DEF PlaceInv
<1>3. QED
  BY <1>1, <1>2

(***************************************************************************)
(* What was in the queue is at the end of what was sent, and only there.   *)
(***************************************************************************)
LEMMA FlushPlaces ==
  ASSUME PlaceInv, NEW h \in Hops, NEW iface \in Ifaces, LearnAndFlush(h, iface),
         replies' \subseteq replies
  PROVE  PlaceInv'
<1>q. QueueInv /\ QueueInv'
  BY FlushKeeps DEF PlaceInv
<1>t. /\ pending \in [Hops -> Seq(Packet)] /\ out \in Seq(Frame) /\ count \in Nat
  BY <1>q, NeighborAssumption DEF QueueInv, TypeOK
<1> DEFINE k == Len(out)
<1>1. /\ k \in Nat /\ Len(pending[h]) \in Nat
      /\ DOMAIN out = 1 .. k /\ DOMAIN pending[h] = 1 .. Len(pending[h])
      /\ DOMAIN out' = 1 .. k + Len(pending[h])
      /\ \A i \in 1 .. k : out'[i] = out[i]
      /\ \A i \in 1 .. Len(pending[h]) : out'[k + i].packet = pending[h][i]
  BY FlushEffect, <1>q DEF QueueInv
<1>2. UNCHANGED count /\ pending' = [pending EXCEPT ![h] = <<>>]
  BY DEF LearnAndFlush
<1>3. pending'[h] = <<>> /\ \A g \in Hops \ {h} : pending'[g] = pending[g]
  BY <1>t, <1>2
<1> HIDE DEF k
<1>4. ASSUME NEW i \in DOMAIN out'
      PROVE  \/ i \in DOMAIN out /\ out'[i] = out[i]
             \/ i - k \in DOMAIN pending[h] /\ out'[i].packet = pending[h][i - k]
  <2>1. CASE i <= k
    BY <1>1, <2>1
  <2>2. CASE ~(i <= k)
    <3>1. i - k \in 1 .. Len(pending[h]) /\ i = k + (i - k)
      BY <1>1, <2>2
    <3>2. QED
      BY <1>1, <3>1
  <2>3. QED
    BY <2>1, <2>2
<1>5. NoneLost'
  <2> SUFFICES ASSUME NEW n \in 1 .. count PROVE Sent(n)' \/ Waits(n)'
    BY <1>2 DEF NoneLost
  <2>1. CASE Sent(n)
    <3>1. PICK i \in DOMAIN out : out[i].packet.id = n
      BY <2>1 DEF Sent
    <3>2. i \in DOMAIN out' /\ out'[i] = out[i]
      BY <1>1
    <3>3. QED
      BY <3>1, <3>2 DEF Sent
  <2>2. CASE Waits(n)
    <3>1. PICK g \in Hops : \E i \in DOMAIN pending[g] : pending[g][i].id = n
      BY <2>2 DEF Waits
    <3>2. PICK i \in DOMAIN pending[g] : pending[g][i].id = n
      BY <3>1
    <3>3. CASE g = h
      <4>1. k + i \in DOMAIN out' /\ out'[k + i].packet = pending[h][i]
        BY <1>1, <3>3
      <4>2. QED
        BY <3>2, <3>3, <4>1 DEF Sent
    <3>4. CASE g # h
      BY <1>3, <3>2, <3>4 DEF Waits
    <3>5. QED
      BY <3>3, <3>4
  <2>3. QED
    BY <2>1, <2>2 DEF PlaceInv, NoneLost
<1>6. SentOnce'
  <2> SUFFICES ASSUME NEW i \in DOMAIN out', NEW j \in DOMAIN out',
                      out'[i].packet.id = out'[j].packet.id
               PROVE  i = j
    BY DEF SentOnce
  <2>1. CASE i - k \in DOMAIN pending[h] /\ out'[i].packet = pending[h][i - k]
    <3>1. CASE j - k \in DOMAIN pending[h] /\ out'[j].packet = pending[h][j - k]
      <4>1. i - k = j - k
        BY <2>1, <3>1 DEF PlaceInv, QueuedOnce
      <4>2. QED
        BY <1>1, <4>1
    <3>2. QED
      BY <1>4, <2>1, <3>1 DEF PlaceInv, SentOrQueued
  <2>2. CASE i \in DOMAIN out /\ out'[i] = out[i]
    BY <1>4, <2>2 DEF PlaceInv, SentOnce, SentOrQueued
  <2>3. QED
    BY <1>4, <2>1, <2>2
<1>7. QueuedOnce'
  BY <1>3 DEF PlaceInv, QueuedOnce
<1>8. SentOrQueued'
  <2> SUFFICES ASSUME NEW i \in DOMAIN out', NEW g \in Hops,
                      NEW j \in DOMAIN pending'[g]
               PROVE  out'[i].packet.id # pending'[g][j].id
    BY DEF SentOrQueued
  <2>1. g # h /\ j \in DOMAIN pending[g] /\ pending'[g] = pending[g]
    BY <1>3
  <2>2. QED
    BY <1>4, <2>1 DEF PlaceInv, SentOrQueued, QueuedOnce
<1>9. QueuesShort'
  <2> SUFFICES ASSUME NEW g \in Hops PROVE Len(pending'[g]) <= count
    BY <1>2 DEF QueuesShort
  <2>1. Len(<<>>) = 0
    OBVIOUS
  <2>2. QED
    BY <1>t, <1>3, <2>1 DEF PlaceInv, QueuesShort
<1>10. QED
  BY <1>q, <1>5, <1>6, <1>7, <1>8, <1>9 DEF PlaceInv

LEMMA PlaceNext == PlaceInv /\ [Next]_vars => PlaceInv'
<1> SUFFICES ASSUME PlaceInv, [Next]_vars PROVE PlaceInv'
  OBVIOUS
<1>q. QueueInv /\ TypeOK
  BY DEF PlaceInv, QueueInv
<1>u. ASSUME UNCHANGED <<pending, out, count>> PROVE PlaceInv'
  <2>1. QueueInv'
    BY <1>q, QueueNext
  <2>2. QED
    BY <1>u, <2>1 DEF PlaceInv, NoneLost, Sent, Waits, SentOnce, QueuedOnce,
                      SentOrQueued, QueuesShort
<1>1. ASSUME NEW h \in Hops, Forward(h) PROVE PlaceInv'
  <2>1. Side(h) \in Ifaces
    BY DEF Side, Ifaces
  <2>2. QED
    BY <1>1, <1>q, <2>1, NextPacketFresh, EthSendPlaces DEF Forward
<1>2. ASSUME NEW h \in Hops, AnswerRequest(h) PROVE PlaceInv'
  BY <1>2, <1>q, NextPacketFresh, EthSendPlaces DEF AnswerRequest
<1>3. ASSUME NEW h \in Hops, Learn(h) PROVE PlaceInv'
  BY <1>3, <1>u DEF Learn
<1>4. ASSUME NEW h \in Hops, NEW iface \in Ifaces, ReceiveReply(h, iface) PROVE PlaceInv'
  <2>1. replies' \subseteq replies
    BY <1>4 DEF ReceiveReply
  <2>2. QED
    BY <1>4, <2>1, FlushPlaces DEF ReceiveReply
<1>a. ASSUME NEW h \in Hops, ReceiveAnnouncement(h) PROVE PlaceInv'
  <2>1. Side(h) \in Ifaces /\ replies' \subseteq replies
    BY <1>a DEF ReceiveAnnouncement, Side, Ifaces
  <2>2. QED
    BY <1>a, <2>1, FlushPlaces DEF ReceiveAnnouncement
<1>5. ASSUME NEW h \in Hops, NEW iface \in Ifaces, Reply(h, iface) PROVE PlaceInv'
  BY <1>5, <1>u DEF Reply
<1>6. ASSUME NEW h \in Hops, NEW iface \in Ifaces, LoseFrame(h, iface) PROVE PlaceInv'
  BY <1>6, <1>u DEF LoseFrame
<1>7. CASE UNCHANGED vars
  BY <1>7, <1>u DEF vars
<1>8. QED
  BY <1>1, <1>2, <1>3, <1>4, <1>a, <1>5, <1>6, <1>7 DEF Next

(***************************************************************************)
(* One place for every packet is what counting the places comes to.        *)
(***************************************************************************)
LEMMA OnePlace == PlaceInv => Conserved
<1> DEFINE A(n) == {i \in DOMAIN out : out[i].packet.id = n}
           B(n) == {q \in Hops \X (1 .. count) :
                      q[2] \in DOMAIN pending[q[1]] /\ pending[q[1]][q[2]].id = n}
<1> SUFFICES ASSUME PlaceInv, NEW n \in 1 .. count
             PROVE  Cardinality(A(n)) + Cardinality(B(n)) = 1
  BY DEF Conserved
<1>1. CASE Sent(n)
  <2>1. PICK i \in DOMAIN out : out[i].packet.id = n
    BY <1>1 DEF Sent
  <2>2. A(n) = {i}
    BY <2>1 DEF PlaceInv, SentOnce
  <2>3. B(n) = {}
    BY <2>1 DEF PlaceInv, SentOrQueued
  <2>4. Cardinality(A(n)) = 1 /\ Cardinality(B(n)) = 0
    BY <2>2, <2>3, FS_EmptySet, FS_Singleton
  <2>5. QED
    BY <2>4
<1>2. CASE ~Sent(n)
  <2>1. A(n) = {}
    BY <1>2 DEF Sent
  <2>2. PICK h \in Hops : \E i \in DOMAIN pending[h] : pending[h][i].id = n
    BY <1>2 DEF PlaceInv, NoneLost, Waits
  <2>3. PICK i \in DOMAIN pending[h] : pending[h][i].id = n
    BY <2>2
  <2>4. i \in 1 .. count
    <3>1. /\ pending[h] \in Seq(Packet) /\ Len(pending[h]) <= count /\ count \in Nat
      BY NeighborAssumption DEF PlaceInv, QueueInv, TypeOK, QueuesShort
    <3>2. QED
      BY <3>1
  <2>5. B(n) = {<<h, i>>}
    <3>1. <<h, i>> \in B(n)
      BY <2>3, <2>4
    <3>2. ASSUME NEW q \in B(n) PROVE q = <<h, i>>
      BY <2>3 DEF PlaceInv, QueuedOnce
    <3>3. QED
      BY <3>1, <3>2
  <2>6. Cardinality(A(n)) = 0 /\ Cardinality(B(n)) = 1
    BY <2>1, <2>5, FS_EmptySet, FS_Singleton
  <2>7. QED
    BY <2>6
<1>3. QED
  BY <1>1, <1>2

(***************************************************************************)
(* Every packet the sender accepts is sent once or still waits             *)
(* (packet_send.cpp:57-91 and 107-155), for any number of packets and      *)
(* neighbours and whatever is learnt, lost or answered in between.         *)
(***************************************************************************)
THEOREM PacketsConserved == Spec => []Conserved
  BY PlaceInit, PlaceNext, OnePlace, PTL DEF Spec
=============================================================================
