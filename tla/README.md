# Verification of the home router

This directory holds TLA+ models of the router in `src/`: a user-space program
that reads every frame from a raw socket, translates addresses between a LAN
(10.0.0.0/24) and a WAN, leases addresses to the LAN, resolves hardware
addresses and sends frames on. The models are checked with TLC, and theorems
about the translator, the address server, the sender, boot and routing, and the
checksums are proved with TLAPS: every safety property that a passing run checks, one
control (`OfferedIsFree` for a range that starts at 0) aside.

Line numbers refer to the files in `src/include/` unless they say otherwise.

## 1. Inventory

The program is one process with one thread. Its state is the singleton
`router_info` (router_info.h:48-132). `main` (src/main.cpp:127-224) initialises it
and then loops: at most every ten seconds housekeeping, then a blocking
`recvfrom`, then the handlers of that frame, which run to completion. Nothing
interleaves with a handler. What interleaves with the *sequence* of handlers are
the clock, the order in which hosts send, restarts, and the link, which loses,
delays and repeats frames.

| component | code | state | operations | interacts with | module |
|---|---|---|---|---|---|
| NAT sessions | nat.cpp:86-399 | `lan_to_wan_table`, `wan_to_lan_table` | outbound and inbound handler, refresh of an entry, sweep | called by the IPv4 dispatch and the main loop; filled by the configuration; uses the allocators | `Nat` |
| port allocators | nat.cpp:37-84 | three bitmaps of 2501 bytes, three scan positions | allocate; the sweep clears bits; `free_*` exist and are not called | NAT | `Nat` |
| address server | dhcp.cpp | `allocated_dhcp_ip_table` (256 entries), static addresses, range, lease time | discover, request, refresh | called by the IPv4 dispatch and the main loop; writes `arp_table` | `Dhcp` |
| address resolution | packet_read.cpp:206-261 | `arp_table` | request, reply, any other operation | flushes the send queues | `Neighbor` |
| sending | packet_send.cpp | `pending_packets`, MAC addresses | send or hold, flush, DHCP reply | reads `arp_table`, writes `pending_packets` | `Neighbor` |
| main loop | src/main.cpp:127-224 | time of the last housekeeping | housekeeping, dispatch by frame type, hand-over of the next hop | everything | `Router`, `Nat` |
| IPv4 dispatch, drop check | packet_read.cpp:25-204 | none | drop check; DHCP, outbound, inbound, local, forwarded | firewall, NAT, routing, DHCP | `Router` |
| firewall | firewall.cpp | `firewall_table` | append, clear, first match | drop check, boot | `Router` |
| routing | route.cpp | `routing_table` | build and sort at boot, lookup | dispatch, main loop | `Router` |
| boot, configuration | router_info.cpp, src/main.cpp:67-109 | everything above | order of the init functions, `load_config` | everything | `Router` |
| checksums | common.cpp:143-212 | none | IP, TCP, UDP, ICMP | NAT, dispatch, DHCP | `Checksum` |
| logging, access point, JSON | common.cpp, router_info.cpp, setup_network.sh, json.hpp | none of the protocol | output and system commands | - | - |

### Hard behaviours and what makes each part correct

* **NAT.** One entry lives in two tables and in a bit of a bitmap; the sweep walks
  one table and erases from all three. Ports wrap round and are reused. A lookup
  that misses returns a *copy* of an empty entry whose padding is unset, and the
  callers compare with `memcmp`, padding included. Some branches write the entry
  back and some only stamp the copy. Correct means: the tables describe the same
  sessions, a live session's port is never given to another flow, ports are not
  lost, an answer finds the flow that asked or nobody, configured forwards stay, sessions
  end when and only when they are idle. (Active TCP sessions and ICMP forwards end too: section 4.)
* **Address server.** Hosts ask, renew, reboot and retry over a link that loses and
  delays, and the router forgets its table when it restarts; leases must be
  exclusive while hosts use them, and a restart may harm only those it interrupts.
* **Resolution and sending.** Packets wait for a reply that may be lost, or their hop
  may be learnt in another way meanwhile: nothing may be lost or sent twice, order
  per hop should hold, what waits must leave.
* **Boot.** The order of the init functions decides what survives of the configuration.
* **Dispatch.** Next hop 0 stands for "nothing to send" as well as for an address. The next
  hop is looked up inside the handler and the interface after it, from a buffer the
  translator has rewritten in between.
* **Checksums.** Words are added in the host's byte order and checked in the network's,
  and the last odd byte is added apart.

PROJECT.json lists these hazards with their lines and the properties that cover them.

## 2. Plan

| step | modules | status |
|---|---|---|
| 1. translator, allocators, sweep, clock; its inductive invariant | `Nat`, `NatProofs` | done |
| 2. address server with hosts and a lossy link | `Dhcp` | done |
| 3. resolution, queues, sending | `Neighbor` | done |
| 4. abstract translator and the refinement | `Sessions`, `NatImplements`, `SessionProofs` | done |
| 5. restart of the address server; its proofs | `Dhcp`, `DhcpProofs` | done |
| 6. order of the held packets, proved | `NeighborProofs` | done |
| 7. dispatch, firewall, routing, boot and restart, composed with the sender and the abstract translator; forwards survive boot, proved | `Router`, `RouterProofs` | done |
| 8. the one's complement sum | `Checksum` | done |
| 9. conservation in the queues (`Conserved`), proved | `NeighborProofs` | done |
| 10. types, `RouteMostSpecific`, `ForwardedHasHop` and `SideMatchesHop`, proved | `RouterProofs` | done |
| 11. the checksums, proved for bytes of any width and segments of any length | `ChecksumProofs` | done |
| 12. an abstract lease table implemented by `Dhcp` | - | open |

A first look at step 12 gave nothing that
`UniqueLease` and `ServerOutlastsHolder` do not say: the table has no state that the
abstraction could forget.

Runs stay within three minutes each: two hosts, one to three ports or numbers, a clock
of a few seconds. Theorems carry the results to all sizes.

## 3. Modules

`MCNat`, `MCDhcp`, `MCNeighbor`, `MCRouter` and `MCChecksum` give the constants of an
instance.

### Nat

| TLA+ | code |
|---|---|
| `lan_to_wan`, `wan_to_lan` | the two maps; `NoEntry` is "no such key" |
| `used[p]`, `last[p]` | bitmap and scan position of protocol p, as indexes from `PortBase` |
| `now`, `last_cleanup`, `loop` | `time(NULL)`, `last_cleanup_time`, before housekeeping or in `recvfrom` |
| `overrun` | a bitmap was indexed beyond its end |
| `wire` | history: what the last frame became |
| `OutboundHit`, `OutboundNew`, `OutboundShort`, `OutboundMisread` | `nat_outbound_handler`: session found; port allocated; no port; miss taken for a hit |
| `InboundHit`, `InboundMiss`, `InboundMisread` | `nat_inbound_handler` |
| `Sweep`, `SkipSweep` | housekeeping at main.cpp:143-152, `cleanup_expired_nat_entries` |
| `OtherFrame`, `Tick` | a frame the translator does not see; the clock |
| `Init` | `init_nat_table` and the port_forward loop of `load_config` |

One action is one pass through (half of) the loop body; a handler is atomic because the
program is. Decisions worth knowing:

* **Unset padding.** `NAT_TABLE_ENTRY` has padding bytes, and `memcmp` with `void_entry`
  reads them. Whether a miss is seen as one is therefore a choice, `MissTest`. Runs
  that pass take both outcomes; runs that show a divergence take only the intended one, so
  that the divergence does not rest on the padding.
* **Overrun.** `allocate_icmp_port` scans 40000 indexes of a bitmap of 20008 bits. Writing
  outside the bitmap changes other members of `router_info` in a way that depends on
  layout; the model records it and stops (`Next` has `~overrun`). `nat_mixed` reaches it
  and switches off deadlock checking because it stops there.
* **Forwards.** `ForwardAssumption` says what `load_config` does not check and
  `config.json` satisfies: forwarded ports lie outside the pool and are distinct.
* **Time.** The loop's `current_time` and the `time(NULL)` inside the sweep are taken to be
  the same second. Zero is excluded as a time, since it marks forwards.
* **UDP.** Its branch takes a port and does not call `update_nat_table`; the model does the same.

`ExternalPorts` includes the bits between `PoolSize` and `BitmapBits`, because the ICMP
allocator hands them out.

### Sessions, NatImplements

`Sessions` is what a user of the translator may rely on: one map from external ports to
flows. A flow opens a port nobody owns, or goes on with its own, or its packet is a stray
(unrecorded protocol, or a number outside the table); what arrives at a port is delivered
to its owner; sessions end, one or many at once. `NatImplements` maps `Nat` to it: the owner
of a port is the flow of its entry in `wan_to_lan_table`, and the other table, the bitmaps, the
times and the scan positions are forgotten. `Sessions` promises one more thing: ports in
`Permanent` do not close. `NatImplements` puts the TCP and UDP forwards there (`Lasting`), not the ICMP
ones, which expire. `ImplementsSessions` is the abstract specification as a
property of the detailed one. `ScanAssumption` says that the ICMP scan does not meet a
forwarded port in the part of its range that lies behind its bitmap.

### Dhcp

`table` is `allocated_dhcp_ip_table` (whether a number has been given, and until when), `arp`
the part of `arp_table` the server writes, `Statics` the reserved addresses. The hosts (idle,
asking, holding a number until a time) and the link (a set of frames, in any order, lost at
any time, delayed by any time) are the environment. `DiscoverOffer`, `DiscoverRefused`, `Request` and
`Refresh` are the handlers; neither 255 nor 256 is offered (dhcp.cpp:79). `Refresh` changes nothing: it works on copies, and that is what
the code does (dhcp.cpp:49-57). Option parsing is reduced to the number asked for. A host
that reboots may ask for the number it had; a renewal is recognised, as in the code, by the
address it fills in as its own (ciaddr). The code grants a renewal to whoever sends one; the
hosts renew only what they hold, and what the properties say is said of such hosts.

`Restart` empties the tables (nothing is written to disk) and leaves hosts and frames as they are.
A holder may then lose its number to another host, and its renewal is granted as well. That is
what the code does, and no document says what it should do. The history variable `old` names the hosts
a restart found doing something, until they have started over with none of their earlier
frames on the way; the properties speak of the others, so that they state what a restart
must *not* do: harm a host that came after it.

### Neighbor

`resolved` is the key set of `arp_table`, `pending` the queues, `probes` and `replies` what is on
the link, `out` the frames sent, in order. `Forward`, `AnswerRequest`, `Learn`, `ReceiveReply` and
`ReceiveAnnouncement` are the ways a frame reaches `eth_send_handler` or `arp_table`. Any ARP frame
of operation 2 flushes the queue of its sender, asked for or not, on the interface it came in on
(packet_read.cpp:244-252): a reply has an interface, and a neighbour is heard on its own side
only. Packets are numbered on acceptance, so that loss, repetition and overtaking can be stated.
`lost` is history: the hops of which a question or answer was lost since a routed packet last joined
the queue. The interface of an answer to an ARP request is a choice of all three, since main.cpp:208
reads the key of the route from behind the frame, where earlier frames left something.

### Router

| TLA+ | code |
|---|---|
| `stage`, `BootOrder`, `InitNat` ... `InitOther` | `init_router` (src/main.cpp:67-109) and what each init function leaves in the tables |
| `known` | the router's own addresses have been read (`init_router_info`); the routing table is built from them |
| `firewall`, `Verdict`, `Matches` | `firewall_table`, `find_firewall_entry`, `check_entry` |
| `routes`, `Before`, `Route`, `NextHop` | `routing_table`, the comparison given to `std::sort`, `routing_table_find`, the next hop the handlers return |
| `Drop`, `Dhcp`, `Outbound`, `Inbound`, `InboundUnowned`, `Local`, `Plain` | `ipv4_packet_drop_check` and the branches of `ipv4_read_handler` |
| `HandOver` | src/main.cpp:189-203, what is done with the next hop |
| `Arp`, `Reply` | the ARP branch (steps of `Neighbor`) |
| `Sweep` | housekeeping, seen as sessions ending: `Close` of `Sessions`, which spares `Permanent` |
| `Restart` | `emergency_flush`, or any end of the process |

The sender is `Neighbor` by INSTANCE. The translator is `Sessions` by INSTANCE, not `Nat`: since `Nat`
implements it, what `Router` shows with the abstract translator holds with the detailed one, and the
state space stays small. That TCP and UDP forwards outlast the sweep is no assumption of `Router`: it is the promise
of `Sessions` about `Permanent` that `Nat` is proved to keep, with the same set (`Lasting`). The address server appears by its effect here (it answers, or
hands the packet on, or its request is learnt from). Addresses are model values in the sets the code
distinguishes; a network in the routing table is the set of addresses it covers, and
`Elsewhere` stands for the rest of the Internet. Masks stay numbers with the first byte lowest, because
that is how the host compares them (`Before`). `InitRoutes` takes any order of the entries that `Sorted`
admits: `std::sort` promises no more, and the theorems hold whichever it leaves. `AddressAssumption` and `InputAssumption`
say what the proofs need of the constants: the networks are disjoint and hold the router's own addresses,
flows and ports of the packets are known ones, forwards are distinct and lead to hosts outside
127.0.0.0/8, and the default policy is one of the three actions. A packet's `fate` is history and says which branch
it took.

### Checksum

The loop of `sum_1s_complement` and `finalize_checksum`, step by step, for the four callers. `pos` is the
byte the loop is at in `Summed`, the pseudo header and what is behind it. `Base`
stands for 256, so that a word is less than `Base^2` and the 32-bit sum less than `Base^4`; the
receiver's check is a definition of its own (`NetworkSum`), in network order.

### Faulty variants

Operators whose comment starts with "Faulty:" are not used by any specification. Each is a
plausible mistake in the operator it precedes, and with it in place TLC finds the property
violated that PROJECT.json names: evidence that the property depends on the code.

## 4. Runs

| run | shows | bounds |
|---|---|---|
| nat_tcp | `TablesAgree`, `PortsHaveSessions`, `OutboundReversible`, `StaleBound`, `PortKeepsOwner`, `TcpPoolRecovers` (with fairness) | 3 TCP flows, 2 ports, a forward, clock to 6 with limit 1 and period 2 |
| nat_mixed | `TypeOK`, `SessionsHoldPorts`, `Swept`, `NatInv`, `ForwardsPermanent`, `IcmpSenderKept`, `ImplementsSessions` | one flow of each protocol on the same host and port, a second UDP and a second ICMP flow, which are also forwarded to; pool of 1 port in a bitmap of 3; a TCP, a UDP and an ICMP forward on one external port; up to the overrun |
| dhcp_lease | `TypeOK`, `UniqueLease`, `ServerOutlastsHolder`, `HolderResolved`, `OfferedIsFree` | 2 hosts (symmetric), one number in range from 0, lease 2, clock to 3, 1 restart; a host sends only if fewer than 2 frames are on their way |
| neighbor_queue | `TypeOK`, `Conserved`, `HeldInOrder`, `WaitingLeaves` (with fairness) | a LAN hop and a WAN hop, 3 packets, three interfaces, frames lost, announcements without bound |
| router | `TypeOK`, `ForwardsServed`, `RouteMostSpecific`, `ForwardedHasHop`, `SideMatchesHop` | 15 packets, at least one for every branch, of which 2 reach the sender in a behaviour; 11 addresses, ARP frames of a LAN host and the gateway, a TCP and an ICMP forward, restarts without bound |
| checksum | `NothingCut`, `Accepted` | bytes of two bits; every content of up to 3 bytes behind the checksum, and full ones of every length up to the longest |

Why the bounds are enough. The translator's hazards need a port to be taken, expire and be
taken again by another flow: three flows on two ports with a clock of several limits and
periods does it more than once, and the theorems cover every size. Exclusive leases need two
contenders and one number, with one frame overtaking another, a lease that ends within
the run and a restart while another host holds the number; reservations and wider ranges are
covered by the proofs. Queues need a second packet behind a first, on each of two hops. In the router a packet's way depends on
the tables and on at most one other packet (one that opened the session it uses, or
waits before it), so two are enough, and boot and restart are run through completely. The longest
checksum, full of ones, is where the sum is largest, and narrow bytes make every carry happen.
Its computation ends, so deadlock checking is off in that run.

The runs with a violation show where the code departs from its own comments.
They are listed with their quotations under "findings":

| run | what happens |
|---|---|
| nat_tcp_refresh | a TCP session ends a fixed time after its first packet, however active |
| nat_udp_port | each UDP packet of a flow takes a new port, and none is given back |
| dhcp_offer | a number in use is offered again, for every range not starting at 0 |
| nat_icmp_forward | a configured ICMP forward is erased once its host has sent and its limit has passed |
| router_block_list | a host on the block list is served |
| router_dropped | a packet the drop check refused is sent |

The block list has two causes, either of which is enough: `init_firewall_table` empties the table that
`load_config` has filled (src/main.cpp:100), and `load_config` puts the default policy, a rule that
everything matches, before the block list, while the lookup takes the first match.

Other behaviour that the models contain, because the code does, and that a reader may not
expect:

* with the pool empty a packet leaves with its private address and port (`OutboundShort`, `Pass`);
* the ICMP scan leaves its bitmap (`overrun`);
* a misread miss sends an inbound packet on to 0.0.0.0 (`InboundMisread`);
* a packet that waits on a hop goes on waiting when the hop is learnt from a request or by DHCP,
  until a reply or an announcement comes, while later packets pass it (`Learn`);
* the sweep may erase a TCP session between a packet and its answer, also right after the packet,
  since a hit stamps a copy; the answer then finds nobody (`OutboundReversible` says only this);
* a number once given is refused for ever to every request that is not a renewal, its own
  holder's after a reboot included, since `Refresh` changes nothing (and `UniqueLease` holds because of it);
* a refused request still redirects the `arp_table` entry of the number (`Request`; hence
  `HolderResolved` says only that there is an entry);
* the answer to an ARP request may leave on either side (`AnswerRequest`);
* a TCP or ICMP packet for the router itself is handed to the sender with next hop 0, like a
  refused one (`HandOver`);
* of UDP packets with next hop 0 only those from source port 17152 are handed on: main.cpp:189
  compares the port with 67 without converting its byte order;
* a packet for 10.0.0.0/8 outside the LAN's /24 is neither translated nor delivered on the LAN:
  it goes to the gateway with its private source (`Plain`).

### Fairness

`FairSpec` of `Nat`: the clock advances, the loop goes on, and some frame arrives. The last is
an assumption about the network and it is needed: `recvfrom` has no timeout, so on a silent
link nothing is swept. It is a mild one, since the socket sees every frame of both links.
`FairSpec` of `Neighbor`: neighbours answer and the router reads what arrives. `WaitingLeaves`
holds over losses that another routed packet to the hop follows, since each one asks again; it promises
nothing from a loss that none follows, since the router has no timer, and that is the only exception
(`lost`). A packet does not ask once its hop is resolved; the reply to the last one that did
then still empties the queue.
The other modules state safety only; their specifications have no fairness.

## 5. Proofs

The theorems hold for all hosts, ports, pools, limits, ranges, reservations, forwards and
routes that satisfy the assumptions named in the modules.

| module | theorem | says |
|---|---|---|
| `NatProofs` | `TypeCorrect` | `[]TypeOK` |
| | `InvariantHolds` | `[]NatInv` |
| | `TablesAlwaysAgree` | `[]TablesAgree` |
| | `PortsHeld`, `PortsNotLost` | `[]SessionsHoldPorts`, `[]PortsHaveSessions` |
| | `SweptClean` | `[]Swept` |
| | `IcmpSendersKept` | `IcmpSenderKept` |
| | `NoSharedPort` | no two flows have one external port |
| | `ForwardsStay` | `[]ForwardsPermanent` |
| | `StaleIsBounded` | `StaleBound` |
| | `PortsKeepOwners` | `PortKeepsOwner` |
| `SessionProofs` | `SessionsImplemented` | `ImplementsSessions`: every behaviour of `Nat` is one of `Sessions` |
| | `AnswersFindTheirFlow` | `OutboundReversible` |
| `DhcpProofs` | `TypeCorrect` | `[]TypeOK` |
| | `LeasesUnique` | `[]UniqueLease` |
| | `ServerOutlasts` | `[]ServerOutlastsHolder` |
| | `HoldersResolved` | `[]HolderResolved` |
| `NeighborProofs` | `TypeCorrect` | `[]TypeOK` |
| | `HeldLeaveInOrder` | `[]HeldInOrder` |
| | `PacketsConserved` | `[]Conserved` |
| `RouterProofs` | `ForwardsAlwaysServed` | `[]ForwardsServed` |
| | `TypeCorrect` | `[]TypeOK` |
| | `RoutesMostSpecific` | `[]RouteMostSpecific` |
| | `ForwardedHaveHops` | `[]ForwardedHasHop` |
| | `SidesMatchHops` | `[]SideMatchesHop` |
| `ChecksumProofs` | `SumHoldsAll` | `[]NothingCut` |
| | `ReceiversAccept` | `[]Accepted` |

**Translator.** `TablesAgree` alone is not inductive: `update_nat_table` overwrites what is at a
port, which is harmless only if no session is there. So a live session's bit must be set
(`SessionsHoldPorts`), for then the allocator does not find its port. The bits in turn are
cleared by the sweep according to the entries of one table, and a bit is cleared rightly
only if the entry there is the session's (`TablesAgree` again); the two need each other.
Forwards have no bits, but lie outside the pool. Misread misses leave entries without a
protocol under port 0, which must be known to be harmless (`VoidsAlike`). The clock
(`ClocksOrdered`, `Swept`) gives the bound on stale sessions. `NatInv` is the conjunction; TLC checks it in
`nat_mixed`. Each handler then has a lemma, and the theorems about steps use `NatInv` in the
state before; `IcmpSenderKept` also needs that the entry of a flow has the time of its latest packet
(`SenderStamped`), which is true of ICMP alone.

**Refinement.** The initial states map to initial states because forwards are distinct. A hit
maps to `Use`, and needs `TablesAgree`: the flow found in one table is the owner in the other. A new
session maps to `Open`, which requires that nobody owns the port and the flow owns none; the first comes
from `SessionsHoldPorts` (the allocator returned a clear bit), the second from the miss and
`TablesAgree`. The sweep maps to `Close`, and spares `Permanent` because a TCP or UDP forward never gets a
stamp (`ForwardsPermanent`, before and after the step). UDP, misread misses and ICMP identifiers
outside the table map to strays.

**Answers.** `OutboundReversible` is a property of steps: a packet to the WAN leaves with its entry in
`wan_to_lan_table` (`FreshAnswer`), and until the next frame is read only the sweep comes between it and the
answer. `Awaited` carries this over those steps: before the sweep the answer finds its flow; after it
the entry is the same, or is gone, and then it was past its limit (`SweepAwaited`).

**Address server.** `UniqueLease` is not inductive, because what two hosts hold is decided by frames
already on their way. `LeaseInv` says that a number is bound to at most one host among
those not in `old`, whatever form the tie has: an acknowledgement on its way to a host that still
waits for it, a renewal on its way to the router, or a lease in use. Every tie carries a time, and
the table's end of the lease is never before the end that tie can lead to. A request that is no
renewal is granted only when the number was never given, so it cannot make a second tie; a renewal comes from a tie that was
there. Time passing only removes ties, and a restart moves every host with a tie into `old`. A host leaves `old`
only when it has started over and none of its frames is left.

**Sender.** Order needs that the packets sent for a hop were accepted before those that
wait for it, that queues are ordered themselves, and that no number is above `count`. `Conserved` counts, and is
proved without counting: `PlaceInv` says that every number up to `count` is sent or waits, that no two frames
and no two places in queues have one number, and that none is in both. A step adds one new number in one place,
or moves a whole queue to the frames sent. From `PlaceInv` one of the two sets that `Conserved` counts
has one member, and the other none.

**Router.** TCP and UDP forwards are in the translator's table from the `config` step on, provided that
`init_nat_table` ran before; no session can take their port, since it is owned, and the sweep closes no
port in `Permanent`, as `SessionsImplemented` shows of `Nat`. `ServedInv` follows this through each `stage`.

**Routing.** The four entries of the table are its members in some order (`Routed`). If `Sorted`, the
first entry that matches an address is preceded by none that does, and an entry that is narrower would
precede it; so the first match is the narrowest (`MostSpecific`). Which network an address is in then gives
`RouteOf`, the side and the next hop of every address. `SideMatchesHop` is about two lookups,
one in the handler, the other in the main loop from the buffer: they agree because the translator has
rewritten the destination before both, and the new one, the owner of the port, is a host that can be routed to
(`OwnersReachable`: hosts that packets came from, or forwards lead to). What is queued keeps its hop and leaves later where the reply came in, which is the side of the hop, since `SenderInv` knows
every reply under way to come from there; so the
invariant (`RouterInv`) speaks of the queues and of the frames sent alike (`Carried`, `SenderInv`).

**Checksums.** A word as the host reads it, times `Base`, is the word as the receiver reads it plus a multiple of
`Word - 1`; this holds of a last odd byte too. So it holds of the totals (`TotalsCongruent`). Folding
changes the sum by a multiple of `Word - 1`, the complement makes it up to `Word - 1`, and storing the
complement low byte first brings in the factor `Base` that makes host and receiver meet. `SumInv` carries this from step to
step; until the sum is complete it is exactly a total of words (`NothingCut`), and the longest segment has too
few words for that to reach the limit (`TotalsFit`). The totals are a recursive function. That the definition has a
solution, and each fact about it, is proved by induction over sets of numbers (`UpTo`), which follows from
finite sets being well-founded (`LeastNatural`): this needs no operator as a parameter.

Only model-checked is liveness (`TcpPoolRecovers`, `WaitingLeaves`): liveness under fairness is out of the prover's
reach; and `OfferedIsFree` for a range that starts at 0, a control that shows the index to be the cause of
dhcp_offer. The properties of the runs that end in a violation do not hold.

## 6. Not modelled

* `json.hpp` is a vendored library of 24596 lines, nine tenths of the repository's code; only what
  `load_config` reads with it appears, as constants.
* Packet layouts, logging and printing, hostapd configuration and shell commands: I/O or data without protocol state.
* A failed ioctl (the router's address stays zero) and a configuration that does not parse (the
  exception ends the process; what follows is `Restart`).
* Fragments, and segments damaged on the way, whose checksum the translator replaces by a good one.
* The time to live is checked and never decremented; one router is modelled, so circulating packets are not.
* A DHCP request that names no number (it is granted number 0): the hosts follow the protocol.
* Header rewriting is reduced to the flow and port a packet ends up with; hardware
  addresses to their being known; a ping's answer to nothing, since it changes no state.
* The queues' growth: the models cap the packets, and nothing in the code bounds the queues.
