-------------------------------- MODULE Bmf --------------------------------
(***************************************************************************)
(* The flooding of multicast and local broadcast packets by the BMF plugin *)
(* (lib/bmf): packets captured on a LAN, on an OLSR interface or on the    *)
(* plugin's own tuntap interface are encapsulated and passed from node to  *)
(* node over the MPR flooding tree, unpacked at every node, and forwarded  *)
(* on the LANs behind it.  The TTL is never decreased: only the packet     *)
(* history of each node stops a flood.                                     *)
(*                                                                         *)
(* A node's sockets are queues the kernel fills: bmf_q[n] holds the frames *)
(* that wait at n, each with the socket it waits on; frames of one socket  *)
(* are read in order, the order between sockets is the main loop's.  A     *)
(* packet is an identity and a destination; its fingerprint (PacketCrc32)  *)
(* distinguishes exactly these two.  The link set, the topology and the    *)
(* MPR selectors are those of a settled OLSR network, and a constant       *)
(* configuration gives them.  A capturing socket does not see what is sent *)
(* through itself.                                                         *)
(*                                                                         *)
(* Definitions named X_Word are mutated forms of X.                        *)
(***************************************************************************)
EXTENDS Integers, Sequences, SequencesExt, FiniteSets, FiniteSetsExt, Functions

CONSTANTS
  BmfNodes,        \* the nodes that run the plugin
  BmfNets,         \* a sequence of network configurations
  BmfMprChoices,   \* for each of them, the MPR sets to consider
  BMF_HOLD,        \* HISTORY_HOLD_TIME, in ticks
  BMF_DELAY,       \* bound: the ticks a frame may wait in a socket
  BMF_NONE         \* a NULL address

VARIABLES
  bmf_net,         \* the network of this behaviour
  bmf_mpr,         \* node -> its MPRs
  bmf_in,          \* packets hosts have yet to send
  bmf_q,           \* node -> frames in its sockets
  bmf_hist,        \* node -> PacketHistory: fingerprint -> ticks left
  bmf_tx,          \* node -> (interface, fingerprint) -> floods that took it there, or from there
  bmf_got,         \* node -> fingerprint -> copies written to the tuntap
  bmf_seen         \* node -> packets it ever took in

bmf_vars == <<bmf_net, bmf_mpr, bmf_in, bmf_q, bmf_hist, bmf_tx, bmf_got, bmf_seen>>

BmfCfg == BmfNets[bmf_net]

\* The links of a configuration, seen from both ends.
BmfLinks(c) ==
  c.links \cup {[ch |-> l.ch, a |-> l.b, b |-> l.a, cost |-> l.cost] : l \in c.links}

BmfNear(c, n) == {l.b : l \in {k \in BmfLinks(c) : k.a = n}}

\* R reaches all two-hop neighbours of n, as its MPRs must (RFC 3626, 8.3.1).
BmfMprsCover(c, n, R) ==
  /\ R \subseteq BmfNear(c, n)
  /\ \A m \in BmfNear(c, n) : \A k \in BmfNear(c, m) \ {n} :
        k \in BmfNear(c, n) \/ \E r \in R : k \in BmfNear(c, r)

ASSUME BmfNetAssumption ==
  \A i \in DOMAIN BmfNets :
    LET c == BmfNets[i] IN
    /\ c.mech \in {"broadcast", "promiscuous"} /\ c.retransmit \in Nat
    /\ \A m \in BmfMprChoices[i] : \A n \in BmfNodes : BmfMprsCover(c, n, m[n])
    \* get_best_link_to_neighbor has no ties to break
    /\ \A k, l \in BmfLinks(c) : k.a = l.a /\ k.b = l.b /\ k.cost = l.cost => k = l

BmfChannels == {l.ch : l \in BmfCfg.links}
-----------------------------------------------------------------------------
(* Packets, fingerprints and the packet history                            *)

\* The fingerprint ignores what may change on the way (TTL, checksum).
PacketCrc32(pkt) == [id |-> pkt.id, dst |-> pkt.dst]

\* A local broadcast packet gets the broadcast address of the interface it
\* leaves by; a multicast destination is left alone.
CheckAndUpdateLocalBroadcast(pkt, addr) ==
  IF pkt.dst = "multicast" THEN pkt ELSE [pkt EXCEPT !.dst = addr]

\* Was the fingerprint heard recently, and the history with it marked.
IsRecent(h, crc) == crc \in DOMAIN h
MarkRecentPacket(h, crc) == [k \in DOMAIN h \cup {crc} |-> IF k = crc THEN BMF_HOLD ELSE h[k]]
-----------------------------------------------------------------------------
(* The neighbours a packet is forwarded to                                 *)

\* get_best_link_to_neighbor: the cheapest link of n to m.
BestLink(n, m) ==
  CHOOSE l \in BmfLinks(BmfCfg) : l.a = n /\ l.b = m
    /\ \A k \in BmfLinks(BmfCfg) : k.a = n /\ k.b = m => l.cost <= k.cost

\* The links of n on channel ch, except to the packet's source, to the node
\* it came from and to the node it was also sent to.
Candidates(n, ch, source, by, to) ==
  {l \in BmfLinks(BmfCfg) : l.a = n /\ l.ch = ch /\ l.b \notin {source, by, to}}

\* In link quality mode links that are not the best to their neighbour are
\* left out, and neighbours the forwarder reaches itself at less than the
\* cost of the way through n.
FindNeighbors(n, ch, source, by, to) ==
  {l \in Candidates(n, ch, source, by, to) :
     BmfCfg.lq =>
       /\ l = BestLink(n, l.b)
       /\ by # BMF_NONE /\ l.b \in BmfNear(BmfCfg, by) =>
            BestLink(n, by).cost + l.cost <= BestLink(by, l.b).cost}

\* The best of them; without link quality, the first in the list.
BestNeighbor(links) ==
  IF BmfCfg.lq THEN CHOOSE l \in links : \A k \in links : l.cost <= k.cost
               ELSE CHOOSE l \in links : TRUE

\* The receivers of a packet on a channel where n has links to forward it by and is heard
\* by heard: <<node, socket, link-layer destination, which copy>>; a broadcast is sent
\* BroadcastRetransmitCount times.
Receivers(links, heard) ==
  CASE links = {} -> {}
    [] links # {} /\ BmfCfg.mech = "promiscuous" ->
         {<<r, IF r = d THEN "encapsulating" ELSE "listening", d, 1>> : <<r, d>> \in heard \X {BestNeighbor(links).b}}
    [] links # {} /\ BmfCfg.mech # "promiscuous" /\ Cardinality(links) <= BmfCfg.fanout ->
         {<<l.b, "encapsulating", l.b, 1>> : l \in links}
    [] OTHER -> {<<r, "encapsulating", BMF_NONE, k>> : <<r, k>> \in heard \X (1..BmfCfg.retransmit)}

\* A frame in a socket; out is true of one that was captured as it left (PACKET_OUTGOING).
Frame(sock, i, pkt, crc, by, dest, out) ==
  [sock |-> sock, if |-> i, pkt |-> pkt, crc |-> crc, by |-> by, dest |-> dest, out |-> out, t |-> 0]
Captured(i, pkt, out) == Frame("capture", i, pkt, PacketCrc32(pkt), BMF_NONE, BMF_NONE, out)

\* EncapsulateAndForwardPacket: the frames n puts on channel ch, each with
\* the receivers whose socket gets it.
Encapsulated(n, ch, e, source, by, to) ==
  {[to |-> r[1], copy |-> r[4], f |-> Frame(r[2], ch, e.pkt, e.crc, n, r[3], FALSE)] :
     r \in Receivers(FindNeighbors(n, ch, source, by, to),
                     {l.b : l \in {k \in BmfLinks(BmfCfg) : k.a = n /\ k.ch = ch}})}

\* ForwardPacket: the packet as it is, on a LAN; the other nodes on that LAN
\* capture it.
Forwarded(n, lan, pkt) ==
  {[to |-> r, copy |-> 1, f |-> Captured(lan, CheckAndUpdateLocalBroadcast(pkt, lan), FALSE)] :
     r \in {m \in BmfNodes \ {n} : lan \in BmfCfg.lan[m]}}
-----------------------------------------------------------------------------
(* The handlers.  An outcome of a handler at n is the set of frames it     *)
(* sends, [to, copy, f], the interfaces it sent on and the history.        *)

\* Every frame sent is queued at its receiver, in some order when one call
\* sends several to different receivers (they do not share a queue).
Queued(q, frames) ==
  [n \in BmfNodes |->
     LET s == SetToSeq({x \in frames : x.to = n}) IN q[n] \o [i \in DOMAIN s |-> s[i].f]]

\* The frame at place i of n's queues is the next one of its socket.
IsNext(n, i) ==
  \A j \in 1..(i - 1) : bmf_q[n][j].sock # bmf_q[n][i].sock \/ bmf_q[n][j].if # bmf_q[n][i].if

Count(tx, keys) ==
  [k \in DOMAIN tx \cup keys |-> (IF k \in DOMAIN tx THEN tx[k] ELSE 0) + (IF k \in keys THEN 1 ELSE 0)]

\* The frames of all, sent on the interfaces ifs, are queued, some of them lost; from is
\* where the packet came from.
SendAll(n, q, all, ifs, from, crc) ==
  /\ \E lost \in (IF BmfCfg.lossy THEN SUBSET all ELSE {{}}) : bmf_q' = Queued(q, all \ lost)
  /\ bmf_tx' = [bmf_tx EXCEPT ![n] = Count(Count(@, {<<x, crc>> : x \in ifs}), {<<x, crc>> : x \in from})]

FloodOn(n, q, enc, fwd, lans, from, crc) ==
  SendAll(n, q, UNION {enc[ch] : ch \in DOMAIN enc} \cup fwd, {ch \in DOMAIN enc : enc[ch] # {}} \cup lans,
          from, crc)

\* Send e on the OLSR interfaces in chs and pkt, which came from the LAN in
\* from (if any), on the LANs in lans.
Flood(n, q, chs, lans, from, e, source, by, to, pkt) ==
  FloodOn(n, q, [ch \in chs |-> Encapsulated(n, ch, e, source, by, to)],
          UNION {Forwarded(n, lan, pkt) : lan \in lans}, lans, from, e.crc)

ChannelsOf(n) == {l.ch : l \in {k \in BmfLinks(BmfCfg) : k.a = n}}

\* Only multicast packets are flooded and, if configured, local broadcasts.
IsFlooded(pkt, addr) == pkt.dst = "multicast" \/ (BmfCfg.bcast /\ pkt.dst = addr)

Mark(n, pkt, crc) ==
  /\ bmf_hist' = [bmf_hist EXCEPT ![n] = MarkRecentPacket(@, crc)]
  /\ bmf_seen' = [bmf_seen EXCEPT ![n] = @ \cup {pkt.id}]

\* A node's own packet, routed into its tuntap interface.
BmfTunPacketCaptured(n, pkt) ==
  LET crc == PacketCrc32(pkt) IN
  /\ UNCHANGED bmf_got
  /\ IF IsFlooded(pkt, "tun") THEN Mark(n, pkt, crc) ELSE UNCHANGED <<bmf_hist, bmf_seen>>
  /\ IF IsFlooded(pkt, "tun") /\ ~IsRecent(bmf_hist[n], crc)
     THEN Flood(n, bmf_q, ChannelsOf(n), BmfCfg.lan[n], {}, [pkt |-> pkt, crc |-> crc],
                BMF_NONE, BMF_NONE, BMF_NONE, pkt)
     ELSE UNCHANGED <<bmf_q, bmf_tx>>

\* A packet captured on interface x.  From an OLSR neighbour it goes to the
\* OLSR interfaces only if that neighbour chose n as MPR; what n itself sent on
\* an interface is not sent there again, and on a LAN nothing goes back where
\* it came from.
BmfPacketCaptured(n, q, f) ==
  LET fromOlsr == f.if \in BmfChannels
      silent == fromOlsr /\ f.pkt.src \in BmfNear(BmfCfg, n) /\ n \notin bmf_mpr[f.pkt.src]
      here == {f.if} \ (IF f.out THEN {} ELSE BmfChannels)
  IN
  /\ UNCHANGED bmf_got
  /\ IF IsFlooded(f.pkt, f.if) THEN Mark(n, f.pkt, f.crc) ELSE UNCHANGED <<bmf_hist, bmf_seen>>
  /\ IF IsFlooded(f.pkt, f.if) /\ ~IsRecent(bmf_hist[n], f.crc)
     THEN Flood(n, q, IF silent THEN {} ELSE ChannelsOf(n) \ here, BmfCfg.lan[n] \ {f.if}, here,
                [pkt |-> f.pkt, crc |-> f.crc], BMF_NONE, BMF_NONE, BMF_NONE, f.pkt)
     ELSE bmf_q' = q /\ UNCHANGED bmf_tx

BmfEncapsulationPacketReceived_Selector(n, q, f, to) ==
  LET pkt == CheckAndUpdateLocalBroadcast(f.pkt, "tun") IN
  /\ Mark(n, pkt, f.crc)
  /\ IF IsRecent(bmf_hist[n], f.crc)
     THEN bmf_q' = q /\ UNCHANGED <<bmf_tx, bmf_got>>
     ELSE /\ bmf_got' = [bmf_got EXCEPT ![n] = Count(@, {f.crc})]
          /\ Flood(n, q, IF f.by \in bmf_mpr[n] THEN ChannelsOf(n) ELSE {}, BmfCfg.lan[n], {},
                   [pkt |-> pkt, crc |-> f.crc], f.pkt.src, f.by, to, pkt)
\* An encapsulated packet from node f.by, overheard on its way to `to' or
\* meant for n: it is unpacked into the tuntap and onto the LANs, and passed
\* on if f.by chose n as MPR.  The header keeps the fingerprint it came with.
BmfEncapsulationPacketReceived(n, q, f, to) ==
  LET pkt == CheckAndUpdateLocalBroadcast(f.pkt, "tun") IN
  /\ Mark(n, pkt, f.crc)
  /\ IF IsRecent(bmf_hist[n], f.crc)
     THEN bmf_q' = q /\ UNCHANGED <<bmf_tx, bmf_got>>
     ELSE /\ bmf_got' = [bmf_got EXCEPT ![n] = Count(@, {f.crc})]
          /\ Flood(n, q, IF n \in bmf_mpr[f.by] THEN ChannelsOf(n) ELSE {}, BmfCfg.lan[n], {},
                   [pkt |-> pkt, crc |-> f.crc], f.pkt.src, f.by, to, pkt)

\* The socket handlers: one frame is read from a ready socket.
BMF_handle_captureFd(n, i) ==
  /\ bmf_q[n][i].sock = "capture" /\ IsNext(n, i)
  /\ BmfPacketCaptured(n, [bmf_q EXCEPT ![n] = RemoveAt(@, i)], bmf_q[n][i])
  /\ UNCHANGED <<bmf_net, bmf_mpr, bmf_in>>

\* Overheard frames only: what is meant for n comes by the other socket.
BMF_handle_listeningFd(n, i) ==
  /\ bmf_q[n][i].sock = "listening" /\ IsNext(n, i)
  /\ BmfEncapsulationPacketReceived(n, [bmf_q EXCEPT ![n] = RemoveAt(@, i)], bmf_q[n][i], bmf_q[n][i].dest)
  /\ UNCHANGED <<bmf_net, bmf_mpr, bmf_in>>

BMF_handle_encapsulatingFd(n, i) ==
  /\ bmf_q[n][i].sock = "encapsulating" /\ IsNext(n, i)
  /\ BmfEncapsulationPacketReceived(n, [bmf_q EXCEPT ![n] = RemoveAt(@, i)], bmf_q[n][i], BMF_NONE)
  /\ UNCHANGED <<bmf_net, bmf_mpr, bmf_in>>

\* A local application sends; the packet comes out of the tuntap.
BMF_handle_tuntapFd(x) ==
  /\ x \in bmf_in /\ x.from = "tun"
  /\ bmf_in' = bmf_in \ {x}
  /\ BmfTunPacketCaptured(x.at, x.pkt)
  /\ UNCHANGED <<bmf_net, bmf_mpr>>

\* A host, or an application of the node x.pkt.src past the tuntap, sends on a LAN
\* or on a radio channel; every node there captures it.
BmfHostSends(x) ==
  /\ x \in bmf_in /\ x.from = "host"
  /\ bmf_in' = bmf_in \ {x}
  /\ bmf_q' = Queued(bmf_q,
       {[to |-> r, copy |-> 1, f |-> Captured(x.if, x.pkt, r = x.pkt.src)] : r \in x.at})
  /\ UNCHANGED <<bmf_net, bmf_mpr, bmf_hist, bmf_tx, bmf_got, bmf_seen>>

\* Timed-out entries stay in the history until the pruning timer fires.
PrunePacketHistory(n) ==
  /\ \E crc \in DOMAIN bmf_hist[n] : bmf_hist[n][crc] = 0
  /\ bmf_hist' = [bmf_hist EXCEPT ![n] =
                    [crc \in {k \in DOMAIN @ : @[k] > 0} |-> @[crc]]]
  /\ UNCHANGED <<bmf_net, bmf_mpr, bmf_in, bmf_q, bmf_tx, bmf_got, bmf_seen>>

BmfTick ==
  /\ \E n \in BmfNodes, crc \in UNION {DOMAIN bmf_hist[m] : m \in BmfNodes} :
        crc \in DOMAIN bmf_hist[n] /\ bmf_hist[n][crc] > 0
  /\ \A n \in BmfNodes : \A i \in DOMAIN bmf_q[n] : bmf_q[n][i].t < BMF_DELAY
  /\ bmf_q' = [n \in BmfNodes |-> [i \in DOMAIN bmf_q[n] |-> [bmf_q[n][i] EXCEPT !.t = @ + 1]]]
  /\ bmf_hist' = [n \in BmfNodes |-> [crc \in DOMAIN bmf_hist[n] |->
                    IF bmf_hist[n][crc] = 0 THEN 0 ELSE bmf_hist[n][crc] - 1]]
  /\ UNCHANGED <<bmf_net, bmf_mpr, bmf_in, bmf_tx, bmf_got, bmf_seen>>

BmfIdle == \A n \in BmfNodes : bmf_q[n] = <<>>

BmfOver ==
  /\ BmfIdle /\ bmf_in = {} /\ \A n \in BmfNodes : DOMAIN bmf_hist[n] = {}
  /\ UNCHANGED bmf_vars

BmfInit ==
  /\ bmf_net \in DOMAIN BmfNets
  /\ bmf_mpr \in BmfMprChoices[bmf_net]
  /\ bmf_in = BmfCfg.inputs
  /\ bmf_q = [n \in BmfNodes |-> <<>>]
  /\ bmf_hist = [n \in BmfNodes |-> <<>>]
  /\ bmf_tx = [n \in BmfNodes |-> <<>>]
  /\ bmf_got = [n \in BmfNodes |-> <<>>]
  /\ bmf_seen = [n \in BmfNodes |-> {}]

BmfNext ==
  \/ \E n \in BmfNodes : \E i \in DOMAIN bmf_q[n] :
        \/ BMF_handle_captureFd(n, i)
        \/ BMF_handle_listeningFd(n, i)
        \/ BMF_handle_encapsulatingFd(n, i)
  \/ \E x \in bmf_in : BMF_handle_tuntapFd(x) \/ BmfHostSends(x)
  \/ \E n \in BmfNodes : PrunePacketHistory(n)
  \/ BmfTick
  \/ BmfOver

BmfSpec == BmfInit /\ [][BmfNext]_bmf_vars
-----------------------------------------------------------------------------
(* Properties                                                              *)

\* Every frame waits on a socket its receiver has.
BmfTypeOK ==
  /\ bmf_in \subseteq BmfCfg.inputs
  /\ \A n \in BmfNodes : \A i \in DOMAIN bmf_q[n] :
       /\ bmf_q[n][i].sock \in {"capture", "listening", "encapsulating"}
       /\ bmf_q[n][i].if \in ChannelsOf(n) \cup BmfCfg.lan[n]
       /\ bmf_q[n][i].t \in 0..BMF_DELAY

\* No storm: although the TTL is never decreased, a node sends a multicast packet in at
\* most one flood on each of its interfaces, never back to the LAN it took it from, and
\* writes it at most once to its tuntap, however its sockets are interleaved and the
\* copies delayed.  A local broadcast is rewritten on every LAN, and who captures it
\* there takes it for a new packet: it comes back, but once for each of its addresses.
BmfLans == UNION {BmfCfg.lan[n] : n \in BmfNodes}
BmfForms(pkt) == IF pkt.dst = "multicast" THEN 1 ELSE Cardinality(BmfLans \cup {pkt.dst})
BmfNoStorm ==
  \A n \in BmfNodes :
    /\ \A k \in DOMAIN bmf_tx[n] : bmf_tx[n][k] <= 1
    /\ \A crc \in DOMAIN bmf_got[n] : bmf_got[n][crc] <= 1
    /\ \A x \in BmfCfg.inputs :
         /\ \A k \in DOMAIN bmf_tx[n] : k[2].id = x.pkt.id =>
              Cardinality({j \in DOMAIN bmf_tx[n] : j[1] = k[1] /\ j[2].id = x.pkt.id}) <= BmfForms(x.pkt)
         /\ Cardinality({crc \in DOMAIN bmf_got[n] : crc.id = x.pkt.id}) <= BmfForms(x.pkt)

\* A multicast packet keeps one fingerprint on its whole way, so that every
\* node recognises every copy of it.
BmfOneFingerprint ==
  \A n \in BmfNodes : \A i \in DOMAIN bmf_q[n] :
    bmf_q[n][i].crc.dst = "multicast" <=> bmf_q[n][i].pkt.dst = "multicast"

\* The nodes the hosts' packet id starts from, and those they can reach.
BmfReach(S) ==
  LET step(T) == T \cup UNION {BmfNear(BmfCfg, n) : n \in T}
                   \cup {m \in BmfNodes : \E n \in T : BmfCfg.lan[n] \cap BmfCfg.lan[m] # {}}
  IN FoldFunction(LAMBDA x, acc : step(acc), S, [i \in 1..Cardinality(BmfNodes) |-> i])

\* Where no frame is lost, a flood leaves nobody out: when the sockets are
\* empty, every node connected to one that took a packet in has it.  A node
\* keeps silent for good when its first copy comes from somebody who did not
\* choose it as MPR, so this rests on the order in which copies arrive.
BmfCovered ==
  BmfIdle /\ ~BmfCfg.lossy =>
    \A x \in BmfCfg.inputs \ bmf_in :
      \A n \in BmfReach({m \in BmfNodes : x.pkt.id \in bmf_seen[m]}) : x.pkt.id \in bmf_seen[n]

\* A flood is a broadcast: everybody gets the packet, a multicast packet as one packet,
\* and the flood ends.
BmfFloods == BmfTypeOK /\ BmfNoStorm /\ BmfOneFingerprint /\ BmfCovered
=============================================================================
