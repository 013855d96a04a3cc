-------------------------------- MODULE P2pd --------------------------------
(***************************************************************************)
(* The p2pd plugin (lib/p2pd): peer-to-peer discovery packets captured on  *)
(* a LAN are flooded through the mesh as OLSR messages, and every router   *)
(* that gets such a message unpacks it on its LANs.  Nothing elects one    *)
(* router per LAN, so the routers of a LAN also capture what the others    *)
(* unpack there.  What ends that is optional: a filter of packets seen     *)
(* recently (UseHashFilter) and a decrement of the TTL (UseTTLDecrement).  *)
(*                                                                         *)
(* Time is counted in seconds.  Frames of one LAN socket are read in       *)
(* order; messages come in any order, once per neighbour that relays them. *)
(* A message carries the packet and, for the properties, how often the     *)
(* packet had been flooded before.                                         *)
(*                                                                         *)
(* Definitions named X_Word are mutated forms of X.                        *)
(***************************************************************************)
EXTENDS Integers, Sequences, SequencesExt, FiniteSets, Functions

CONSTANTS
  P2Nets,                \* a sequence of configurations
  HISTORY_HOLD_TIME,     \* seconds a fingerprint is remembered
  P2pdDuplicateTimeout,  \* seconds a message is remembered
  P2_DELAY               \* bound: seconds a message or a frame may wait

VARIABLES
  p2_net,      \* the configuration of this behaviour
  p2_sent,     \* has the host sent its packet
  p2_frames,   \* <<router, LAN>> -> frames in its capture socket
  p2_msgs,     \* copies of messages on their way to a router's parser
  p2_seq,      \* router -> messages generated
  p2_dup,      \* router -> duplicate message filter: <<originator, seqno>> -> age
  p2_hist,     \* router -> packet history: fingerprint -> seconds left
  p2_flooded,  \* router -> TTLs of the packet with which it has flooded it
  p2_twice,    \* did a router flood the packet twice with one TTL
  p2_out,      \* router, message -> times unpacked
  p2_got       \* LANs the packet was seen on

p2_vars == <<p2_net, p2_sent, p2_frames, p2_msgs, p2_seq, p2_dup, p2_hist, p2_flooded, p2_twice, p2_out, p2_got>>

P2Cfg == P2Nets[p2_net]
P2Routers == DOMAIN P2Cfg.lans
P2LansOf(r) == P2Cfg.lans[r]
P2Sockets == {s \in P2Routers \X UNION {P2LansOf(r) : r \in P2Routers} : s[2] \in P2LansOf(s[1])}

\* The function f with the value v at k.
P2With(f, k, v) == [x \in DOMAIN f \cup {k} |-> IF x = k THEN v ELSE f[x]]
-----------------------------------------------------------------------------
(* The two filters                                                         *)

\* The fingerprint of a packet.  check_and_mark_recent_packet skips eight
\* bytes of the IP header and takes its length from the checksum: the TTL
\* is part of the fingerprint, and so are, for a packet shorter than the
\* 256 bytes hashed, the bytes that lie behind it in the buffer.
P2PacketCrc32(pkt, tail) == [ttl |-> pkt.ttl, tail |-> IF P2Cfg.long THEN 0 ELSE tail]

P2Tails == IF P2Cfg.hash /\ ~P2Cfg.long THEN {0, 1} ELSE {0}

check_and_mark_recent_packet(r, pkt, tail) ==
  [seen |-> P2Cfg.hash /\ P2PacketCrc32(pkt, tail) \in DOMAIN p2_hist[r],
   hist |-> IF P2Cfg.hash
            THEN [p2_hist EXCEPT ![r] = P2With(@, P2PacketCrc32(pkt, tail), HISTORY_HOLD_TIME)]
            ELSE p2_hist]

\* Entries are not refreshed by the duplicates they stop.
p2pd_is_duplicate_message(r, m) == <<m.from, m.seq>> \in DOMAIN p2_dup[r]
p2pd_store_message(r, m) == [p2_dup EXCEPT ![r] = P2With(@, <<m.from, m.seq>>, 0)]
-----------------------------------------------------------------------------
(* Capturing and unpacking                                                 *)

\* A frame sent on a LAN by r (0: a host) reaches the sockets of the others.
P2OnLan(frames, lan, r, f) ==
  [s \in DOMAIN frames |-> IF s[2] = lan /\ s[1] # r THEN Append(frames[s], f) ELSE frames[s]]

P2HostSends ==
  LET pkt == [ttl |-> P2Cfg.ttl, floods |-> 0, age |-> 0] IN
  /\ ~p2_sent
  /\ p2_sent' = TRUE
  /\ p2_frames' = P2OnLan(p2_frames, P2Cfg.host, 0, pkt)
  /\ p2_got' = {P2Cfg.host}
  /\ UNCHANGED <<p2_net, p2_msgs, p2_seq, p2_dup, p2_hist, p2_flooded, p2_twice, p2_out>>

\* The TTL of the packet a captured one becomes; zero: it is not flooded.
P2Decremented(pkt) == IF P2Cfg.dec THEN (IF pkt.ttl = 0 THEN 0 ELSE pkt.ttl - 1) ELSE pkt.ttl

\* InUdpDestPortList: is the packet's destination one of those configured.
InUdpDestPortList(r) == r \in P2Cfg.listed

P2pdPassed_Early(r, pkt, seen) ==
  /\ ~seen /\ InUdpDestPortList(r)
  /\ P2Cfg.dec => P2Decremented(pkt) > 1
P2pdPassed(r, pkt, seen) ==
  /\ ~seen /\ InUdpDestPortList(r)
  /\ P2Cfg.dec => P2Decremented(pkt) > 0

olsr_p2pd_gen(r, pkt) ==
  /\ p2_seq' = [p2_seq EXCEPT ![r] = @ + 1]
  /\ p2_msgs' = p2_msgs \cup
       {[to |-> q, from |-> r, seq |-> p2_seq[r], pkt |-> pkt, copy |-> i, age |-> 0] :
          q \in P2Routers \ {r}, i \in 1..P2Cfg.copies}

\* A captured frame is read.
DoP2pd(s) ==
  LET r == s[1]
      pkt == Head(p2_frames[s])
  IN
  /\ p2_frames[s] # <<>>
  /\ p2_frames' = [p2_frames EXCEPT ![s] = Tail(@)]
  /\ \E tail \in P2Tails :
       LET check == check_and_mark_recent_packet(r, pkt, tail) IN
       /\ p2_hist' = check.hist
       /\ IF P2pdPassed(r, pkt, check.seen)
          THEN /\ olsr_p2pd_gen(r, [ttl |-> P2Decremented(pkt), floods |-> pkt.floods + 1])
               /\ p2_flooded' = [p2_flooded EXCEPT ![r] = @ \cup {pkt.ttl}]
               /\ p2_twice' = (p2_twice \/ pkt.ttl \in p2_flooded[r])
          ELSE UNCHANGED <<p2_msgs, p2_seq, p2_flooded, p2_twice>>
  /\ UNCHANGED <<p2_net, p2_sent, p2_dup, p2_out, p2_got>>

\* The packet goes out unchanged on every LAN of the router.
P2Unpacked(r, pkt) ==
  LET f == [ttl |-> pkt.ttl, floods |-> pkt.floods, age |-> 0]
      On(frames, lan) == P2OnLan(frames, lan, r, f)
  IN FoldLeft(On, p2_frames, SetToSeq(P2LansOf(r)))

P2PacketReceivedFromOLSR(m) ==
  \E tail \in P2Tails :
    LET r == m.to
        check == check_and_mark_recent_packet(r, m.pkt, tail)
        out == ~check.seen /\ InUdpDestPortList(r)
    IN
    /\ p2_hist' = check.hist
    /\ p2_frames' = IF out THEN P2Unpacked(r, m.pkt) ELSE p2_frames
    /\ p2_got' = IF out THEN p2_got \cup P2LansOf(r) ELSE p2_got
    /\ p2_out' = IF out
                 THEN P2With(p2_out, <<r, m.from, m.seq>>,
                             IF <<r, m.from, m.seq>> \in DOMAIN p2_out THEN p2_out[<<r, m.from, m.seq>>] + 1 ELSE 1)
                 ELSE p2_out

\* The parser function, for every copy of a message.
P2Parser(m) ==
  /\ m \in p2_msgs
  /\ p2_msgs' = p2_msgs \ {m}
  /\ IF p2pd_is_duplicate_message(m.to, m)
     THEN UNCHANGED <<p2_frames, p2_dup, p2_hist, p2_out, p2_got>>
     ELSE p2_dup' = p2pd_store_message(m.to, m) /\ P2PacketReceivedFromOLSR(m)
  /\ UNCHANGED <<p2_net, p2_sent, p2_seq, p2_flooded, p2_twice>>

P2Lost(m) ==
  /\ P2Cfg.lossy /\ m \in p2_msgs
  /\ p2_msgs' = p2_msgs \ {m}
  /\ UNCHANGED <<p2_net, p2_sent, p2_frames, p2_seq, p2_dup, p2_hist, p2_flooded, p2_twice, p2_out, p2_got>>

\* A second passes.  PrunePacketHistory and p2pd_message_seen remove what
\* is too old before they look anything up.
P2PrunePacketHistory(hist) ==
  [k \in {x \in DOMAIN hist : hist[x] > 1} |-> hist[k] - 1]
p2pd_message_seen(dup) ==
  [k \in {x \in DOMAIN dup : dup[x] < P2pdDuplicateTimeout} |-> dup[k] + 1]

P2Tick ==
  /\ \A m \in p2_msgs : m.age < P2_DELAY
  /\ \A s \in P2Sockets : \A i \in DOMAIN p2_frames[s] : p2_frames[s][i].age < P2_DELAY
  /\ p2_msgs' = {[m EXCEPT !.age = @ + 1] : m \in p2_msgs}
  /\ p2_frames' = [s \in P2Sockets |-> [i \in DOMAIN p2_frames[s] |-> [p2_frames[s][i] EXCEPT !.age = @ + 1]]]
  /\ p2_hist' = [r \in P2Routers |-> P2PrunePacketHistory(p2_hist[r])]
  /\ p2_dup' = [r \in P2Routers |-> p2pd_message_seen(p2_dup[r])]
  /\ UNCHANGED <<p2_net, p2_sent, p2_seq, p2_flooded, p2_twice, p2_out, p2_got>>
-----------------------------------------------------------------------------
P2Init ==
  /\ p2_net \in DOMAIN P2Nets
  /\ p2_sent = FALSE
  /\ p2_frames = [s \in P2Sockets |-> <<>>]
  /\ p2_msgs = {}
  /\ p2_seq = [r \in P2Routers |-> 0]
  /\ p2_dup = [r \in P2Routers |-> <<>>]
  /\ p2_hist = [r \in P2Routers |-> <<>>]
  /\ p2_flooded = [r \in P2Routers |-> {}]
  /\ p2_twice = FALSE
  /\ p2_out = <<>>
  /\ p2_got = {}

P2Next ==
  \/ P2HostSends
  \/ \E s \in P2Sockets : DoP2pd(s)
  \/ \E m \in p2_msgs : P2Parser(m) \/ P2Lost(m)
  \/ P2Tick

P2Spec == P2Init /\ [][P2Next]_p2_vars
-----------------------------------------------------------------------------
(* Properties                                                              *)

\* With the hash filter, a router floods a packet of full length at most
\* once for each TTL it sees it with, whatever echoes of it the LAN and the
\* mesh bring back (check_and_mark_recent_packet on both paths).
P2OnceEach == P2Cfg.hash /\ P2Cfg.long => ~p2_twice

\* With the TTL decrement, the chain of floods a packet goes through is
\* shorter than its TTL, filter or not (P2pdPacketCaptured).
P2ChainBounded ==
  P2Cfg.dec => /\ \A m \in p2_msgs : m.pkt.floods < P2Cfg.ttl
               /\ \A s \in P2Sockets : \A i \in DOMAIN p2_frames[s] : p2_frames[s][i].floods < P2Cfg.ttl

\* A message is unpacked at most once by a router, however many neighbours
\* relay it and however late their copies are (p2pd_is_duplicate_message).
P2UnpackedOnce == \A k \in DOMAIN p2_out : p2_out[k] = 1

\* When nothing is lost, every router has one LAN and all are configured for
\* the packet's destination, it has been seen on every LAN once nothing is
\* on its way any more (a packet the filter stops is already there).
P2Covered ==
  (/\ p2_sent /\ p2_msgs = {} /\ \A s \in P2Sockets : p2_frames[s] = <<>>
   /\ P2Cfg.listed = P2Routers /\ P2Cfg.ttl > 1 /\ ~P2Cfg.lossy
   /\ \A r \in P2Routers : Cardinality(P2LansOf(r)) = 1)
    => p2_got = UNION {P2LansOf(r) : r \in P2Routers}

\* A packet gets to every LAN and stops: neither the mesh nor an echo repeats it.
P2Floods == P2OnceEach /\ P2ChainBounded /\ P2UnpackedOnce /\ P2Covered
=============================================================================
