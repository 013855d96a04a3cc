------------------------------ MODULE Messages ------------------------------
(***************************************************************************)
(* What the daemon puts on the air: its own HELLO, TC, MID and HNA         *)
(* messages in both formats (packet.c, build_msg.c, generate_msg.c with    *)
(* lq_level 0, lq_packet.c with lq_level 2), the messages it forwards      *)
(* (parser.c, olsr.c), the output buffers of the interfaces (net_olsr.c)   *)
(* and how a message is chopped into pieces that fit them.                 *)
(*                                                                         *)
(* The daemon collects messages in one buffer per interface and sends what *)
(* is pending as one packet.  The C functions become operators on a record *)
(* s with the fields                                                       *)
(*   c, mtu[i]  the configuration, the MTU                                 *)
(*   pending[i] size of the messages pending                               *)
(*   sent[i]    a packet was sent in the current step                      *)
(*   made       own messages made in the current step                      *)
(*   refused    pushes that found no room in this step                     *)
(*   run        "up", or "exit" after olsr_exit or assert                  *)
(*   nbrs       the links, each with what its neighbour entry says of it   *)
(*   prevEmpty, emptyLeft  prev_empty or ~sending_tc, and the time left of *)
(*              send_empty_tc                                              *)
(*   imm        immediate_send_tc                                          *)
(*   gw         the own uplink as an HNA: "none", "on" or, with no         *)
(*              bandwidth, "zero"                                          *)
(*   zero[i]    sgw_sgw_zero_bw_timeout, in HNA periods                    *)
(*   seen       the duplicate set (DuplicateSet has its windows)           *)
(* Sizes are counted in words of four bytes, the granularity of every      *)
(* field that is counted.  A message is a record: type t, interface i,     *)
(* entries e, size sz.  fwdtimer is left out: the code sets it and asks    *)
(* whether it timed out only to decide whether to set it again.  The       *)
(* sequence numbers of messages are in TcFlood.                            *)
(* Operators named Def_Word are mutated forms of Def.                      *)
(***************************************************************************)
EXTENDS Integers, Sequences, FiniteSets, SequencesExt

CONSTANTS IFS,   \* the interfaces
          CNF    \* the configurations: ip the words of an address, cap MAX_REMAINING,
                 \* and the settings used below
CONSTANTS EMPTY_TC,    \* 3 * max_tc_vtime, in ticks
          HNA_VTIME    \* hna_reltime, in HNA periods

Cnf(s) == CNF[s.c]

HEADERSIZE == 1

Maxsize(s, i) == s.mtu[i] - HEADERSIZE

net_output_pending(s, i) == s.pending[i]

Least(a, b) == IF a < b THEN a ELSE b

net_outbuffer_bytes_left(s, i) == Least(Cnf(s).cap, Maxsize(s, i) - net_output_pending(s, i))

net_outbuffer_push(s, i, m) ==
  IF net_output_pending(s, i) + m.sz > Maxsize(s, i)
  THEN [s EXCEPT !.refused = @ \cup {<<i, m>>}]
  ELSE [s EXCEPT !.pending[i] = @ + m.sz]

net_output(s, i) ==
  IF s.pending[i] = 0 THEN s ELSE [s EXCEPT !.sent[i] = TRUE, !.pending[i] = 0]

\* A message that the daemon only passes on: flush if it has no room, try once more.
PushOrFlush(s, i, m) ==
  IF net_output_pending(s, i) + m.sz > Maxsize(s, i)
  THEN net_outbuffer_push(net_output(s, i), i, m)
  ELSE net_outbuffer_push(s, i, m)

check_buffspace(s, msgsize, buffsize) ==
  IF msgsize > buffsize THEN [s EXCEPT !.run = "exit"] ELSE s

(***************************************************************************)
(* Chopping.  A format f says how a message of entries is laid out: type,  *)
(* header words hdr, words w per entry, words grp in front of every run of *)
(* entries with the same link code, whether it is an LQ message and how    *)
(* many words the code checks for after a flush.                           *)
(***************************************************************************)
Runs(e) == Cardinality({k \in 1..Len(e) : k = 1 \/ e[k].code # e[k - 1].code})

Bytes(f, e) == f.hdr + f.w * Len(e) + f.grp * Runs(e)

Pushed(s, f, i, e) ==
  LET m == [t |-> f.t, i |-> i, e |-> e, sz |-> Bytes(f, e)]
  IN [net_outbuffer_push(s, i, m) EXCEPT !.made = Append(@, m)]

FlushFirst(s, i, need) ==
  IF need > net_outbuffer_bytes_left(s, i) THEN net_output(s, i) ELSE s

ChopNext_Keeps(f, i, a, e) ==
  IF Bytes(f, Append(a.e, e)) <= a.rem THEN [a EXCEPT !.e = Append(@, e)]
  ELSE LET s1 == net_output(IF a.e = <<>> THEN a.s ELSE Pushed(a.s, f, i, a.e), i)
       IN [s |-> s1, e |-> Append(a.e, e), rem |-> net_outbuffer_bytes_left(s1, i)]

\* One more entry e after the entries a.e of the message under construction: when it
\* has no room the message built so far is pushed and the buffer sent.
ChopNext(f, i, a, e) ==
  IF Bytes(f, Append(a.e, e)) <= a.rem THEN [a EXCEPT !.e = Append(@, e)]
  ELSE LET s1 == net_output(IF a.e = <<>> THEN a.s ELSE Pushed(a.s, f, i, a.e), i)
           left == net_outbuffer_bytes_left(s1, i)
       IN IF f.lq
          THEN [s |-> IF a.e = <<>> THEN [s1 EXCEPT !.run = "exit"] ELSE s1,
                e |-> <<e>>, rem |-> left]
          ELSE [s |-> check_buffspace(s1, f.hdr + f.chk, left), e |-> <<e>>, rem |-> left]

\* All entries; the last piece is still in a.e when the loop ends.
Begun(s, i) == [s |-> s, e |-> <<>>, rem |-> net_outbuffer_bytes_left(s, i)]
Chop(f, s, i, es) == FoldLeft(LAMBDA a, e : ChopNext(f, i, a, e), Begun(s, i), es)

Ended(f, i, a) == Pushed(a.s, f, i, a.e)
EndedIf(pushed, f, i, a) == IF pushed THEN Ended(f, i, a) ELSE a.s

-----------------------------------------------------------------------------
UNSPEC_LINK == 0
LOST_LINK == 3
HIDE_LINK == 4
Codes(links) == [k \in 1..(3 * Len(links)) |->
                   <<(k - 1) \div Len(links), links[((k - 1) % Len(links)) + 1]>>]

Entry(code, a) == [code |-> code, a |-> a]
Flat(a) == Entry(<<0, 0>>, a)

\* The entries grouped by neighbour type and link type, in the order of the loops.
Grouped(es, links) ==
  LET codes == Codes(links)
  IN FlattenSeq([k \in DOMAIN codes |-> SelectSeq(es, LAMBDA e : e.code = codes[k])])

NeighType(n) == IF n.mpr THEN 2 ELSE IF n.sym THEN 1 ELSE 0

create_lq_hello(s, i) ==
  Reverse([k \in 1..Len(s.nbrs) |->
    Entry(<<NeighType(s.nbrs[k]), IF s.nbrs[k].on = i THEN s.nbrs[k].lk ELSE UNSPEC_LINK>>, s.nbrs[k].a)])

olsr_build_hello_packet(s, i) ==
  LET others == IF Cardinality(Cnf(s).ifs) = 1 THEN <<>> ELSE SelectSeq(s.nbrs, LAMBDA n : n.on # i)
      on == SelectSeq(s.nbrs, LAMBDA n : n.on = i)
  IN Reverse([k \in 1..Len(on) |-> Entry(<<NeighType(on[k]), on[k].lk>>, on[k].a)]
             \o [k \in 1..Len(others) |-> Entry(<<NeighType(others[k]), UNSPEC_LINK>>, others[k].a)])

Redundant(s, n) == \/ Cnf(s).red = 2
                   \/ n.sel
                   \/ Cnf(s).red = 1 /\ n.mpr

olsr_build_tc_packet(s) == Reverse(SelectSeq(s.nbrs, LAMBDA n : n.sym /\ Redundant(s, n)))

create_lq_tc(s) ==
  SortSeq(SelectSeq(s.nbrs, LAMBDA n : n.sym /\ Redundant(s, n) /\ ~n.broken),
          LAMBDA m, n : m.a < n.a)

Addresses(q) == [k \in 1..Len(q) |-> Flat(q[k].a)]

(***************************************************************************)
(* Serializing.                                                            *)
(***************************************************************************)
Format(t, hdr, w, grp, chk) ==
  [t |-> t, hdr |-> hdr, w |-> w, grp |-> grp, chk |-> chk, lq |-> FALSE]

OLSR_IPV4_HDRSIZE == 3
OLSR_IPV6_HDRSIZE == 6
Hello4 == Format("HELLO", OLSR_IPV4_HDRSIZE + 1, 1, 1, 2)
Hello6 == Format("HELLO", OLSR_IPV6_HDRSIZE + 1, 4, 1, 5)
Tc4 == Format("TC", OLSR_IPV4_HDRSIZE + 1, 1, 0, 1)
Tc6 == Format("TC", OLSR_IPV6_HDRSIZE + 1, 4, 0, 4)
Mid4 == Format("MID", OLSR_IPV4_HDRSIZE, 1, 0, 0)
Mid6 == Format("MID", OLSR_IPV6_HDRSIZE, 4, 0, 4)
Hna4 == Format("HNA", OLSR_IPV4_HDRSIZE, 2, 0, 2)
Hna6 == Format("HNA", OLSR_IPV6_HDRSIZE, 8, 0, 8)

\* Every address of an LQ message is followed by one word of link quality.
LqFormat(f) == [f EXCEPT !.w = @ + 1, !.lq = TRUE]

Checked(s, i, need) == check_buffspace(s, need, net_outbuffer_bytes_left(s, i))

serialize_hello4(s, i, es) ==
  Ended(Hello4, i, Chop(Hello4, Checked(FlushFirst(s, i, Hello4.hdr), i, Hello4.hdr), i,
                        Grouped(es, <<0, 1, 2, 3>>)))

\* The IPv6 version has no test for HIDE_LINK.
serialize_hello6(s, i, es) ==
  Ended(Hello6, i, Chop(Hello6, Checked(FlushFirst(s, i, Hello6.hdr), i, Hello6.hdr + Hello6.chk), i,
                        Grouped(es, <<0, 1, 2, 3, 4>>)))

queue_hello(s, i, es) ==
  IF Cnf(s).ip = 1 THEN serialize_hello4(s, i, es) ELSE serialize_hello6(s, i, es)

TcMessages(f, s, i, es) ==
  EndedIf(es # <<>> \/ s.emptyLeft > 0, f, i,
          Chop(f, Checked(FlushFirst(s, i, f.hdr), i, f.hdr), i, es))

serialize_tc4(s, i, es) == TcMessages(Tc4, s, i, es)

serialize_tc6(s, i, es) == TcMessages(Tc6, s, i, es)

queue_tc(s, i, es) ==
  IF Cnf(s).ip = 1 THEN serialize_tc4(s, i, es) ELSE serialize_tc6(s, i, es)

\* Only the addresses that are not the main address.
MidEnded(f, i, a) == EndedIf(a.e # <<>>, f, i, a)
MidMessages(f, s, i) ==
  LET need == f.hdr + 2 * f.w * (Cnf(s).aliases + 1)
  IN MidEnded(f, i, Chop(f, Checked(FlushFirst(s, i, need), i, f.hdr), i,
                         [k \in 1..Cnf(s).aliases |-> Flat(100 + k)]))

serialize_mid4(s, i) == IF Cnf(s).aliases = 0 THEN s ELSE MidMessages(Mid4, s, i)

serialize_mid6(s, i) == IF Cnf(s).aliases = 0 THEN s ELSE MidMessages(Mid6, s, i)

queue_mid(s, i) == IF Cnf(s).ip = 1 THEN serialize_mid4(s, i) ELSE serialize_mid6(s, i)

\* What an HNA entry announces: a network, the gateway with its speeds, the gateway
\* with zero bandwidth, or the whole address space as an ordinary network.
NET == 200
GATEWAY == 201
ZERO == 202
DEFAULT == 203

hna_entries(s) == [k \in 1..Cnf(s).nets |-> Flat(NET)]
                  \o (IF s.gw = "none" THEN <<>> ELSE <<Flat(GATEWAY)>>)

\* The gateway is left out while its bandwidth is zero.
appendHNAEntry(s, i, a, e) ==
  IF e.a = GATEWAY /\ s.gw = "zero" THEN a ELSE ChopNext(Hna4, i, a, e)

appendHNA6Entry(s, i, a, e) ==
  IF e.a = GATEWAY /\ s.gw = "zero" THEN a ELSE ChopNext(Hna6, i, a, e)

AppendHna(f, s, i, a, e) ==
  IF f = Hna4 THEN appendHNAEntry(s, i, a, e) ELSE appendHNA6Entry(s, i, a, e)

HnaMessages(f, s, i, h) ==
  Ended(f, i, FoldLeft(LAMBDA t, e : AppendHna(f, s, i, t, e),
                       Begun(Checked(FlushFirst(s, i, Bytes(f, h)), i, f.hdr), i), h))

\* After the list: the gateway was in it and its window starts again, or a zero
\* bandwidth HNA is sent while the window lasts.
ZeroWindow(s, s1, s2, i) ==
  IF s.gw = "on" THEN [s1 EXCEPT !.zero[i] = HNA_VTIME]
  ELSE IF s.zero[i] > 0 THEN [s2 EXCEPT !.zero[i] = @ - 1] ELSE s1

ZeroHna4(s, s1, i) ==
  ZeroWindow(s, s1, HnaMessages(Hna4, s1, i, <<Flat(ZERO)>>), i)
serialize_hna4(s, i) ==
  ZeroHna4(s, IF hna_entries(s) = <<>> THEN s
              ELSE HnaMessages(Hna4, s, i, hna_entries(s)), i)

\* The zeroed entry is 0/0, in IPv6 not one of the gateway's prefixes: an ordinary network.
ZeroHna6(s, s1, i) ==
  ZeroWindow(s, s1, HnaMessages(Hna6, s1, i, <<Flat(DEFAULT)>>), i)
serialize_hna6(s, i) ==
  ZeroHna6(s, IF hna_entries(s) = <<>> THEN s
              ELSE HnaMessages(Hna6, s, i, hna_entries(s)), i)

queue_hna(s, i) == IF Cnf(s).ip = 1 THEN serialize_hna4(s, i) ELSE serialize_hna6(s, i)

\* An LQ message is kept whole if that only takes sending what is pending.
LqFlush(s, i, need) ==
  IF s.pending[i] > 0 /\ net_outbuffer_bytes_left(s, i) < need THEN net_output(s, i) ELSE s

LqMessages(f, s, i, es) == Ended(f, i, Chop(f, LqFlush(s, i, Bytes(f, es)), i, es))

serialize_lq_hello(s, i, es) ==
  LqMessages(LqFormat(IF Cnf(s).ip = 1 THEN Hello4 ELSE Hello6), s, i, Grouped(es, <<2, 0, 1, 3>>))

serialize_lq_tc(s, i, es) == LqMessages(LqFormat(IF Cnf(s).ip = 1 THEN Tc4 ELSE Tc6), s, i, es)

(***************************************************************************)
(* Generating.                                                             *)
(***************************************************************************)
generate_hello(s, i) == net_output(queue_hello(s, i, olsr_build_hello_packet(s, i)), i)

\* No neighbour left to list: empty TCs are sent until the timer runs out.
EmptyTc(s, es) == [s EXCEPT !.prevEmpty = es = <<>>,
                            !.emptyLeft = IF es = <<>> /\ ~s.prevEmpty THEN EMPTY_TC ELSE @]

QueueTc(s, i, es) == queue_tc(EmptyTc(s, es), i, es)
generate_tc(s, i) == QueueTc(s, i, Addresses(olsr_build_tc_packet(s)))

SendIf(now, s, i) == IF now THEN net_output(s, i) ELSE s
olsr_output_lq_hello(s, i) == SendIf(~s.imm, serialize_lq_hello(s, i, create_lq_hello(s, i)), i)

LqTc(s, s1, i, es) ==
  IF es # <<>> \/ ~s.prevEmpty \/ s1.emptyLeft > 0 THEN serialize_lq_tc(s1, i, es) ELSE s1
QueueLqTc(s, i, es) == LqTc(s, EmptyTc(s, es), i, es)
olsr_output_lq_tc(s, i) == SendIf(s.imm, QueueLqTc(s, i, Addresses(create_lq_tc(s))), i)

(***************************************************************************)
(* Forwarding.                                                             *)
(***************************************************************************)
RelayIfs(s, in, m) == {j \in Cnf(s).ifs : /\ j = in => Cnf(s).mode[j] # "ether"
                                         /\ m.last => Cnf(s).mode[j] = "ether"}

olsr_forward_message(s, in, from, m) ==
  IF /\ \E k \in DOMAIN s.nbrs : s.nbrs[k].a = from /\ s.nbrs[k].sym /\ s.nbrs[k].sel
     /\ m.id \notin s.seen
  THEN FoldLeft(LAMBDA t, j : PushOrFlush(t, j, [t |-> "FWD", i |-> j, e |-> <<>>, sz |-> m.sz]),
                [s EXCEPT !.seen = @ \cup {m.id}], SetToSeq(RelayIfs(s, in, m)))
  ELSE s

\* The messages of a packet in turn, up to the first whose size field is wrong; own
\* messages are dropped, the others forwarded unless their handler says no.
Sound(pkt) == IF \E k \in DOMAIN pkt : pkt[k].bad
              THEN SubSeq(pkt, 1, (CHOOSE k \in DOMAIN pkt :
                                     pkt[k].bad /\ \A j \in 1..(k - 1) : ~pkt[j].bad) - 1)
              ELSE pkt

parse_packet(s, in, from, pkt) ==
  FoldLeft(LAMBDA t, m : IF m.own \/ ~m.relay THEN t ELSE olsr_forward_message(t, in, from, m),
           s, Sound(pkt))
----------------------------------------------------------------------------
(***************************************************************************)
(* When the messages are made and the output buffers are sent: the         *)
(* generation timers of the interfaces, packets that arrive, changes of    *)
(* the neighbourhood, of the own gateway and of the MTU, and the shutdown. *)
(*                                                                         *)
(* State: one record ob, the fields above and                              *)
(*   c          the configuration, chosen in BmInit                        *)
(*   hin, tin   ticks until the HELLO and the TC of the interface are due  *)
(* and, for the properties,                                                *)
(*   held[i]    ticks the oldest pending message of i has waited           *)
(*   told[i]    neighbours listed by the last TC queued on i               *)
(*   gwTold[i]  what the last HNA on i said of the gateway                 *)
(*   step       the last operation and what it was to send                 *)
(* MID and HNA timers have periods much longer than a tick and jitter:     *)
(* they may fire in any pass.                                              *)
(***************************************************************************)
VARIABLE ob

bm_vars == <<ob>>

NOSTEP == [op |-> "none", i |-> CHOOSE i \in IFS : TRUE, want |-> <<>>]

BmStart(c) ==
  [c |-> c, pending |-> [i \in IFS |-> 0], made |-> <<>>,
   mtu |-> [i \in IFS |-> CNF[c].mtu], sent |-> [i \in IFS |-> FALSE], refused |-> {}, run |-> "up",
   nbrs |-> <<>>, prevEmpty |-> TRUE, emptyLeft |-> 0, imm |-> CNF[c].imm, gw |-> CNF[c].gw,
   zero |-> [i \in IFS |-> 0], seen |-> {}, hin |-> [i \in IFS |-> CNF[c].hello],
   tin |-> [i \in IFS |-> CNF[c].tc], held |-> [i \in IFS |-> 0], told |-> [i \in IFS |-> {}],
   gwTold |-> [i \in IFS |-> "none"], step |-> NOSTEP]

BmInit == \E c \in DOMAIN CNF : ob = BmStart(c)

\* The messages of type t that the last operation made on i, and their entries.
Made(s, i, t) == SelectSeq(s.made, LAMBDA m : m.t = t /\ m.i = i)
Entries(q) == FlattenSeq([k \in 1..Len(q) |-> q[k].e])
Listed(s, i, t) == {e.a : e \in ToSet(Entries(Made(s, i, t)))}

Fresh(op, i, want) == [ob EXCEPT !.sent = [j \in IFS |-> FALSE], !.refused = {}, !.made = <<>>,
                                 !.step = [op |-> op, i |-> i, want |-> want]]

\* The bookkeeping of held, told and gwTold after an operation.
Settled(s) ==
  [s EXCEPT
    !.held = [j \in IFS |-> IF s.sent[j] \/ s.pending[j] = 0 THEN 0 ELSE @[j]],
    !.told = [j \in IFS |-> IF Made(s, j, "TC") = <<>> THEN @[j] ELSE Listed(s, j, "TC")],
    !.gwTold = [j \in IFS |-> IF GATEWAY \in Listed(s, j, "HNA") THEN "on"
                              ELSE IF ZERO \in Listed(s, j, "HNA") THEN "zero"
                              ELSE IF DEFAULT \in Listed(s, j, "HNA") THEN "plain" ELSE @[j]]]

Up == ob.run = "up"

OutputHello(s, i) == IF Cnf(s).lq THEN olsr_output_lq_hello(s, i) ELSE generate_hello(s, i)
OutputTc(s, i) == IF Cnf(s).lq THEN olsr_output_lq_tc(s, i) ELSE generate_tc(s, i)

Hello(i) ==
  /\ Up
  /\ ob.hin[i] <= 1
  /\ ob' = Settled([OutputHello(Fresh("HELLO", i, create_lq_hello(ob, i)), i)
                     EXCEPT !.hin[i] = Cnf(ob).hello])

Tc(i) ==
  /\ Up
  /\ ob.tin[i] <= 1
  /\ ob' = Settled([OutputTc(Fresh("TC", i, Addresses(IF Cnf(ob).lq THEN create_lq_tc(ob)
                                                      ELSE olsr_build_tc_packet(ob))), i)
                     EXCEPT !.tin[i] = Cnf(ob).tc])

generate_mid(i) ==
  /\ Up
  /\ Cnf(ob).aliases > 0
  /\ ob' = Settled(queue_mid(Fresh("MID", i, [k \in 1..Cnf(ob).aliases |-> Flat(100 + k)]), i))

generate_hna(i) ==
  /\ Up
  /\ Cnf(ob).hna
  /\ ob' = Settled(queue_hna(Fresh("HNA", i, hna_entries(ob)), i))

olsr_input(i) ==
  /\ Up
  /\ \E pkt \in Cnf(ob).pkts, k \in DOMAIN ob.nbrs :
       /\ ob.nbrs[k].on = i
       /\ ob' = Settled(parse_packet(Fresh("INPUT", i, <<>>), i, ob.nbrs[k].a, pkt))

\* Entries of the duplicate set expire.
Forget ==
  /\ Up
  /\ ob.seen # {}
  /\ ob' = [Fresh("none", NOSTEP.i, <<>>) EXCEPT !.seen = {}]

NeighborhoodChanges ==
  /\ Up
  /\ \E t \in Cnf(ob).tables : /\ t # ob.nbrs
                               /\ ob' = [Fresh("none", NOSTEP.i, <<>>) EXCEPT !.nbrs = t]

GatewayChanges ==
  /\ Up
  /\ \E g \in Cnf(ob).gws : /\ g # ob.gw
                            /\ ob' = [Fresh("none", NOSTEP.i, <<>>) EXCEPT !.gw = g]

\* chk_if_changed: the old buffer is flushed and one of the new size made.
MtuChanges(i) ==
  /\ Up
  /\ \E n \in Cnf(ob).mtus :
       /\ n # ob.mtu[i]
       /\ ob' = Settled([net_output(Fresh("none", i, <<>>), i) EXCEPT !.mtu[i] = n])

Tick ==
  /\ Up
  /\ \A i \in Cnf(ob).ifs : ob.hin[i] > 0 /\ ob.tin[i] > 0
  /\ ob' = [Fresh("none", NOSTEP.i, <<>>) EXCEPT
              !.hin = [i \in IFS |-> IF i \in Cnf(ob).ifs THEN @[i] - 1 ELSE @[i]],
              !.tin = [i \in IFS |-> IF i \in Cnf(ob).ifs THEN @[i] - 1 ELSE @[i]],
              !.emptyLeft = IF @ = 0 THEN 0 ELSE @ - 1,
              !.held = [i \in IFS |-> IF ob.pending[i] = 0 THEN 0 ELSE @[i] + 1]]

\* Clean the buffer and send the messages that say the node is gone.
olsr_shutdown_messages(s, i) ==
  net_output(OutputHello(OutputTc(net_output(s, i), i), i), i)

\* The links are reset, then two bursts on all interfaces.
Burst(s) == FoldLeft(olsr_shutdown_messages, s, SetToSeq(Cnf(s).ifs))
olsr_shutdown ==
  /\ Up
  /\ LET gone == [k \in DOMAIN ob.nbrs |->
                    [ob.nbrs[k] EXCEPT !.sym = FALSE, !.mpr = FALSE, !.lk = LOST_LINK]]
     IN ob' = [Settled(Burst(Burst([Fresh("none", NOSTEP.i, <<>>) EXCEPT
                                     !.nbrs = gone, !.imm = FALSE]))) EXCEPT !.run = "down"]

BmNext ==
  \/ \E i \in Cnf(ob).ifs : Hello(i) \/ Tc(i) \/ generate_mid(i) \/ generate_hna(i) \/ olsr_input(i) \/ MtuChanges(i)
  \/ Forget \/ NeighborhoodChanges \/ GatewayChanges \/ Tick \/ olsr_shutdown

-----------------------------------------------------------------------------
(***************************************************************************)
(* Properties.                                                             *)
(***************************************************************************)
\* The pending messages of a buffer fit into it at all times, whatever was pushed and
\* however the MTU changed (net_outbuffer_push, net_add_buffer).
BmTypeOK ==
  /\ ob.run \in {"up", "down", "exit"}
  /\ \A i \in IFS : /\ net_output_pending(ob, i) <= Maxsize(ob, i)
                    /\ ob.hin[i] \in 0..Cnf(ob).hello /\ ob.tin[i] \in 0..Cnf(ob).tc
                    /\ ob.zero[i] \in 0..HNA_VTIME
  /\ ob.emptyLeft \in 0..EMPTY_TC

\* "Send pending packet if not room in buffer" (build_msg.c): no serializer ends the
\* daemon, check_buffspace and the asserts on info_head and last_ip never fail while an
\* empty buffer can hold a header and one entry.  The exception is the IPv6 HELLO of
\* lq_level 0, which is flushed for only if the header has no room but checked for the
\* header and one entry.
BuffersSuffice == ob.run = "exit" => ob.step.op = "HELLO" /\ Cnf(ob).ip # 1 /\ ~Cnf(ob).lq

\* Nothing is lost in the buffers: every serializer ignores the result of
\* net_outbuffer_push, so each piece it makes must fit in what it left room for; only a
\* message of others that is larger than the whole buffer is ever refused.
NothingRefused == \A r \in ob.refused : r[2].t = "FWD" /\ r[2].sz > Maxsize(ob, r[1])

\* The entries of a message that was chopped, put together again.
Pieces == Entries(Made(ob, ob.step.i, ob.step.op))

\* However a message is chopped, its pieces list every entry it was made from exactly
\* once: a neighbour missing from a HELLO, or an address from a TC, would be a lost link
\* (serialize_hello, serialize_tc, serialize_mid, serialize_lq_hello, serialize_lq_tc).
PiecesComplete ==
  ob.step.op \in {"HELLO", "TC", "MID"} =>
    LET pieces == Pieces
        want == SelectSeq(ob.step.want, LAMBDA v : v.code[2] # HIDE_LINK)
    IN /\ {pieces[k].a : k \in DOMAIN pieces} = {want[k].a : k \in DOMAIN want}
       /\ Len(pieces) = Len(want)

StepFormat ==
  LET v4 == Cnf(ob).ip = 1
  IN CASE ob.step.op = "HELLO" -> LqFormat(IF v4 THEN Hello4 ELSE Hello6)
       [] ob.step.op = "TC" -> LqFormat(IF v4 THEN Tc4 ELSE Tc6)
       [] OTHER -> IF v4 THEN Mid4 ELSE Mid6

\* "prevents message fragmentation resulting in unstable links" (lq_packet.c): an LQ
\* message or a MID is chopped only if it would not fit an empty buffer either.
KeptWhole ==
  /\ ob.step.op \in (IF Cnf(ob).lq THEN {"HELLO", "TC", "MID"} ELSE {"MID"})
  /\ Len(Made(ob, ob.step.i, ob.step.op)) > 1
  => Bytes(StepFormat, Pieces) > Least(Cnf(ob).cap, Maxsize(ob, ob.step.i))

\* Nothing waits in a buffer longer than one emission interval of its interface, the
\* HELLO's or, where TCs are the more frequent, the TC's: no timer sends the buffer, only
\* the next message that is sent at once (olsr_output_lq_hello, generate_hello,
\* olsr_output_lq_tc).
HeldOneInterval ==
  \A i \in IFS : ob.held[i] <= IF Cnf(ob).lq /\ Cnf(ob).imm THEN Cnf(ob).tc ELSE Cnf(ob).hello

\* When no neighbour is left to advertise, the next TC of every interface says so, also
\* on an interface whose last TC was made before another interface noticed
\* (prev_empty and send_empty_tc are shared by all interfaces).
EmptyTcSent == ob.step.op = "TC" /\ ob.step.want = <<>> => ob.told[ob.step.i] = {}

\* When the own gateway is withdrawn or loses its bandwidth, the next HNA of every
\* interface that announced it says zero (serialize_hna4, sgw_sgw_zero_bw_timeout).
ZeroAnnounced == ob.step.op = "HNA" /\ ob.gw # "on" => ob.gwTold[ob.step.i] # "on"

\* After the shutdown nothing is pending, and the last TC of every interface lists nobody
\* (olsr_shutdown_messages).
GoneAnnounced == ob.run = "down" => \A i \in IFS : ob.pending[i] = 0 /\ ob.told[i] = {}

\* What the daemon knows gets on the air: no piece is lost or doubled between the tables,
\* the chopping and the buffers, nothing waits too long, and what ends is taken back.
MessagesWhole ==
  /\ BmTypeOK /\ BuffersSuffice /\ NothingRefused /\ PiecesComplete /\ KeptWhole
  /\ HeldOneInterval /\ EmptyTcSent /\ ZeroAnnounced /\ GoneAnnounced
=============================================================================
