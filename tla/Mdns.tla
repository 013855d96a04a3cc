-------------------------------- MODULE Mdns --------------------------------
(***************************************************************************)
(* The mdns plugin (lib/mdns): multicast DNS packets captured on a LAN     *)
(* travel through the mesh as OLSR messages and are unpacked on the other  *)
(* LANs.  The routers of one LAN elect a master, the only one to capture   *)
(* and to unpack there: each sends a hello every 20 s on every LAN, keeps  *)
(* a list of the routers it heard, and every 15 s decides, LAN by LAN.     *)
(*                                                                         *)
(* Time is counted in ticks of 5 s.  A router is a number, its main        *)
(* address; a LAN stands for the capture, election and hello socket the    *)
(* plugin has there.  A hello that is not lost is read by the receivers    *)
(* before the next event; captured frames and OLSR messages wait.  Each    *)
(* configuration bounds the hellos lost in a row between two routers       *)
(* (losses), the routers stopped (stops) and the packets hosts send        *)
(* (packets), and says how many ticks without starts and stops the         *)
(* election needs (settle).                                                *)
(*                                                                         *)
(* Definitions named X_Word are mutated forms of X.                        *)
(***************************************************************************)
EXTENDS Integers, Sequences, SequencesExt, FiniteSets, Functions

CONSTANTS
  MdNets,          \* a sequence of configurations
  ENTRYTTL,        \* inspections a list entry survives
  HELLO_TIMER,     \* ticks between hellos
  ELECTION_TIMER   \* ticks between elections

VARIABLES
  md_net,          \* the configuration of this behaviour
  md_run,          \* router -> "off", "starting", "up" or "crashed"
  md_nid,          \* router -> NETWORK_ID
  md_list,         \* router -> ListOfRouter
  md_act,          \* router -> LAN -> isActive
  md_hello,        \* router -> ticks until helloTimer
  md_elect,        \* router -> ticks until electTimer
  md_lost,         \* <<sender, receiver>> -> hellos lost in a row
  md_calm,         \* ticks since a router last started or stopped
  md_stops,        \* routers stopped
  md_sent,         \* packets sent by hosts
  md_frames,       \* frames waiting in capture sockets
  md_msgs,         \* OLSR messages on their way to a router's parser
  md_floods        \* router, packet -> messages generated for it

md_timers == <<md_hello, md_elect, md_calm>>
md_traffic == <<md_sent, md_frames, md_msgs, md_floods>>
md_vars == <<md_net, md_run, md_nid, md_list, md_act, md_timers, md_lost, md_stops, md_traffic>>

MdCfg == MdNets[md_net]
MdRouters == DOMAIN MdCfg.lans
MdLansOf(r) == Range(MdCfg.lans[r])
MdLans == UNION {MdLansOf(r) : r \in MdRouters}
MdOn(l) == {r \in MdRouters : l \in MdLansOf(r)}
MdRunning(r) == md_run[r] \in {"starting", "up"}

ASSUME MdNetsAssumption ==
  \A i \in DOMAIN MdNets : \A r \in DOMAIN MdNets[i].lans :
    MdNets[i].lans[r] # <<>> /\ IsInjective(MdNets[i].lans[r])
-----------------------------------------------------------------------------
(* The router list and the election                                        *)

\* What a hello tells the receiver, on the election socket it came by.
ParseElectionPacket(from, nid, lan) == [id |-> from, nid |-> nid, lan |-> lan, ttl |-> ENTRYTTL]

MdSameRouter(e, f) == e.id = f.id /\ e.nid = f.nid /\ e.lan = f.lan

UpdateRouterList_Once(list, e) ==
  IF \E f \in list : MdSameRouter(e, f) THEN list ELSE list \cup {e}
\* A known router's entry gets its lifetime back, another is appended.
UpdateRouterList(list, e) == {f \in list : ~MdSameRouter(e, f)} \cup {e}

\* Every entry is looked at, and grows older, once per LAN.
MdAged(list) == {[e EXCEPT !.ttl = @ - 1] : e \in {f \in list : f.ttl > 1}}

MdElectOn(r, s, lan) ==
  [list |-> MdAged(s.list),
   act |-> [s.act EXCEPT ![lan] = ~\E e \in s.list : e.nid = md_nid[r] /\ e.id < r /\ e.lan = lan]]

electTimer(r) ==
  LET On(s, lan) == MdElectOn(r, s, lan)
      done == FoldLeft(On, [list |-> md_list[r], act |-> md_act[r]], MdCfg.lans[r])
  IN
  /\ md_run[r] = "up" /\ md_elect[r] = 0
  /\ md_list' = [md_list EXCEPT ![r] = done.list]
  /\ md_act' = [md_act EXCEPT ![r] = done.act]
  /\ md_elect' = [md_elect EXCEPT ![r] = ELECTION_TIMER]
  /\ UNCHANGED <<md_net, md_run, md_nid, md_hello, md_calm, md_lost, md_stops, md_traffic>>

\* The sockets of a router that get a datagram sent to the group on one of
\* its LANs: all bind the port on any address and join the same group, so
\* the kernel hands each of them the datagrams of every LAN joined.
MdSockets(r) == MdLansOf(r)

\* A hello read on each of these sockets.  Before initTimer has run the
\* list has no head, and walking it fails.
DoElection(r, from, nid) ==
  IF md_run[r] = "starting"
  THEN [run |-> "crashed", list |-> md_list[r]]
  ELSE [run |-> md_run[r],
        list |-> FoldLeft(LAMBDA list, lan : UpdateRouterList(list, ParseElectionPacket(from, nid, lan)),
                          md_list[r], SetToSeq(MdSockets(r)))]

\* helloTimer sends on every LAN; ears are those the hello is not lost for.
helloTimer(r) ==
  LET near == {q \in MdRouters \ {r} : MdRunning(q) /\ MdLansOf(q) \cap MdLansOf(r) # {}} IN
  /\ md_run[r] = "up" /\ md_hello[r] = 0
  /\ \E ears \in SUBSET near :
       LET heard == [q \in ears |-> DoElection(q, r, md_nid[r])] IN
       /\ \A q \in near \ ears : md_lost[<<r, q>>] < MdCfg.losses
       /\ md_lost' = [p \in DOMAIN md_lost |->
            IF p[1] # r THEN md_lost[p]
            ELSE IF p[2] \in near \ ears THEN md_lost[p] + 1 ELSE 0]
       /\ md_run' = [q \in MdRouters |-> IF q \in ears THEN heard[q].run ELSE md_run[q]]
       /\ md_list' = [q \in MdRouters |-> IF q \in ears THEN heard[q].list ELSE md_list[q]]
       /\ md_calm' = IF \E q \in ears : heard[q].run = "crashed" THEN 0 ELSE md_calm
       /\ md_frames' = {f \in md_frames : f.at \in ears => heard[f.at].run # "crashed"}
       /\ md_msgs' = {f \in md_msgs : f.to \in ears => heard[f.to].run # "crashed"}
  /\ md_hello' = [md_hello EXCEPT ![r] = HELLO_TIMER]
  /\ UNCHANGED <<md_net, md_nid, md_act, md_elect, md_stops, md_sent, md_floods>>
-----------------------------------------------------------------------------
(* Starting and stopping                                                   *)

\* InitMDNS: the sockets, every LAN active until the first election, and
\* the timers.  NETWORK_ID is the plugin parameter's.
InitMDNS(r) ==
  /\ md_run[r] = "off"
  /\ md_run' = [md_run EXCEPT ![r] = "starting"]
  /\ md_nid' = [md_nid EXCEPT ![r] = MdCfg.nid[r]]
  /\ md_act' = [md_act EXCEPT ![r] = [l \in MdLansOf(r) |-> TRUE]]
  /\ md_hello' = [md_hello EXCEPT ![r] = HELLO_TIMER]
  /\ md_elect' = [md_elect EXCEPT ![r] = ELECTION_TIMER]
  /\ md_calm' = 0
  /\ UNCHANGED <<md_net, md_list, md_lost, md_stops, md_traffic>>

\* One second later: an empty list, and the default NETWORK_ID.
initTimer(r) ==
  /\ md_run[r] = "starting"
  /\ md_run' = [md_run EXCEPT ![r] = "up"]
  /\ md_nid' = [md_nid EXCEPT ![r] = 1]
  /\ md_list' = [md_list EXCEPT ![r] = {}]
  /\ UNCHANGED <<md_net, md_act, md_timers, md_lost, md_stops, md_traffic>>

\* CloseMDNS, or the end of the process: what waits in its sockets is gone.
CloseMDNS(r) ==
  /\ MdRunning(r) /\ md_stops < MdCfg.stops
  /\ md_stops' = md_stops + 1
  /\ md_run' = [md_run EXCEPT ![r] = "off"]
  /\ md_list' = [md_list EXCEPT ![r] = {}]
  /\ md_lost' = [p \in DOMAIN md_lost |-> IF r \in {p[1], p[2]} THEN 0 ELSE md_lost[p]]
  /\ md_calm' = 0
  /\ md_frames' = {f \in md_frames : f.at # r}
  /\ md_msgs' = {f \in md_msgs : f.to # r}
  /\ UNCHANGED <<md_net, md_nid, md_act, md_hello, md_elect, md_sent, md_floods>>
-----------------------------------------------------------------------------
(* Packets                                                                 *)

\* A frame on a LAN waits at the capture socket of every other router there.
MdOnLan(lan, from, pkt) == {[at |-> q, lan |-> lan, pkt |-> pkt] : q \in {p \in MdOn(lan) \ {from} : MdRunning(p)}}

MdHostSends(lan, src, ttl) ==
  LET pkt == [id |-> md_sent + 1, lan |-> lan, src |-> src, ttl |-> ttl] IN
  /\ md_sent < MdCfg.packets
  /\ md_sent' = md_sent + 1
  /\ md_frames' = md_frames \cup MdOnLan(lan, 0, pkt)
  /\ UNCHANGED <<md_net, md_run, md_nid, md_list, md_act, md_timers, md_lost, md_stops, md_msgs, md_floods>>

\* The verdicts isInFilteredList may give.  An IPv6 packet's source is
\* never copied into src: what is compared is an indeterminate value.
isInFilteredList(pkt) ==
  IF MdCfg.filtered = {} THEN {FALSE}
  ELSE IF MdCfg.v6 THEN BOOLEAN ELSE {pkt.src \in MdCfg.filtered}

\* Which captured packets are passed on to the mesh.
MdPasses(pkt) == ~(MdCfg.check /\ pkt.ttl <= 1) /\ FALSE \in isInFilteredList(pkt)

\* One OLSR message for the packet.  A router hears it from the neighbours
\* that relay it: as many copies as the configuration says, unless lost.
olsr_mdns_gen(r, pkt) ==
  {[to |-> q, pkt |-> pkt, copy |-> i] : q \in {p \in MdRouters \ {r} : MdRunning(p)}, i \in 1..MdCfg.copies}

\* A frame is read.  A LAN whose master is another router is not served.
MdDropped(f) == ~md_act[f.at][f.lan] \/ ~MdPasses(f.pkt) \/ TRUE \in isInFilteredList(f.pkt)

DoMDNS(f) ==
  /\ f \in md_frames /\ MdRunning(f.at)
  /\ md_frames' = md_frames \ {f}
  /\ \/ MdDropped(f) /\ UNCHANGED <<md_msgs, md_floods>>
     \/ /\ md_act[f.at][f.lan] /\ MdPasses(f.pkt)
        /\ md_msgs' = md_msgs \cup olsr_mdns_gen(f.at, f.pkt)
        /\ md_floods' = [md_floods EXCEPT ![<<f.at, f.pkt.id>>] = @ + 1]
  /\ UNCHANGED <<md_net, md_run, md_nid, md_list, md_act, md_timers, md_lost, md_stops, md_sent>>

\* The LANs a message is unpacked on: those before the first, in the order
\* of the interface list, of which this router is not the master.
MdUnpackedOn(r) ==
  LET lans == MdCfg.lans[r] IN
  {lans[i] : i \in {j \in DOMAIN lans : \A k \in 1..j : md_act[r][lans[k]]}}

MdPacketReceivedFromOLSR(r, pkt) ==
  LET out == IF MdCfg.check THEN [pkt EXCEPT !.ttl = 1] ELSE pkt IN
  UNION {MdOnLan(lan, r, out) : lan \in MdUnpackedOn(r)}

\* The parser function, called for every copy that arrives; a copy from a
\* neighbour whose link is not symmetric is left alone.
MdParser(f) ==
  /\ f \in md_msgs /\ MdRunning(f.to)
  /\ md_msgs' = md_msgs \ {f}
  /\ \E sym \in BOOLEAN :
       md_frames' = IF sym THEN md_frames \cup MdPacketReceivedFromOLSR(f.to, f.pkt) ELSE md_frames
  /\ UNCHANGED <<md_net, md_run, md_nid, md_list, md_act, md_timers, md_lost, md_stops, md_sent, md_floods>>
-----------------------------------------------------------------------------
\* A tick passes when no timer is due and nothing is being read or started.
MdTick ==
  /\ md_frames = {} /\ md_msgs = {}
  /\ \A r \in MdRouters : md_run[r] # "starting"
  /\ \A r \in MdRouters : md_run[r] = "up" => md_hello[r] > 0 /\ md_elect[r] > 0
  /\ md_hello' = [r \in MdRouters |-> IF md_run[r] = "up" THEN md_hello[r] - 1 ELSE 0]
  /\ md_elect' = [r \in MdRouters |-> IF md_run[r] = "up" THEN md_elect[r] - 1 ELSE 0]
  /\ md_calm' = IF md_calm = MdCfg.settle THEN md_calm ELSE md_calm + 1
  /\ UNCHANGED <<md_net, md_run, md_nid, md_list, md_act, md_lost, md_stops, md_traffic>>

\* All routers off; or, where the configuration says so, all have just been
\* started together.
MdInit ==
  /\ md_net \in DOMAIN MdNets
  /\ md_run = [r \in MdRouters |-> IF MdCfg.up THEN "up" ELSE "off"]
  /\ md_nid = [r \in MdRouters |-> 1]
  /\ md_list = [r \in MdRouters |-> {}]
  /\ md_act = [r \in MdRouters |-> [l \in MdLansOf(r) |-> MdCfg.up]]
  /\ md_hello = [r \in MdRouters |-> IF MdCfg.up THEN HELLO_TIMER ELSE 0]
  /\ md_elect = [r \in MdRouters |-> IF MdCfg.up THEN ELECTION_TIMER ELSE 0]
  /\ md_lost = [p \in MdRouters \X MdRouters |-> 0]
  /\ md_calm = 0 /\ md_stops = 0 /\ md_sent = 0
  /\ md_frames = {} /\ md_msgs = {}
  /\ md_floods = [p \in MdRouters \X (1..MdCfg.packets) |-> 0]

MdNext ==
  \/ \E r \in MdRouters : InitMDNS(r) \/ initTimer(r) \/ helloTimer(r) \/ electTimer(r) \/ CloseMDNS(r)
  \/ \E lan \in MdLans, src \in {"host", "noisy"}, ttl \in {1, 255} : MdHostSends(lan, src, ttl)
  \/ \E f \in md_frames : DoMDNS(f)
  \/ \E f \in md_msgs : MdParser(f)
  \/ MdTick

MdSpec == MdInit /\ [][MdNext]_md_vars
-----------------------------------------------------------------------------
(* Properties                                                              *)

\* Long enough without starts and stops for a hello to have been heard
\* despite the losses, entries of stopped routers to have expired, and an
\* election to have looked at what is left.
MdSettled == md_calm = MdCfg.settle

\* Once settled, a LAN never has two masters, however the timers of its
\* routers are offset and whichever hellos are lost (electTimer,
\* UpdateRouterList): the lowest router keeps all others off.
MdOneMaster ==
  MdSettled => \A l \in MdLans : Cardinality({r \in MdOn(l) : md_run[r] = "up" /\ md_act[r][l]}) <= 1

\* Once settled, a LAN whose routers serve no other LAN has a master, also
\* when its previous master has stopped (the lifetimes electTimer counts
\* down).
MdServed ==
  MdSettled => \A l \in MdLans :
    (\A r \in MdOn(l) : MdLansOf(r) = {l}) =>
      LET up == {r \in MdOn(l) : md_run[r] = "up"} IN
      up # {} => \E r \in up : md_act[r][l]

\* With TTL_Check a packet enters the mesh only from the LAN it was sent on
\* and at most once per router there, even while there are two masters: the
\* copies MdPacketReceivedFromOLSR puts on a LAN are not captured again.
MdNoEcho ==
  MdCfg.check => \A p \in DOMAIN md_floods : md_floods[p] <= 1

\* The election gives every LAN its one master, and the traffic between the LANs and
\* the mesh does not feed back.
MdElected == MdOneMaster /\ MdServed /\ MdNoEcho
=============================================================================
