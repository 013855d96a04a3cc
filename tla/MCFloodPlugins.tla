--------------------------- MODULE MCFloodPlugins ---------------------------
(***************************************************************************)
(* One run for the plugins that carry the traffic of LANs over the mesh:   *)
(* the floods of BMF (Bmf), mdns (Mdns) and p2pd (P2pd) and the sockets of *)
(* the three (PluginSockets).  part says which one a behaviour is about;   *)
(* the others do not move.                                                 *)
(***************************************************************************)
EXTENDS Bmf, PluginSockets, Mdns, P2pd, TLC

VARIABLE part

-----------------------------------------------------------------------------
\* BMF: networks of four nodes, each with every choice of MPRs that covers the two-hop
\* neighbourhoods.
CONSTANTS na, nb, nc, nd

MCLink(x, y, w) == [ch |-> "r", a |-> x, b |-> y, cost |-> w]
MCSide(x, y, w) == [ch |-> "s", a |-> x, b |-> y, cost |-> w]
MCLan(S, T) == [n \in {na, nb, nc, nd} |-> (IF n \in S THEN {"l"} ELSE {}) \cup (IF n \in T THEN {"m"} ELSE {})]
MCPkt(i, s, d) == [id |-> i, src |-> s, dst |-> d]
MCOwn(n, d) == [from |-> "tun", at |-> n, if |-> "tun", pkt |-> MCPkt("p", n, d)]
MCHost(S, i, d) == [from |-> "host", at |-> S, if |-> i, pkt |-> MCPkt("q", "host", d)]
MCPast(n, S, i, d) == [from |-> "host", at |-> S, if |-> i, pkt |-> MCPkt("q", n, d)]

MCRing == {MCLink(na, nb, 1), MCLink(nb, nc, 1), MCLink(nc, nd, 1), MCLink(nd, na, 1)}
MCKite == {MCLink(na, nb, 1), MCLink(nb, nc, 1), MCLink(na, nc, 3), MCLink(nc, nd, 1)}
MCDual == {MCLink(na, nb, 1), MCSide(na, nb, 2), MCSide(nb, nc, 1), MCLink(nc, nd, 1), MCSide(na, nc, 2)}

MCCovers(links, n) ==
  {R \in SUBSET BmfNear([links |-> links], n) : BmfMprsCover([links |-> links], n, R)}
MCMprs(links) ==
  {(na :> x @@ nb :> y @@ nc :> z @@ nd :> w) :
     x \in MCCovers(links, na), y \in MCCovers(links, nb), z \in MCCovers(links, nc), w \in MCCovers(links, nd)}
\* ... without members that could be left out.
MCLean(links) ==
  {m \in MCMprs(links) : \A n \in BmfNodes : \A r \in m[n] :
     ~BmfMprsCover([links |-> links], n, m[n] \ {r})}

MCThree == {MCLink(na, nb, 1), MCLink(nb, nc, 1)}

MCBase ==
  [links |-> MCRing, lan |-> MCLan({}, {}), mech |-> "broadcast", fanout |-> 1, retransmit |-> 1,
   lq |-> TRUE, lossy |-> FALSE, bcast |-> TRUE, inputs |-> {MCOwn(na, "multicast")}]

MCNets ==
  << [MCBase EXCEPT !.fanout = 2],
     [MCBase EXCEPT !.mech = "promiscuous"],
     [MCBase EXCEPT !.links = MCKite],
     [MCBase EXCEPT !.links = MCDual, !.mech = "promiscuous"],
     [MCBase EXCEPT !.links = MCKite, !.lq = FALSE, !.inputs = {MCHost({na, nb}, "r", "multicast")}],
     [MCBase EXCEPT !.links = MCThree, !.lan = MCLan({na, nc}, {nb}), !.inputs = {MCHost({na, nc}, "l", "multicast")}],
     [MCBase EXCEPT !.links = MCThree, !.lan = MCLan({na, nc}, {nb}), !.inputs = {MCHost({nb}, "m", "m")}],
     [MCBase EXCEPT !.links = {MCLink(na, nb, 1)}, !.lan = MCLan({na, nb}, {}), !.lossy = TRUE, !.inputs = {MCOwn(na, "tun")}],
     [MCBase EXCEPT !.links = MCThree, !.fanout = 0, !.retransmit = 2],
     [MCBase EXCEPT !.links = MCDual, !.inputs = {MCPast(na, {na, nb}, "r", "multicast")}] >>

MCMprChoices ==
  [i \in DOMAIN MCNets |-> IF i <= 1 THEN MCMprs(MCRing) ELSE MCLean(MCNets[i].links)]

MCBiKernel == <<"w0", "e0", "w1">>

-----------------------------------------------------------------------------
\* mdns: two routers on one LAN, two with two LANs in different order, and with a third
\* router between two other LANs.
MCMdBase ==
  [lans |-> <<<<"a">>, <<"a">>>>, nid |-> <<1, 1>>, check |-> TRUE, v6 |-> FALSE, filtered |-> {"noisy"},
   copies |-> 1, losses |-> 0, stops |-> 0, packets |-> 0, settle |-> 34, up |-> FALSE]
MCMdThree ==
  [MCMdBase EXCEPT !.lans = <<<<"a">>, <<"a">>, <<"b", "c">>>>, !.nid = <<1, 1, 1>>, !.packets = 1,
                   !.settle = 10, !.up = TRUE]
MCMdNets ==
  << [MCMdBase EXCEPT !.stops = 1],
     [MCMdBase EXCEPT !.lans = <<<<"a", "b">>, <<"b", "a">>>>, !.losses = 2, !.settle = 17],
     MCMdThree,
     [MCMdThree EXCEPT !.v6 = TRUE, !.copies = 2] >>

-----------------------------------------------------------------------------
\* p2pd: three routers on two LANs, with each of the filters, two routers and packets too
\* short to be told apart, and a router between the LANs.
MCP2Base ==
  [lans |-> <<{"a"}, {"a"}, {"b"}>>, host |-> "b", hash |-> TRUE, dec |-> FALSE, long |-> TRUE,
   ttl |-> 3, copies |-> 1, listed |-> {1, 2, 3}, lossy |-> FALSE]
MCP2Nets ==
  << MCP2Base,
     [MCP2Base EXCEPT !.host = "a", !.dec = TRUE, !.ttl = 2],
     [MCP2Base EXCEPT !.hash = FALSE, !.dec = TRUE],
     [MCP2Base EXCEPT !.lans = <<{"a"}, {"a"}>>, !.listed = {1, 2}, !.dec = TRUE, !.long = FALSE, !.host = "a", !.ttl = 2],
     [MCP2Base EXCEPT !.lans = <<{"a"}, {"b"}>>, !.listed = {1, 2}, !.hash = FALSE, !.copies = 2],
     [MCP2Base EXCEPT !.lans = <<{"a", "c"}, {"a"}, {"b"}>>, !.listed = {1, 3}],
     [MCP2Base EXCEPT !.lans = <<{"a"}, {"a"}>>, !.listed = {1, 2}, !.host = "a", !.copies = 2, !.lossy = TRUE] >>

\* Two interfaces, the first with two addresses and so twice in the system's list.
MCLsSystem == <<"eth0", "eth1", "eth0">>

-----------------------------------------------------------------------------
\* The components a behaviour is not about stay in one state.
BmfRests == bmf_net = 8 /\ bmf_mpr = (CHOOSE m \in MCMprChoices[8] : TRUE) /\ BmfInit
BiRests ==
  /\ bi_set = [capture |-> FALSE, promisc |-> FALSE, ip |-> "unset"] /\ bi_olsr = {} /\ BiInit
MdRests == md_net = 1 /\ MdInit
P2Rests == p2_net = 1 /\ P2Init
LsRests == ls_plugin = "mdns" /\ LsInit

MCInit ==
  /\ part \in {"bmf", "bmf_interfaces", "mdns", "p2pd", "lan_sockets"}
  /\ IF part = "bmf" THEN BmfInit ELSE BmfRests
  /\ IF part = "bmf_interfaces" THEN BiInit ELSE BiRests
  /\ IF part = "mdns" THEN MdInit ELSE MdRests
  /\ IF part = "p2pd" THEN P2Init ELSE P2Rests
  /\ IF part = "lan_sockets" THEN LsInit ELSE LsRests

MCNext ==
  /\ \/ part = "bmf" /\ BmfNext /\ UNCHANGED <<bi_vars, md_vars, p2_vars, ls_vars>>
     \/ part = "bmf_interfaces" /\ BiNext /\ UNCHANGED <<bmf_vars, md_vars, p2_vars, ls_vars>>
     \/ part = "mdns" /\ MdNext /\ UNCHANGED <<bmf_vars, bi_vars, p2_vars, ls_vars>>
     \/ part = "p2pd" /\ P2Next /\ UNCHANGED <<bmf_vars, bi_vars, md_vars, ls_vars>>
     \/ part = "lan_sockets" /\ LsNext /\ UNCHANGED <<bmf_vars, bi_vars, md_vars, p2_vars>>
  /\ UNCHANGED part

MCSpec == MCInit /\ [][MCNext]_<<bmf_vars, bi_vars, md_vars, p2_vars, ls_vars, part>>
=============================================================================
