----------------------------- MODULE MCPlugins -----------------------------
(***************************************************************************)
(* One run for the plugins that work on their own and for the              *)
(* configuration: nameservice (NameService), the position updates (Pud,    *)
(* PudIo), secure (Secure), the configuration file (ConfigFile), jsoninfo  *)
(* and txtinfo (InfoServer).  part says which one a behaviour is about;    *)
(* the others do not move.                                                 *)
(***************************************************************************)
EXTENDS NameService, Pud, PudIo, Secure, ConfigFile, InfoServer

VARIABLE part

-----------------------------------------------------------------------------
\* nameservice.  In the first configuration, two nodes announce hosts, a service, a MAC
\* address and a position, one of them with other parameters after a restart, and the
\* hosts file may not be writable.  In the second, two nodes announce five name servers
\* whose routes come, go and change.
NsE(kind, name, ip, by) == [kind |-> kind, name |-> name, ip |-> ip, host |-> "", by |-> by]
NsS(name, host, by) == [kind |-> "service", name |-> name, ip |-> "0", host |-> host, by |-> by]
NsSelf(params) == [local |-> {"0"}, params |-> params]

MCNsNames == [
  self |-> NsSelf(<<NsE("host", "me", "0", "self")>>),
  peers |-> ("a" :> <<
               [local |-> {"a0", "a1"}, params |->
                 <<NsE("host", "box", "a0", "a"), NsE("host", "box2", "a1", "a"), NsE("host", "bad name", "a0", "a"),
                   NsS("web", "box", "a"), NsE("mac", "m", "0", "a"), NsE("latlon", "p1", "g", "a")>>],
               [local |-> {"a0"}, params |->
                 <<NsE("host", "box2", "a0", "a"), NsE("host", "lost", "a1", "a"), NsS("mail", "a1", "a"),
                   NsE("latlon", "p2", "g", "a")>>]>>)
        @@ ("b" :> <<[local |-> {"b0"}, params |-> <<NsE("host", "four", "b0", "b")>>]>>),
  order |-> <<"a", "b">>, cost |-> ("f" :> 0), costs |-> {0}, fragile |-> {"host"}, exits |-> TRUE,
  msgs |-> 2, restarts |-> 1, routes |-> 0]

NsF(ip, by) == NsE("forwarder", "", ip, by)
MCNsServers == [
  self |-> NsSelf(<<NsE("host", "me", "0", "self")>>),
  peers |-> ("a" :> <<[local |-> {"f1", "f2"}, params |-> <<NsF("f1", "a"), NsF("f2", "a"), NsF("x", "a")>>]>>)
        @@ ("b" :> <<[local |-> {"f3", "f4", "f5"}, params |->
                        <<NsF("f3", "b"), NsF("f4", "b"), NsF("f3", "b"), NsF("f5", "b")>>]>>),
  order |-> <<"a", "b">>,
  cost |-> ("f1" :> 2) @@ ("f2" :> 1) @@ ("f3" :> 3) @@ ("f4" :> 2) @@ ("f5" :> 0), costs |-> {0, 1},
  fragile |-> {"forwarder"}, exits |-> FALSE, msgs |-> 3, restarts |-> 0, routes |-> 1]

MCNsNets == <<MCNsNames, MCNsServers>>
MCNsPrefixes == {<<"box", "box2">>}

-----------------------------------------------------------------------------
\* Position updates: averaging, the movement state and the rates, the uplink gateway, and
\* a node whose position comes from a file.
\* A reading with the fields of given, the others absent.
MCReading(given, fix, sig) ==
  [present |-> DOMAIN given \cup {"fix", "sig"},
   val |-> [f \in PdNumbers |-> IF f \in DOMAIN given THEN given[f] ELSE 0],
   sig |-> sig, fix |-> fix, den |-> 1]

MCStill == MCReading([pos |-> 0, hdop |-> 1, speed |-> 0], 3, 3)
MCDrift == MCReading([pos |-> 1, hdop |-> 1, speed |-> 1], 2, 1)
MCFar == MCReading([pos |-> 9, speed |-> 1], 3, 3)
MCHigh == MCReading([elv |-> 9, vdop |-> 1, pos |-> 0, hdop |-> 2], 3, 2)
MCLost == MCReading([speed |-> 0], 1, 0)
MCNoFix == [MCReading([pos |-> 3, hdop |-> 1], 3, 3) EXCEPT !.present = {"pos", "hdop", "sig"}]

MCGw(addr, up, down) == [addr |-> addr, up |-> up, down |-> down, broken |-> FALSE, ok |-> TRUE]

MCPdBase ==
  [depth |-> 2, dop |-> 2, multiplier |-> 1, speed |-> 3, distance |-> 5,
   hysteresis |-> [position |-> [moving |-> 2, stationary |-> 2],
                   gateway |-> [moving |-> 1, stationary |-> 2]],
   interval |-> [moving |-> 5, stationary |-> 15],
   uplinkInterval |-> [moving |-> 10, stationary |-> 60],
   ttl |-> 1, uplink |-> TRUE, main_addr |-> 5, file |-> <<>>,
   readings |-> {MCStill, MCDrift, MCFar}, gateways |-> {<<>>}, files |-> {},
   bound |-> [reading |-> 4, gateway |-> 2, file |-> 0]]

MCAveraging ==
  [MCPdBase EXCEPT !.depth = 2, !.readings = {MCStill, MCDrift, MCHigh, MCLost, MCNoFix},
                 !.bound = [reading |-> 4, gateway |-> 0, file |-> 0], !.uplink = FALSE]

MCMovement == [MCPdBase EXCEPT !.bound = [reading |-> 5, gateway |-> 1, file |-> 0],
                             !.gateways = {<<>>, <<MCGw(1, 2, 2)>>}]

MCPdGateway ==
  [MCPdBase EXCEPT
     !.gateways = {<<>>, <<MCGw(1, 2, 2), MCGw(2, 1, 3)>>, <<MCGw(2, 1, 3), MCGw(1, 2, 2)>>,
                   <<MCGw(1, 9, 0), MCGw(2, 1, 1)>>,
                   <<[MCGw(1, 9, 9) EXCEPT !.broken = TRUE], [MCGw(2, 8, 8) EXCEPT !.ok = FALSE],
                     MCGw(3, 1, 1)>>},
     !.readings = {MCStill, MCFar}, !.bound = [reading |-> 2, gateway |-> 4, file |-> 0]]

MCFile ==
  [MCPdBase EXCEPT !.file = <<MCStill>>, !.files = {<<>>, <<MCFar>>, <<MCDrift>>}, !.ttl = 0,
                 !.bound = [reading |-> 2, gateway |-> 2, file |-> 2]]

MCPudConfigs == <<MCAveraging, MCMovement, MCPdGateway, MCFile>>

\* Set-ups with several interfaces, and streams of messages longer than the
\* de-duplication list.
MCPiMessage(orig, seq) ==
  [orig |-> orig, seq |-> seq, version |-> TRUE, fits |-> TRUE, position |-> TRUE, family |-> TRUE]

MCPiA == MCPiMessage(1, 1)
MCPiB == MCPiMessage(2, 1)
MCPiC == MCPiMessage(1, 2)
MCPiOwn == MCPiMessage(9, 1)
MCPiOld == [MCPiMessage(3, 1) EXCEPT !.version = FALSE]

MCPiPackets ==
  {<<MCPiA, MCPiB>>, <<MCPiC, [MCPiB EXCEPT !.fits = FALSE], MCPiA>>,
   <<[MCPiA EXCEPT !.position = FALSE], [MCPiB EXCEPT !.family = FALSE], MCPiC, MCPiC>>}

MCPiBase ==
  [rx |-> 2, tx |-> 2, uplink |-> TRUE, fileTimer |-> TRUE, loopback |-> FALSE,
   useDeDup |-> TRUE, depth |-> 2, averageDepth |-> 5, main_addr |-> 9, msgs |-> 0,
   messages |-> {}, packets |-> {}]

MCPudIoConfigs ==
  <<MCPiBase, [MCPiBase EXCEPT !.uplink = FALSE, !.fileTimer = FALSE, !.averageDepth = 1],
    [MCPiBase EXCEPT !.msgs = 5, !.depth = 3, !.packets = MCPiPackets,
                     !.messages = {MCPiA, MCPiB, MCPiC, MCPiOwn, MCPiOld}],
    [MCPiBase EXCEPT !.msgs = 4, !.depth = 1, !.loopback = TRUE, !.packets = MCPiPackets,
                     !.messages = {MCPiA, MCPiB, MCPiOwn}],
    [MCPiBase EXCEPT !.msgs = 3, !.useDeDup = FALSE, !.messages = {MCPiA, MCPiB}]>>

\* Sets of parameters; every order of each is tried.
MCSt(p, s, v) == [p |-> p, s |-> s, v |-> v, n |-> 1]

MCServed == {MCSt("interface", "rxNonOlsrIf", "eth0"), MCSt("interface", "txNonOlsrIf", "eth0")}

MCPcStatements ==
  <<MCServed \cup {MCSt("addr", "rxMc", "224.0.0.225"), MCSt("port", "rxMc", 3000),
                   MCSt("port", "txMc", 3001), MCSt("addr", "uplink", "10.0.0.1"),
                   MCSt("port", "uplink", 3002)},
    MCServed \cup {MCSt("addr", "uplink", "10.0.0.1"), MCSt("downlinkPort", "", 2241),
                   MCSt("number", "updateIntervalMoving", 70), MCSt("addr", "txMc", "10.0.0.2")},
    MCServed \cup {MCSt("interface", "rxNonOlsrIf", "eth1"), MCSt("interface", "rxNonOlsrIf", "eth2"),
                   [MCSt("interface", "txNonOlsrIf", "eth0") EXCEPT !.n = 2],
                   MCSt("allowed", "", "10.0.0.3"), MCSt("port", "rxMc", 0)},
    MCServed \cup {MCSt("addr", "rxMc", "bad"), MCSt("number", "averageDepth", 1),
                   MCSt("port", "uplink", 3002), MCSt("number", "olsrTtl", 0),
                   MCSt("number", "positionFilePeriod", 10)},
    {MCSt("number", "hysteresisCountToMoving", 0), MCSt("number", "txTtl", 0),
     MCSt("number", "updateIntervalMoving", 0), MCSt("downlinkPort", "", 0)},
    MCServed \cup {[MCSt("interface", "txNonOlsrIf", "eth0") EXCEPT !.n = 2],
                   MCSt("number", "averageDepth", 1), MCSt("port", "uplink", 3002),
                   MCSt("nodeId", "", <<3, "none">>), MCSt("number", "useDeDup", 0), MCSt("number", "dopMultiplier", 2)},
    {MCSt("nodeId", "", <<1, "none">>), MCSt("nodeId", "", <<7, "out of range">>),
     MCSt("nodeId", "", <<-1, "too long">>), MCSt("nodeId", "", <<11, "5">>)}>>

-----------------------------------------------------------------------------
\* secure: clocks read in step and out of step, old answers under way, a restart, and two
\* nodes with different keys.
MCSecBase ==
  [hold |-> 6, exchange |-> 2, key |-> [a |-> 1, b |-> 1], clock |-> [a |-> 0, b |-> 10],
   phase |-> [a |-> 0, b |-> 1], air |-> 1, challenges |-> 2, garbage |-> {0},
   delay |-> 1, time |-> 7, duplicates |-> FALSE, restart |-> {}]

MCSecConfigs ==
  <<MCSecBase,
    [MCSecBase EXCEPT !.phase = [a |-> 0, b |-> 0], !.time = 5, !.air = 2],
    [MCSecBase EXCEPT !.delay = 3, !.duplicates = TRUE, !.time = 3, !.challenges = 3],
    [MCSecBase EXCEPT !.restart = {4}, !.delay = 4, !.time = 6],
    [MCSecBase EXCEPT !.key = [a |-> 1, b |-> 2], !.garbage = {0, SecFar}, !.time = 6]>>

-----------------------------------------------------------------------------
\* Configuration files: interface blocks and defaults, the command line, policy routing,
\* plugins, and several gateways at once.
CfSet(o, v) == <<"set", o, v>>
CfMult(a, v) == <<"mult", a, v>>
CfOpt(o, v) == <<"opt", o, v>>
CfIf(names, body) == <<"if", names, body>>
CfIfDef(body) == <<"ifdef", body>>
MCIfStatements ==
  {CfIf(<<"a">>, <<>>), CfIf(<<"b">>, <<CfSet("hello_int", 5)>>), CfIf(<<"b", "a">>, <<CfSet("mode", 1)>>),
   CfIf(<<"a">>, <<CfSet("mode", 0), CfMult("n1", 50)>>), CfIf(<<"b">>, <<CfMult("any", 80)>>),
   CfIf(<<"a", "a">>, <<CfSet("hello_val", 40)>>),
   CfIfDef(<<CfSet("mode", 1), CfMult("n1", 20)>>), CfIfDef(<<CfSet("hello_int", 30), CfSet("autodetect", 0)>>),
   CfIfDef(<<CfMult("any", 10), CfMult("n2", 0)>>)}
MCCfInterfaces == [start |-> <<>>, stmts |-> MCIfStatements, len |-> 4, files |-> 1, args |-> {}, nargs |-> 0]
MCCfCommandLine ==
  [start |-> <<>>, stmts |-> MCIfStatements, len |-> 2, files |-> 2,
   args |-> {<<"-i", "a">>, <<"-i", "c">>, <<"-hint", 4>>, <<"-ipv6", 0>>, <<"-lql", 0>>, <<"-lql", 1>>}, nargs |-> 2]
MCCfPolicy ==
  [start |-> <<CfIf(<<"a">>, <<>>)>>,
   stmts |-> {CfOpt("smart_gw", 1), CfOpt("table", 100), CfOpt("table_default", 100),
              CfOpt("table_default", 254), CfOpt("table_tunnel", 254),
              CfOpt("olsr_pri", 32776), CfOpt("tunnel_pri", 32786)}
             \cup {CfOpt(o, v) : o \in {"pri", "olsr_pri", "tunnel_pri", "default_pri"}, v \in {NONE, 50, 55}},
   len |-> 4, files |-> 1, args |-> {}, nargs |-> 0]
MCCfPlugins ==
  [start |-> <<CfIf(<<"a">>, <<>>)>>,
   stmts |-> {<<"plugin", "p", <<"x">>>>, <<"plugin", "q", <<"y", "z">>>>, <<"plugin", "p", <<"z">>>>,
              <<"egress", <<"e">>>>, <<"egress", <<"f", "e">>>>, <<"hna", 4, "net">>, <<"hna", 6, "net">>,
              CfOpt("rt_proto", 1), CfOpt("plain", 5), CfOpt("ip", 6), CfOpt("ip", 5)},
   len |-> 4, files |-> 2, args |-> {}, nargs |-> 0]
MCCfMulti ==
  [start |-> <<CfIf(<<"a">>, <<>>), CfOpt("use_count", 2), <<"script">>>>,
   stmts |-> {CfIf(<<"b">>, <<>>), CfOpt("use_count", 1), <<"egress", <<"e">>>>, <<"egress", <<"f", "e">>>>,
              <<"egress", <<"a">>>>}
             \cup {CfOpt("rules", v) : v \in {1, 32760, 32764, 32768}}
             \cup {CfOpt("tables", v) : v \in {0, 2, 3, 4, 247, 248, 250, 256, 297, 298}},
   len |-> 6, files |-> 1, args |-> {}, nargs |-> 0]
MCVoc ==
  [interfaces |-> MCCfInterfaces, cmdline |-> MCCfCommandLine, policy |-> MCCfPolicy, plugins |-> MCCfPlugins,
   multi |-> MCCfMulti]

-----------------------------------------------------------------------------
\* jsoninfo, txtinfo and httpinfo: tables with none, one and two entries of everything, single
\* sections and all of them, and up to four clients, one of them refused.
MCIsNone ==
  [neigh |-> <<>>, links |-> <<>>, routes |-> <<>>, topo |-> <<>>, hna |-> <<>>, mid |-> <<>>,
   gws |-> <<>>, ifs |-> <<>>, plugins |-> <<>>, tunnels |-> <<>>, mults |-> <<>>, own |-> <<>>,
   ipc |-> <<>>, sgw |-> FALSE, uuid |-> FALSE]

MCIsOne ==
  [neigh |-> <<[addr |-> 1, hops |-> <<>>]>>, links |-> <<11>>, routes |-> <<21>>,
   topo |-> <<[edges |-> <<[dest |-> 31, inv |-> FALSE]>>]>>, hna |-> <<[nets |-> <<41>>]>>,
   mid |-> <<[main |-> 51, aliases |-> <<>>]>>,
   gws |-> <<[addr |-> 61, tc |-> FALSE, v4 |-> TRUE, v6 |-> FALSE, plen |-> 0]>>,
   ifs |-> <<[name |-> 71, up |-> FALSE, mults |-> <<>>, sys |-> <<>>]>>,
   plugins |-> <<[name |-> 81, params |-> <<>>]>>,
   tunnels |-> <<[addr |-> 91, used |-> TRUE, tc |-> TRUE]>>, mults |-> <<1>>, own |-> <<101>>,
   ipc |-> <<1>>, sgw |-> TRUE, uuid |-> TRUE]

MCIsTwo ==
  [neigh |-> <<[addr |-> 1, hops |-> <<3, 4>>], [addr |-> 2, hops |-> <<5>>]>>, links |-> <<11, 12>>,
   routes |-> <<21, 22>>,
   topo |-> <<[edges |-> <<[dest |-> 31, inv |-> TRUE], [dest |-> 32, inv |-> FALSE]>>],
              [edges |-> <<[dest |-> 33, inv |-> TRUE]>>]>>,
   hna |-> <<[nets |-> <<41, 42>>], [nets |-> <<43>>]>>,
   mid |-> <<[main |-> 51, aliases |-> <<53, 54>>], [main |-> 52, aliases |-> <<55>>]>>,
   gws |-> <<[addr |-> 61, tc |-> TRUE, v4 |-> FALSE, v6 |-> FALSE, plen |-> 8],
             [addr |-> 62, tc |-> TRUE, v4 |-> FALSE, v6 |-> TRUE, plen |-> 0]>>,
   ifs |-> <<[name |-> 71, up |-> TRUE, mults |-> <<1, 2>>, sys |-> <<"carrier", "flags">>],
             [name |-> 72, up |-> FALSE, mults |-> <<>>, sys |-> <<"carrier">>]>>,
   plugins |-> <<[name |-> 81, params |-> <<"a", "b">>], [name |-> 82, params |-> <<>>]>>,
   tunnels |-> <<[addr |-> 91, used |-> FALSE, tc |-> TRUE], [addr |-> 92, used |-> TRUE, tc |-> FALSE],
                 [addr |-> 93, used |-> TRUE, tc |-> TRUE]>>,
   mults |-> <<1, 2>>, own |-> <<101, 102>>, ipc |-> <<1, 2>>, sgw |-> TRUE, uuid |-> FALSE]

MCIsTables == <<MCIsNone, MCIsOne, MCIsTwo>>

MCIsText == {{}, {"runtime"}, {"startup"}, {"olsrd.conf"}, {"neighbours"}, {"mid", "config"},
              {"all", "gateways"}}
             \cup {{w} : w \in {"neighbors", "links", "routes", "hna", "mid", "topology", "gateways",
                               "interfaces", "2hop", "sgw", "version", "config", "plugins"}}

MCIsWords ==
  [json |-> MCIsText, txt |-> MCIsText,
   http |-> {{}, {"favicon.ico"}, {"nowhere"}} \cup {{w} : w \in DOMAIN HtPage}]

MCIsConfigs ==
  <<[kind |-> "json", clients |-> 1, refused |-> {}, many |-> TRUE, tables |-> {1, 2, 3}],
    [kind |-> "txt", clients |-> 1, refused |-> {}, many |-> TRUE, tables |-> {1, 2, 3}],
    [kind |-> "json", clients |-> 2, refused |-> {}, many |-> FALSE, tables |-> {2, 3}],
    [kind |-> "txt", clients |-> 4, refused |-> {4}, many |-> FALSE, tables |-> {3}],
    [kind |-> "http", clients |-> 1, refused |-> {}, many |-> TRUE, tables |-> {1, 2, 3}],
    [kind |-> "http", clients |-> 3, refused |-> {3}, many |-> FALSE, tables |-> {3}]>>

-----------------------------------------------------------------------------
\* The components a behaviour is not about stay in one state.
MCInit ==
  /\ part \in {"names", "pud", "pud_io", "pud_config", "secure", "config", "info"}
  /\ IF part = "names" THEN NsInit ELSE ns_net = 1 /\ NsInit
  /\ IF part = "pud" THEN PdInit ELSE PdInitFor(1)
  /\ IF part = "pud_io" THEN PiInit ELSE PiInitFor(1)
  /\ IF part = "pud_config" THEN PcInit ELSE pc_given = 1 /\ PcInit
  /\ IF part = "secure" THEN SecInit ELSE SecInitFor(1)
  /\ IF part = "config" THEN CfInit ELSE voc = "interfaces" /\ CfInit
  /\ IF part = "info" THEN IsInit ELSE IsInitFor(1)

MCNext ==
  /\ \/ part = "names" /\ NsNext
        /\ UNCHANGED <<pd_vars, pi_vars, pc_vars, sec_vars, cf_vars, is_vars>>
     \/ part = "pud" /\ PdNext
        /\ UNCHANGED <<ns_vars, pi_vars, pc_vars, sec_vars, cf_vars, is_vars>>
     \/ part = "pud_io" /\ PiNext
        /\ UNCHANGED <<ns_vars, pd_vars, pc_vars, sec_vars, cf_vars, is_vars>>
     \/ part = "pud_config" /\ PcNext
        /\ UNCHANGED <<ns_vars, pd_vars, pi_vars, sec_vars, cf_vars, is_vars>>
     \/ part = "secure" /\ SecNext
        /\ UNCHANGED <<ns_vars, pd_vars, pi_vars, pc_vars, cf_vars, is_vars>>
     \/ part = "config" /\ CfNext
        /\ UNCHANGED <<ns_vars, pd_vars, pi_vars, pc_vars, sec_vars, is_vars>>
     \/ part = "info" /\ IsNext
        /\ UNCHANGED <<ns_vars, pd_vars, pi_vars, pc_vars, sec_vars, cf_vars>>
  /\ UNCHANGED part

MCSpec ==
  MCInit /\ [][MCNext]_<<ns_vars, pd_vars, pi_vars, pc_vars, sec_vars, cf_vars, is_vars, part>>

\* What one step may do: a change of PUD's movement state takes the readings its hysteresis
\* asks for, and secure forgets no node while its exchange may be under way.
PluginStepsSound == PdHysteresis /\ SecExchangeKept
=============================================================================
