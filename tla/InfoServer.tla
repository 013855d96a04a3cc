----------------------------- MODULE InfoServer -----------------------------
(***************************************************************************)
(* The plugins that answer a request with the daemon's tables:             *)
(* lib/jsoninfo, lib/txtinfo and lib/httpinfo.  A connection is accepted   *)
(* and its request read in one callback, the whole reply is built from the *)
(* tables at once, and a timer writes the pending replies piece by piece.  *)
(*                                                                         *)
(* A table entry is an identity, different for every entry of every table. *)
(* A reply is a sequence of tokens <<kind, key, value>>: the value is the  *)
(* identity of the entry it tells of, and 0 elsewhere; JSON tokens also    *)
(* have their indentation (abuf_json_new_indent).  A run of plain          *)
(* fields that are always printed stands as its first one.  A reply is     *)
(* written in IS_PIECES pieces, and only read as a whole by the properties.*)
(*                                                                         *)
(* Definitions named X_Word are mutated forms of X.                        *)
(***************************************************************************)
EXTENDS Integers, Sequences, FiniteSets, FiniteSetsExt, SequencesExt

CONSTANTS
  IS_CONFIGS,    \* a sequence of records [kind, clients, refused, many, tables]
  IS_WORDS,      \* the requests to each kind of server, as sets of words
  IS_TABLES,     \* a sequence of tables, as in MCPlugins
  MAX_CLIENTS,
  IS_PIECES

VARIABLES
  is_cfg,
  is_listen,     \* "off", "open" or, with the handler registered, "on"
  is_client,     \* per client: "new", "waiting", "asked", "accepted", "closed" or "gone"
  is_out,        \* outbuffer: a sequence of [sock, what, tab, written]
  is_timer,      \* whether writetimer_entry runs
  is_got,        \* per client: the pieces that arrived
  is_blocked,    \* <<c>> while the daemon waits for the request of client c
  is_tab         \* the present tables

is_vars == <<is_cfg, is_listen, is_client, is_out, is_timer, is_got, is_blocked, is_tab>>

IsCnf == IS_CONFIGS[is_cfg]
IsClients == 1..IsCnf.clients
IsJsonInfo == IsCnf.kind = "json"
IsHttp == IsCnf.kind = "http"
IsWords == IF IsCnf.many THEN IS_WORDS[IsCnf.kind] ELSE {{"links"}}

----------------------------------------------------------------------------
\* jsoninfo: tokens are appended under the control of two counters.

JsNew == [depth |-> 0, entry |-> [d \in 0..15 |-> 0], out |-> <<>>]

abuf_json_insert_comma(j) ==
  IF j.entry[j.depth] # 0 THEN [j EXCEPT !.out = Append(@, <<",", "", 0, j.depth>>)] ELSE j

abuf_json_string(j, key, value) ==
  LET k == abuf_json_insert_comma(j)
  IN [k EXCEPT !.out = Append(@, <<"field", key, value, j.depth>>), !.entry[j.depth] = @ + 1]

abuf_json_mark_output(j, open) ==
  IF open THEN [j EXCEPT !.out = Append(@, <<"{", "", 0, 0>>), !.depth = 1, !.entry[1] = 0]
  ELSE [j EXCEPT !.out = Append(@, <<"}", "", 0, j.depth - 1>>), !.depth = @ - 1, !.entry[j.depth] = 0]

abuf_json_mark_object(j, open, array, header) ==
  IF open
    THEN LET k == abuf_json_insert_comma(j)
         IN [k EXCEPT !.out = Append(@, <<IF array THEN "[" ELSE "{", header, 0, j.depth>>),
                      !.entry[j.depth] = @ + 1, !.entry[j.depth + 1] = 0, !.depth = @ + 1]
    ELSE [j EXCEPT !.out = Append(@, <<IF array THEN "]" ELSE "}", "", 0, j.depth - 1>>),
                   !.entry[j.depth] = 0, !.depth = @ - 1]

abuf_json_mark_array_entry(j, open) == abuf_json_mark_object(j, open, FALSE, "")

\* Every element of a list as an object of the array with the given key; an element
\* leaves the depth as it finds it.
JsArray(j, key, elements, Body(_, _)) ==
  LET open == abuf_json_mark_object(j, TRUE, TRUE, key)
      Element(acc, e) ==
        IF acc.depth # open.depth THEN acc
        ELSE abuf_json_mark_array_entry(Body(abuf_json_mark_array_entry(acc, TRUE), e), FALSE)
  IN abuf_json_mark_object(FoldLeft(Element, open, elements), FALSE, TRUE, "")

\* An entry with a key and nothing that depends on the tables.
JsPlain(j, key) == abuf_json_string(j, key, 0)

JsPlainIf(b, j, key) == IF b THEN JsPlain(j, key) ELSE j

\* A list of lists, with Of giving the rows an entry contributes.
IsFlat(list, Of(_)) == FlattenSeq([i \in 1..Len(list) |-> Of(list[i])])

JsNeighbors(j, t, list_2hop) ==
  LET Hop(acc, h) == abuf_json_string(acc, "ipAddress", h)
      Body(acc, n) == LET k == abuf_json_string(acc, "ipAddress", n.addr)
                      IN IF list_2hop THEN JsArray(k, "twoHopNeighbors", n.hops, Hop)
                         ELSE JsPlain(k, "twoHopNeighborCount")
  IN JsArray(j, IF list_2hop THEN "2hop" ELSE "neighbors", t.neigh, Body)

JsLinks(j, t) ==
  LET Body(acc, l) == abuf_json_string(acc, "localIP", l) IN JsArray(j, "links", t.links, Body)

JsRoutes(j, t) ==
  LET Body(acc, r) == abuf_json_string(acc, "destination", r) IN JsArray(j, "routes", t.routes, Body)

JsTopology(j, t) ==
  LET Edges(tc) == SelectSeq(tc.edges, LAMBDA e : e.inv)
      Body(acc, e) == abuf_json_string(acc, "destinationIP", e.dest)
  IN JsArray(j, "topology", IsFlat(t.topo, Edges), Body)

JsHna(j, t) ==
  LET Nets(h) == h.nets
      Body(acc, n) == abuf_json_string(acc, "destination", n)
  IN JsArray(j, "hna", IsFlat(t.hna, Nets), Body)

JsMid(j, t) ==
  LET Alias(acc, a) == abuf_json_string(acc, "ipAddress", a)
      Body(acc, m) == JsArray(abuf_json_string(acc, "ipAddress", m.main), "aliases", m.aliases, Alias)
  IN JsArray(j, "mid", t.mid, Body)

\* A gateway whose node has left the topology is passed over.
JsGateways(j, t) ==
  LET Body(acc, g) ==
        JsPlainIf(g.plen = 0,
                  abuf_json_string(JsPlainIf(g.v4 \/ g.v6, acc, "ipv4Status"), "ipAddress", g.addr),
                  "externalPrefix")
  IN JsArray(j, "gateways", SelectSeq(t.gws, LAMBDA g : g.tc), Body)

JsPlugins(j, t) ==
  LET Body(acc, p) == FoldLeft(JsPlain, abuf_json_string(acc, "plugin", p.name), p.params)
  IN JsArray(j, "plugins", t.plugins, Body)

\* The tunnels of one address family, an object with one array in it.
JsSgwIpvx(j, t, key, tunnels) ==
  LET Used == SelectSeq(tunnels, LAMBDA g : g.used /\ g.tc)
      Body(acc, g) == abuf_json_string(JsPlain(acc, "selected"), "originator", g.addr)
  IN abuf_json_mark_array_entry(
       JsArray(abuf_json_mark_array_entry(j, TRUE), key, IF t.sgw THEN Used ELSE <<>>, Body), FALSE)

JsSgw(j, t) ==
  LET k == abuf_json_mark_object(j, TRUE, TRUE, "sgw")
      four == JsSgwIpvx(k, t, "ipv4", t.tunnels)
  IN abuf_json_mark_object(JsSgwIpvx(four, t, "ipv6", <<>>), FALSE, TRUE, "")

JsVersion(j) ==
  abuf_json_mark_object(JsPlain(abuf_json_mark_object(j, TRUE, FALSE, "version"), "version"), FALSE, FALSE, "")

JsConfigLists(j, t) ==
  LET Mult(acc, m) == JsPlain(acc, "route")
      Hna(acc, h) == abuf_json_string(acc, "destination", h)
      Net(acc, n) == JsPlain(acc, "ipAddress")
  IN JsArray(JsPlain(JsArray(
               JsArray(JsPlain(j, "olsrPort"), "defaultLinkQualityMultipliers", t.mults, Mult),
               "hna", t.own, Hna), "totalIpcConnectionsAllowed"), "ipcAllowedAddresses", t.ipc, Net)

JsConfig(j, t) ==
  LET lists == JsConfigLists(abuf_json_mark_object(j, TRUE, FALSE, "config"), t)
  IN abuf_json_mark_object(
       JsPlain(JsPlainIf(t.sgw, JsPlain(lists, "pollRate"), "smartGatewayUseCount"), "mainIpAddress"),
       FALSE, FALSE, "")

JsInterfaces(j, t) ==
  LET Mult(acc, m) == JsPlain(acc, "route")
      Body(acc, i) ==
        LET k == JsArray(abuf_json_string(acc, "name", i.name), "linkQualityMultipliers", i.mults, Mult)
        IN FoldLeft(JsPlain, JsPlainIf(i.up, JsPlain(k, "state"), "nameFromKernel"), i.sys)
  IN JsArray(j, "interfaces", t.ifs, Body)

\* The sections in the order in which they are printed.
JsSections == <<"neighbors", "links", "routes", "hna", "mid", "topology", "gateways", "interfaces",
                "2hop", "sgw", "version", "config", "plugins">>

JsSection(j, t, s) ==
  CASE s = "neighbors" -> JsNeighbors(j, t, FALSE)
    [] s = "links" -> JsLinks(j, t)
    [] s = "routes" -> JsRoutes(j, t)
    [] s = "hna" -> JsHna(j, t)
    [] s = "mid" -> JsMid(j, t)
    [] s = "topology" -> JsTopology(j, t)
    [] s = "gateways" -> JsGateways(j, t)
    [] s = "interfaces" -> JsInterfaces(j, t)
    [] s = "2hop" -> JsNeighbors(j, t, TRUE)
    [] s = "sgw" -> JsSgw(j, t)
    [] s = "version" -> JsVersion(j)
    [] s = "config" -> JsConfig(j, t)
    [] s = "plugins" -> JsPlugins(j, t)

\* send_info: the JSON output, or the configuration file by itself.
JsReply(what, t) ==
  IF what = {"olsrd.conf"} THEN <<<<"text", "olsrd.conf", 0>>>>
  ELSE abuf_json_mark_output(
         FoldLeft(LAMBDA acc, s : IF acc.depth = 1 /\ s \in what THEN JsSection(acc, t, s) ELSE acc,
                  JsPlainIf(t.uuid, JsPlain(abuf_json_mark_output(JsNew, TRUE), "systemTime"), "uuid"),
                  JsSections), FALSE).out

\* What the words of a request ask for.
JsAsked(words) ==
  LET runtime == {"neighbors", "links", "routes", "hna", "mid", "topology", "gateways", "interfaces",
                  "2hop", "sgw"}
      startup == {"version", "config", "plugins"}
      some == (words \cap (runtime \cup startup))
                \cup (IF "runtime" \in words THEN runtime ELSE {})
                \cup (IF "startup" \in words THEN startup ELSE {})
  IN IF "olsrd.conf" \in words THEN {"olsrd.conf"}
     ELSE IF "all" \in words \/ some = {} THEN runtime \cup startup ELSE some

----------------------------------------------------------------------------
\* txtinfo: a heading and a row for every entry.

TxRows(section, ids) == <<<<"table", section, 0>>>> \o [i \in 1..Len(ids) |-> <<"row", section, ids[i]>>]

TxNeigh(t, list_2hop) ==
  LET Rows(n) == IF list_2hop THEN <<n.addr>> \o n.hops ELSE <<n.addr>>
  IN TxRows(IF list_2hop THEN "2hop" ELSE "neighbors", IsFlat(t.neigh, Rows))

TxLink(t) == TxRows("links", t.links)

TxRoutes(t) == TxRows("routes", t.routes)

TxTopology(t) ==
  LET Rows(tc) == LET inv == SelectSeq(tc.edges, LAMBDA e : e.inv)
                  IN [i \in 1..Len(inv) |-> inv[i].dest]
  IN TxRows("topology", IsFlat(t.topo, Rows))

\* txtinfo also lists the networks the node announces itself.
TxHna(t) == LET Nets(h) == h.nets IN TxRows("hna", t.own \o IsFlat(t.hna, Nets))

TxSgw(t) ==
  LET used == IF t.sgw THEN SelectSeq(t.tunnels, LAMBDA g : g.used /\ g.tc) ELSE <<>>
  IN TxRows("sgw", [i \in 1..Len(used) |-> used[i].addr])

\* An entry and its aliases share a row.
TxMid(t) == LET Rows(m) == <<m.main>> \o m.aliases IN TxRows("mid", IsFlat(t.mid, Rows))

TxGateway(t) ==
  LET known == SelectSeq(t.gws, LAMBDA g : g.tc)
  IN TxRows("gateways", [i \in 1..Len(known) |-> known[i].addr])

TxInterface(t) == TxRows("interfaces", [i \in 1..Len(t.ifs) |-> t.ifs[i].name])

TxSections == <<"links", "neighbors", "topology", "hna", "sgw", "mid", "routes", "gateways", "config",
                "interfaces", "2hop", "version">>

TxSection(t, s) ==
  CASE s = "links" -> TxLink(t)
    [] s = "neighbors" -> TxNeigh(t, FALSE)
    [] s = "topology" -> TxTopology(t)
    [] s = "hna" -> TxHna(t)
    [] s = "sgw" -> TxSgw(t)
    [] s = "mid" -> TxMid(t)
    [] s = "routes" -> TxRoutes(t)
    [] s = "gateways" -> TxGateway(t)
    [] s = "interfaces" -> TxInterface(t)
    [] s = "2hop" -> TxNeigh(t, TRUE)
    [] OTHER -> TxRows(s, <<>>)

TxReply(what, t) == FlattenSeq([i \in 1..Len(TxSections) |->
                                  IF TxSections[i] \in what THEN TxSection(t, TxSections[i]) ELSE <<>>])

TxAsked(words) ==
  LET all == {"neighbors", "links", "routes", "hna", "mid", "topology"}
      more == {"gateways", "config", "interfaces", "2hop", "version", "sgw"}
      some == (IF "all" \in words THEN all ELSE words \cap all) \cup (words \cap more)
  IN IF "neighbours" \in words THEN {"neighbors", "links"} ELSE IF some = {} THEN all ELSE some

----------------------------------------------------------------------------
\* httpinfo: pages of several tables.

build_config_body(t) ==
  TxRows("config", [i \in 1..Len(t.ifs) |-> t.ifs[i].name] \o [i \in 1..Len(t.plugins) |-> t.plugins[i].name]
                   \o t.own)

build_neigh_body(t) == TxLink(t) \o TxNeigh(t, TRUE)

build_routes_body(t) == TxRows("routes", t.routes)

build_topo_body(t) ==
  LET Rows(tc) == LET inv == SelectSeq(tc.edges, LAMBDA e : e.inv)
                  IN [i \in 1..Len(inv) |-> inv[i].dest]
  IN TxRows("topology", IsFlat(t.topo, Rows))

build_mid_body(t) == LET Rows(m) == <<m.main>> \o m.aliases IN TxRows("mid", IsFlat(t.mid, Rows))

\* The gateways that have a tunnel, whether or not their node is known.
build_sgw_body(t) ==
  LET used == IF t.sgw THEN SelectSeq(t.tunnels, LAMBDA g : g.used) ELSE <<>>
  IN TxRows("sgw", [i \in 1..Len(used) |-> used[i].addr])

build_nodes_body(t) == build_neigh_body(t) \o build_topo_body(t) \o build_mid_body(t)

build_all_body(t) ==
  build_config_body(t) \o build_routes_body(t) \o build_nodes_body(t) \o build_sgw_body(t)

\* tab_entries: the tables of each page.
HtPage ==
  [config |-> {"config"}, routes |-> {"routes"}, nodes |-> {"links", "2hop", "topology", "mid"},
   sgw |-> {"sgw"}, all |-> {"config", "routes", "links", "2hop", "topology", "mid", "sgw"},
   about |-> {"about"}, cfgfile |-> {"olsrd.conf"}]

HtReply(what, t) ==
  CASE what = HtPage.config -> build_config_body(t)
    [] what = HtPage.routes -> build_routes_body(t)
    [] what = HtPage.nodes -> build_nodes_body(t)
    [] what = HtPage.sgw -> build_sgw_body(t)
    [] what = HtPage.all -> build_all_body(t)
    [] OTHER -> <<<<"text", "", 0>>>>

\* A request names a page, one of the files, or something that is answered with an error;
\* no name means the first page.
HtAsked(words) ==
  IF words = {} THEN HtPage.config
  ELSE IF \E w \in words : w \in DOMAIN HtPage THEN HtPage[CHOOSE w \in words : w \in DOMAIN HtPage]
  ELSE IF words \subseteq {"favicon.ico", "logo.gif", "grayline.gif", "httpinfo.css"} THEN {"file"}
  ELSE {"error"}

IsAsked(words) ==
  CASE IsCnf.kind = "json" -> JsAsked(words)
    [] IsCnf.kind = "txt" -> TxAsked(words)
    [] IsCnf.kind = "http" -> HtAsked(words)

----------------------------------------------------------------------------
IsInitFor(c) ==
  /\ is_cfg = c
  /\ is_listen = "off"
  /\ is_client = [k \in IsClients |-> "new"]
  /\ is_out = <<>> /\ is_timer = FALSE
  /\ is_got = [k \in IsClients |-> <<>>]
  /\ is_blocked = <<>>
  /\ is_tab = Min(IsCnf.tables)

IsInit == \E c \in 1..Len(IS_CONFIGS) : IsInitFor(c)

\* plugin_ipc_init: any of its calls may fail, and the result is not looked at;
\* httpinfo closes its socket and ends the daemon then.
IsStart ==
  /\ is_listen = "off"
  /\ \E r \in {"failed", "on"} \cup (IF IsHttp THEN {} ELSE {"open"}) : is_listen' = r
  /\ UNCHANGED <<is_cfg, is_client, is_out, is_timer, is_got, is_blocked, is_tab>>

\* A client connects, and sends its request at once or later.
IsConnect(c) ==
  /\ is_listen = "on"
  /\ is_client[c] = "new"
  /\ \E s \in {"waiting", "asked"} : is_client' = [is_client EXCEPT ![c] = s]
  /\ UNCHANGED <<is_cfg, is_listen, is_out, is_timer, is_got, is_blocked, is_tab>>

\* The daemon's tables change, unless it waits.
IsTables ==
  /\ is_blocked = <<>>
  /\ is_tab' \in IsCnf.tables
  /\ UNCHANGED <<is_cfg, is_listen, is_client, is_out, is_timer, is_got, is_blocked>>

\* send_info: the reply as of now, behind the others.
send_info(c, words) ==
  /\ is_out' = Append(is_out, [sock |-> c, what |-> IsAsked(words), tab |-> is_tab, written |-> 0])
  /\ is_timer' = (is_timer \/ Len(is_out) = 0)

\* ipc_action, parse_http_request.  txtinfo and httpinfo leave the connection where it is
\* while their table is full.
\* jsoninfo does not look; the clients of a configuration are then at most MAX_CLIENTS.
\* Without a request recv waits for one, and the daemon with it, and so it does for more
\* of a request that fills the buffer; in httpinfo it gives up after a moment, and closes
\* the connection as it does when a call fails or the request makes no sense.  An accept
\* that fails leaves everything as it is.
ipc_action(c) ==
  /\ is_blocked = <<>>
  /\ is_client[c] \in {"waiting", "asked"}
  /\ ~IsJsonInfo => Len(is_out) < MAX_CLIENTS
  /\ \/ /\ c \in IsCnf.refused \/ IsHttp
        /\ is_client' = [is_client EXCEPT ![c] = "closed"]
        /\ UNCHANGED <<is_out, is_timer, is_blocked>>
     \/ /\ c \notin IsCnf.refused /\ ~IsHttp
        /\ is_blocked' = <<c>>
        /\ is_client' = [is_client EXCEPT ![c] = "waiting"]
        /\ UNCHANGED <<is_out, is_timer>>
     \/ /\ c \notin IsCnf.refused /\ is_client[c] = "asked"
        /\ \E words \in IsWords : send_info(c, words)
        /\ is_client' = [is_client EXCEPT ![c] = "accepted"]
        /\ UNCHANGED is_blocked
  /\ UNCHANGED <<is_cfg, is_listen, is_got, is_tab>>

\* The client sends its request, or ends the connection; a daemon that waited for it goes
\* on in the same callback.
IsRequest(c) ==
  /\ is_client[c] = "waiting"
  /\ \/ is_blocked = <<>> /\ is_client' = [is_client EXCEPT ![c] = "asked"] /\ UNCHANGED <<is_out, is_timer, is_blocked>>
     \/ /\ is_blocked = <<c>> /\ is_blocked' = <<>>
        /\ \E words \in IsWords \cup {{}} : send_info(c, words)
        /\ is_client' = [is_client EXCEPT ![c] = "accepted"]
  /\ UNCHANGED <<is_cfg, is_listen, is_got, is_tab>>

\* The loop of jsoninfo_write_data, txtinfo_write_data and httpinfo_write_data: sent is what each send()
\* moves, 0 for an error.  A finished entry is closed, and the next one takes its place
\* and is passed over this time.
RECURSIVE IsWriteFrom(_, _, _, _)
IsWriteFrom(i, s, ready, sent) ==
  IF i > Len(s.out) THEN s
  ELSE LET e == s.out[i]
           n == IF sent[e.sock] > IS_PIECES - e.written THEN IS_PIECES - e.written ELSE sent[e.sock]
           w == [e EXCEPT !.written = @ + n]
           got == [s.got EXCEPT ![e.sock] = @ \o [k \in 1..n |-> <<e.what, e.tab, e.written + k>>]]
       IN IF ~(e.sock \in ready) THEN IsWriteFrom(i + 1, s, ready, sent)
          ELSE IF n = 0 \/ w.written = IS_PIECES
            THEN IsWriteFrom(i + 1, [out |-> RemoveAt(s.out, i), got |-> got,
                                     closed |-> Append(s.closed, e.sock)], ready, sent)
          ELSE IsWriteFrom(i + 1, [s EXCEPT !.out[i] = w, !.got = got], ready, sent)

IsWritten_Shift(ready, sent) ==
  LET r == IsWriteFrom(1, [out |-> is_out, got |-> is_got, closed |-> <<>>], ready, sent)
      n == Len(is_out)
  IN [r EXCEPT !.out = IF Len(r.out) = n THEN r.out
                       ELSE [i \in 1..Len(r.out) |-> [r.out[i] EXCEPT !.written = is_out[i].written]]]

\* What is done to an entry that is finished while others follow it.
IsWritten(ready, sent) == IsWriteFrom(1, [out |-> is_out, got |-> is_got, closed |-> <<>>], ready, sent)

IsWrite(ready, sent) ==
  LET r == IsWritten(ready, sent)
  IN /\ is_timer /\ is_blocked = <<>>
     /\ is_out' = r.out
     /\ is_got' = r.got
     /\ is_client' = [c \in IsClients |-> IF c \in ToSet(r.closed) THEN "closed" ELSE is_client[c]]
     /\ is_timer' = (r.out # <<>>)
     /\ UNCHANGED <<is_cfg, is_listen, is_blocked, is_tab>>

write_data ==
  \E ready \in SUBSET {is_out[i].sock : i \in DOMAIN is_out} :
    /\ ready # {}
    /\ \E sent \in [ready -> 0..IS_PIECES] : IsWrite(ready, sent)

IsNext ==
  \/ IsStart
  \/ IsTables
  \/ \E c \in IsClients : IsConnect(c) \/ ipc_action(c) \/ IsRequest(c)
  \/ write_data

IsSpec == IsInit /\ [][IsNext]_is_vars
----------------------------------------------------------------------------
\* What a reader of the JSON text accepts: separators between members and nowhere else,
\* keys in objects and nowhere else, brackets that match.  The indentation of a token is
\* its nesting, because it follows it from one token to the next.
IsJson(tokens) ==
  LET N == Len(tokens)
      Opens(i) == tokens[i][1] \in {"{", "["}
      Closes(i) == tokens[i][1] \in {"}", "]"}
      Member(i) == Opens(i) \/ tokens[i][1] = "field"
      Around(i, d) == tokens[Max({k \in 1..(i - 1) : tokens[k][4] = d /\ Opens(k)})][1]
  IN /\ N > 1 /\ tokens[1][1] = "{" /\ tokens[1][4] = 0 /\ Closes(N) /\ tokens[N][4] = 0
     /\ \A i \in 2..N :
          LET prev == tokens[i - 1]
              tok == tokens[i]
          IN /\ i < N => tok[4] > 0
             /\ tok[4] + (IF Closes(i) THEN 1 ELSE 0) = prev[4] + (IF Opens(i - 1) THEN 1 ELSE 0)
             /\ Member(i) => /\ Opens(i - 1) \/ prev[1] = ","
                             /\ (Around(i, tok[4] - 1) = "{") = (tok[2] # "")
             /\ tok[1] = "," => ~Opens(i - 1) /\ prev[1] # ","
             /\ Closes(i) => /\ prev[1] # ","
                             /\ Around(i, tok[4]) = IF tok[1] = "]" THEN "[" ELSE "{"

\* The rows of the tables a section is about, defined without regard to how it is printed.
IsRowsOf(t, s) ==
  CASE s = "neighbors" -> {t.neigh[i].addr : i \in DOMAIN t.neigh}
    [] s = "2hop" -> {t.neigh[i].addr : i \in DOMAIN t.neigh} \cup UNION {ToSet(t.neigh[i].hops) : i \in DOMAIN t.neigh}
    [] s = "links" -> ToSet(t.links)
    [] s = "routes" -> ToSet(t.routes)
    [] s = "topology" -> {e.dest : e \in {x \in UNION {ToSet(t.topo[i].edges) : i \in DOMAIN t.topo} : x.inv}}
    [] s = "hna" -> UNION {ToSet(t.hna[i].nets) : i \in DOMAIN t.hna} \cup (IF IsJsonInfo THEN {} ELSE ToSet(t.own))
    [] s = "mid" -> UNION {{t.mid[i].main} \cup ToSet(t.mid[i].aliases) : i \in DOMAIN t.mid}
    [] s = "gateways" -> {g.addr : g \in {x \in ToSet(t.gws) : x.tc}}
    [] s = "interfaces" -> {t.ifs[i].name : i \in DOMAIN t.ifs}
    [] s = "plugins" -> {t.plugins[i].name : i \in DOMAIN t.plugins}
    [] s = "config" /\ IsJsonInfo -> ToSet(t.own)
    [] s = "config" /\ IsHttp ->
         ToSet(t.own) \cup {t.ifs[i].name : i \in DOMAIN t.ifs} \cup {t.plugins[i].name : i \in DOMAIN t.plugins}
    [] s = "sgw" /\ IsHttp -> {g.addr : g \in {x \in ToSet(t.tunnels) : t.sgw /\ x.used}}
    [] s = "sgw" /\ ~IsHttp -> {g.addr : g \in {x \in ToSet(t.tunnels) : t.sgw /\ x.used /\ x.tc}}
    [] OTHER -> {}

IsReplyOf(e) ==
  CASE IsCnf.kind = "json" -> JsReply(e.what, IS_TABLES[e.tab])
    [] IsCnf.kind = "txt" -> TxReply(e.what, IS_TABLES[e.tab])
    [] IsCnf.kind = "http" -> HtReply(e.what, IS_TABLES[e.tab])

\* The reply that was just built.
IsNew == {i \in DOMAIN is_out : i = Len(is_out) /\ is_out[i].written = 0 /\ is_out[i].tab = is_tab}

\* abuf_json_*: whatever tables are asked for and however many entries they have, none
\* included, the reply is JSON.
IsWellFormed ==
  IsJsonInfo =>
    \A i \in IsNew : is_out[i].what # {"olsrd.conf"} => IsJson(IsReplyOf(is_out[i]))

\* The tokens told, of a table t, are exactly what the sections of what have.
IsTellsAll(told, what, t) ==
  LET Wanted(id) == Cardinality({s \in what : id \in IsRowsOf(t, s)})
  IN /\ \A k \in DOMAIN told : Wanted(told[k][3]) > 0
     /\ \A id \in UNION {IsRowsOf(t, s) : s \in what} :
          Cardinality({k \in DOMAIN told : told[k][3] = id}) = Wanted(id)

\* ipc_print_*, build_*_body: a reply tells of every entry of the tables asked for, of each as often as
\* a section asks, and of nothing else.
IsComplete ==
  \A i \in IsNew :
    IsTellsAll(SelectSeq(IsReplyOf(is_out[i]), LAMBDA tok : tok[3] # 0), is_out[i].what,
               IS_TABLES[is_out[i].tab])

\* jsoninfo_write_data, txtinfo_write_data, httpinfo_write_data: a client receives the pieces of one reply, its
\* own, in order, whatever ends, fails or moves up in between, and is closed with all of
\* it unless its connection broke.
IsOwnReply ==
  \A c \in IsClients :
    /\ \A k \in DOMAIN is_got[c] :
         is_got[c][k][3] = k /\ is_got[c][k][1] = is_got[c][1][1] /\ is_got[c][k][2] = is_got[c][1][2]
    /\ \A i \in DOMAIN is_out : is_out[i].sock = c => is_out[i].written = Len(is_got[c])

\* An accepted connection has exactly one place in the table until it is closed, the table
\* never overflows, and the timer runs exactly while there is something to write.
IsBooked ==
  /\ \A c \in IsClients :
       Cardinality({i \in DOMAIN is_out : is_out[i].sock = c}) = IF is_client[c] = "accepted" THEN 1 ELSE 0
  /\ Len(is_out) <= MAX_CLIENTS
  /\ is_timer = (is_out # <<>>)

\* A request gets its own, whole and valid reply, and the table of replies stays sound.
IsAnswers == IsWellFormed /\ IsComplete /\ IsOwnReply /\ IsBooked
=============================================================================
