----------------------------- MODULE NameService -----------------------------
(***************************************************************************)
(* The nameservice plugin (lib/nameservice): every node floods the names,  *)
(* name servers, services, MAC addresses and position it was configured    *)
(* with; every node keeps those of the others in one table per kind, each  *)
(* originator's entry with a validity timer, and writes the tables to      *)
(* files when they have changed, paced by one write timer.  The module     *)
(* follows one router, "self", and the messages of the others.             *)
(*                                                                         *)
(* Time is in ticks.  Definitions named X_Word are mutated forms of X.     *)
(***************************************************************************)
EXTENDS Integers, Sequences, SequencesExt, FiniteSets, FiniteSetsExt, Functions

CONSTANTS
  NsNets,            \* sequence of configurations, see NsConf
  NsAligned,         \* names whose length is a multiple of four
  NsPrefixes,        \* pairs <<m, n>>: the name m is a proper prefix of n
  NsIllFormed,       \* names the syntax checks refuse
  NAME_VALID_TIME,   \* validity of a message
  NS_WRITE_DELAY     \* delay of the write timer

VARIABLES
  ns_net,       \* index of the configuration
  ns_run,       \* "new", "up" (lazily initialised) or "gone"
  ns_own,       \* the entries self announces, per kind
  ns_peer,      \* index of each other node's parameters (it may restart)
  ns_db,        \* per kind, the entries by originator
  ns_changed,   \* per kind, the table_changed flag
  ns_timer,     \* ticks left of the write timer, or NsNone
  ns_route,     \* cost of the route to each name server's address; 0: none
  ns_file,      \* what stands in each file
  ns_silent,    \* ticks since a message of the node was taken in
  ns_excused,   \* per kind: not written yet, or not writable at the last attempt
  ns_known,     \* the routed name servers when the resolv file was written
  ns_last,      \* the position last received from each node
  ns_spent      \* messages, restarts and route changes so far

ns_vars == <<ns_net, ns_run, ns_own, ns_peer, ns_db, ns_changed, ns_timer, ns_route, ns_file,
             ns_silent, ns_excused, ns_known, ns_last, ns_spent>>

NsNone == -1
NsConf == NsNets[ns_net]
NsNodes == DOMAIN NsConf.peers
NsServers == DOMAIN ns_route
NsKinds == {"host", "forwarder", "service", "mac", "latlon"}
NsNoEntry == [names |-> <<>>, left |-> NsNone]
NAMESERVER_COUNT == 3

NsIsPrefix(m, n) == m = n \/ <<m, n>> \in NsPrefixes
NsKindOf(entries, kind) == SelectSeq(entries, LAMBDA e : e.kind = kind)
-----------------------------------------------------------------------------
(* What a node announces                                                   *)

is_wellformed(e) == e.kind # "forwarder" => e.name \notin NsIllFormed

\* An address of one of our interfaces, or in a network we announce.
allowed_ip(node, ip) == ip \in node.local

\* A service names its host by one of the names we announce or by an address.
allowed_service(node, e, names) ==
  /\ is_wellformed(e)
  /\ (\E n \in Range(names) : NsIsPrefix(n.name, e.host)) \/ allowed_ip(node, e.host)

NsAllowed(node, e, names) ==
  CASE e.kind = "host" -> is_wellformed(e) /\ allowed_ip(node, e.ip)
    [] e.kind = "forwarder" -> allowed_ip(node, e.ip)
    [] e.kind = "service" -> allowed_service(node, e, names)
    [] e.kind = "mac" -> is_wellformed(e)

\* Parameters are queued to the front of their list.
add_name_to_list(params, kind) == Reverse(NsKindOf(params, kind))

\* The lists of a node once invalid parameters are dropped; the names first,
\* since services are checked against them.
remove_nonvalid_names_from_list(node) ==
  LET valid(kind, names) == SelectSeq(add_name_to_list(node.params, kind), LAMBDA e : NsAllowed(node, e, names))
      names == valid("host", <<>>)
  IN [host |-> names, forwarder |-> valid("forwarder", names), service |-> valid("service", names),
      mac |-> valid("mac", names), latlon |-> NsKindOf(node.params, "latlon")]

\* The entries of a message in the order they are packed.
encap_namemsg(lists) == lists.host \o lists.forwarder \o lists.service \o lists.mac \o lists.latlon

\* The message a node sends at every interval.
olsr_namesvc_gen(node) == encap_namemsg(remove_nonvalid_names_from_list(node))

\* Padding ends a name unless its length is a multiple of four; then the byte
\* behind it decides: the next entry begins with a zero byte, behind the last
\* entry stands whatever follows in the receive buffer.
create_packet(msg, i, zero) == msg[i].name \notin NsAligned \/ i < Len(msg) \/ zero
-----------------------------------------------------------------------------
(* The tables                                                              *)

NsState == [db |-> ns_db, changed |-> ns_changed, timer |-> ns_timer]

olsr_start_write_file_timer(st, kind) ==
  [st EXCEPT !.timer = IF @ = NsNone THEN NS_WRITE_DELAY ELSE @, !.changed[kind] = TRUE]

\* One received entry against those saved of the same originator: a name or
\* service already there, a name server with the same address, or a position
\* to be changed in place; anything else is queued to the front.
decap_namemsg(st, node, e, whole) ==
  LET names == st.db[e.kind][node].names
      saved == \E s \in Range(names) :
                 \/ e.kind \in {"host", "service"} /\ NsIsPrefix(e.name, s.name)
                 \/ e.kind = "forwarder" /\ e.ip = s.ip
      queued == [olsr_start_write_file_timer(st, e.kind) EXCEPT !.db[e.kind][node].names = <<e>> \o @]
      updated == [olsr_start_write_file_timer(st, e.kind) EXCEPT
                    !.db[e.kind][node].names[1] =
                      [@ EXCEPT !.name = IF NsIsPrefix(e.name, @) THEN @ ELSE e.name, !.ip = e.ip]]
  IN IF ~is_wellformed(e) \/ ~whole \/ saved THEN st
     ELSE IF e.kind = "latlon" /\ names # <<>>
     THEN IF NsIsPrefix(e.name, names[1].name) /\ e.ip = names[1].ip THEN st ELSE updated
     ELSE queued

\* The validity timer of the originator's entry is set for every received
\* entry of the kind, known or new, accepted or not.
insert_new_name_in_list(st, node, e, whole) ==
  decap_namemsg([st EXCEPT !.db[e.kind][node].left = NAME_VALID_TIME], node, e, whole)

update_name_entry(st, node, msg, zero) ==
  LET Insert(s, i) == insert_new_name_in_list(s, node, msg[i], create_packet(msg, i, zero))
  IN FoldLeft(Insert, st, [i \in 1..Len(msg) |-> i])

free_name_entry_list(st, kind, node) ==
  [st EXCEPT !.db[kind][node] = NsNoEntry,
             !.changed[kind] = @ \/ st.db[kind][node].names # <<>>]

olsr_namesvc_delete_db_entry(st, kind, node) ==
  free_name_entry_list([st EXCEPT !.timer = IF @ = NsNone THEN NS_WRITE_DELAY ELSE @], kind, node)

NsTake(st) == ns_db' = st.db /\ ns_changed' = st.changed /\ ns_timer' = st.timer
-----------------------------------------------------------------------------
(* Actions                                                                 *)

\* Messages and timers that come before the main address is known do nothing;
\* the first one after it is known completes the initialisation.
name_lazy_init ==
  /\ ns_run = "new"
  /\ ns_run' = "up"
  /\ ns_own' = remove_nonvalid_names_from_list(NsConf.self)
  /\ UNCHANGED <<ns_net, ns_peer, ns_db, ns_changed, ns_timer, ns_route, ns_file, ns_silent, ns_excused,
                 ns_known, ns_last, ns_spent>>

\* A message of another node arrives over a symmetric neighbour; zero: the
\* byte behind the message in the receive buffer.
olsr_parser(node, zero) ==
  LET msg == olsr_namesvc_gen(NsConf.peers[node][ns_peer[node]])
      here == {i \in 1..Len(msg) : msg[i].kind = "latlon" /\ is_wellformed(msg[i]) /\ create_packet(msg, i, zero)}
  IN
  /\ ns_run = "up" /\ ns_spent.msgs < NsConf.msgs
  /\ zero \/ Last(msg).name \in NsAligned
  /\ NsTake(update_name_entry(NsState, node, msg, zero))
  /\ ns_silent' = [ns_silent EXCEPT ![node] = 0]
  /\ ns_last' = [ns_last EXCEPT ![node] = IF here = {} THEN @ ELSE msg[Max(here)].name]
  /\ ns_spent' = [ns_spent EXCEPT !.msgs = @ + 1]
  /\ UNCHANGED <<ns_net, ns_run, ns_own, ns_peer, ns_route, ns_file, ns_excused, ns_known>>

\* The validity of a table's entry for an originator has run out.
olsr_nameservice_expire_db_timer(kind, node) ==
  /\ ns_run = "up" /\ ns_db[kind][node].left = 0
  /\ NsTake(olsr_namesvc_delete_db_entry(NsState, kind, node))
  /\ UNCHANGED <<ns_net, ns_run, ns_own, ns_peer, ns_route, ns_file, ns_silent, ns_excused, ns_known,
                 ns_last, ns_spent>>

\* One pass moves the new route at the front up to its place: better ones are
\* behind it.  A cost of 0 is an empty slot.
select_best_nameserver(rt) ==
  LET Step(a, i) == IF a[i + 1].cost = 0 \/ a[i].cost < a[i + 1].cost
                    THEN [a EXCEPT ![i] = a[i + 1], ![i + 1] = a[i]] ELSE a
  IN FoldLeft(Step, rt, [i \in 1..NAMESERVER_COUNT |-> i])

\* The name servers with a route, originator by originator.
NsRouted ==
  LET all == FoldLeft(LAMBDA s, n : s \o ns_db["forwarder"][n].names, <<>>, NsConf.order)
  IN SelectSeq([i \in DOMAIN all |-> [ip |-> all[i].ip, cost |-> ns_route[all[i].ip]]], LAMBDA r : r.cost # 0)

\* The array, best last; each route found replaces the first slot.
write_resolv_file ==
  LET none == [ip |-> "none", cost |-> 0]
      Add(a, r) == select_best_nameserver([a EXCEPT ![1] = r])
      array == FoldLeft(Add, [i \in 1..NAMESERVER_COUNT + 1 |-> none], NsRouted)
  IN SelectSeq(Reverse(array), LAMBDA r : r.cost # 0)

\* What a table holds, the entries of self first.
NsContent(kind) ==
  FoldLeft(LAMBDA s, n : s \o ns_db[kind][n].names, ns_own[kind], NsConf.order)

\* The write timer: each file whose table has changed and that can be opened
\* (not in fails).  The resolv file is left alone while self has a name server
\* of its own or no known one has a route.
NsWrites(kind, fails) == ns_changed[kind] /\ kind \notin fails
olsr_expire_write_file_timer(fails) ==
  LET resolv == ns_own["forwarder"] = <<>> /\ write_resolv_file # <<>>
      Done(k) == NsWrites(k, fails) /\ (k = "forwarder" => resolv)
      files == {"host", "service", "mac"}
  IN
  /\ ns_run = "up" /\ ns_timer = 0
  /\ ns_timer' = NsNone
  /\ ns_file' = [k \in DOMAIN ns_file |->
       IF k \in files THEN IF Done(k) THEN NsContent(k) ELSE ns_file[k]
       ELSE IF k = "forwarder" /\ Done(k) THEN write_resolv_file ELSE ns_file[k]]
  /\ ns_changed' = [k \in NsKinds |-> ns_changed[k] /\ ~(k # "latlon" /\ Done(k))]
  /\ ns_excused' = [k \in NsKinds |-> IF ns_changed[k] THEN k \in fails ELSE ns_excused[k]]
  /\ ns_known' = IF Done("forwarder") THEN NsRouted ELSE ns_known
  /\ UNCHANGED <<ns_net, ns_run, ns_own, ns_peer, ns_db, ns_route, ns_silent, ns_last, ns_spent>>

\* The position map, for whoever reads the fifo: besides aliases, self and the
\* links, one line for every originator with a position.
mapwrite_work ==
  [n \in {x \in NsNodes : ns_db["latlon"][x].names # <<>>} |-> ns_db["latlon"][n].names[1].name]
mapwrite_poll ==
  /\ ns_run = "up" /\ ns_own.host # <<>>
  /\ ns_file' = [ns_file EXCEPT !["map"] = mapwrite_work]
  /\ UNCHANGED <<ns_net, ns_run, ns_own, ns_peer, ns_db, ns_changed, ns_timer, ns_route, ns_silent,
                 ns_excused, ns_known, ns_last, ns_spent>>

\* Unloading frees every table, which starts the write timer, then stops it.
free_all_list_entries(st) ==
  LET Free(s, kn) == IF s.db[kn[1]][kn[2]].left = NsNone THEN s ELSE olsr_namesvc_delete_db_entry(s, kn[1], kn[2])
  IN FoldSet(LAMBDA kn, s : Free(s, kn), st, NsKinds \X NsNodes)
NsUnload(st) ==
  /\ ns_run = "up" /\ NsConf.exits
  /\ ns_run' = "gone"
  /\ NsTake(st)
  /\ ns_own' = [k \in NsKinds |-> <<>>]
  /\ ns_file' = [ns_file EXCEPT !["map"] = <<>>]
  /\ UNCHANGED <<ns_net, ns_peer, ns_route, ns_silent, ns_excused, ns_known, ns_last, ns_spent>>
name_destructor_Early == NsUnload(free_all_list_entries([NsState EXCEPT !.timer = NsNone]))
name_destructor == NsUnload([free_all_list_entries(NsState) EXCEPT !.timer = NsNone])

\* Another node is restarted with other parameters, or moves.
NsRestart(node) ==
  /\ ns_spent.restarts < NsConf.restarts
  /\ \E i \in DOMAIN NsConf.peers[node] \ {ns_peer[node]} : ns_peer' = [ns_peer EXCEPT ![node] = i]
  /\ ns_spent' = [ns_spent EXCEPT !.restarts = @ + 1]
  /\ UNCHANGED <<ns_net, ns_run, ns_own, ns_db, ns_changed, ns_timer, ns_route, ns_file, ns_silent,
                 ns_excused, ns_known, ns_last>>

\* The routing table changes.
NsReroute(ip, cost) ==
  /\ ns_spent.routes < NsConf.routes /\ ns_route[ip] # cost
  /\ ns_route' = [ns_route EXCEPT ![ip] = cost]
  /\ ns_spent' = [ns_spent EXCEPT !.routes = @ + 1]
  /\ UNCHANGED <<ns_net, ns_run, ns_own, ns_peer, ns_db, ns_changed, ns_timer, ns_file, ns_silent,
                 ns_excused, ns_known, ns_last>>

\* Time passes once every timer that is due has fired.
NsTick ==
  LET Less(t) == IF t = NsNone THEN NsNone ELSE t - 1 IN
  /\ ns_run = "up" /\ ns_timer # 0 /\ \A k \in NsKinds, n \in NsNodes : ns_db[k][n].left # 0
  /\ ns_timer' = Less(ns_timer)
  /\ ns_db' = [k \in NsKinds |-> [n \in NsNodes |-> [ns_db[k][n] EXCEPT !.left = Less(@)]]]
  /\ ns_silent' = [n \in NsNodes |-> Min({NAME_VALID_TIME + NS_WRITE_DELAY + 1, ns_silent[n] + 1})]
  /\ UNCHANGED <<ns_net, ns_run, ns_own, ns_peer, ns_changed, ns_route, ns_file, ns_excused, ns_known, ns_last, ns_spent>>
-----------------------------------------------------------------------------
name_constructor ==
  /\ ns_run = "new" /\ ns_own = [k \in NsKinds |-> <<>>]
  /\ ns_db = [k \in NsKinds |-> [n \in NsNodes |-> NsNoEntry]]
  /\ ns_changed = [k \in NsKinds |-> TRUE] /\ ns_timer = NsNone

NsInit ==
  /\ ns_net \in DOMAIN NsNets
  /\ name_constructor
  /\ ns_peer = [n \in NsNodes |-> 1]
  /\ ns_route = NsConf.cost
  /\ ns_file = [k \in {"host", "forwarder", "service", "mac", "map"} |-> <<>>]
  /\ ns_silent = [n \in NsNodes |-> NAME_VALID_TIME + NS_WRITE_DELAY + 1]
  /\ ns_excused = [k \in NsKinds |-> TRUE]
  /\ ns_known = <<>> /\ ns_last = [n \in NsNodes |-> "none"]
  /\ ns_spent = [msgs |-> 0, restarts |-> 0, routes |-> 0]

NsNext ==
  \/ name_lazy_init \/ mapwrite_poll \/ name_destructor \/ NsTick
  \/ \E n \in NsNodes, zero \in BOOLEAN : olsr_parser(n, zero)
  \/ \E k \in NsKinds, n \in NsNodes : olsr_nameservice_expire_db_timer(k, n)
  \/ \E fails \in SUBSET NsConf.fragile : olsr_expire_write_file_timer(fails)
  \/ \E n \in NsNodes : NsRestart(n)
  \/ \E ip \in NsServers, cost \in NsConf.costs : NsReroute(ip, cost)
  \/ ns_run = "gone" /\ UNCHANGED ns_vars

NsSpec == NsInit /\ [][NsNext]_ns_vars
-----------------------------------------------------------------------------
(* Properties                                                              *)

\* When no write is pending, the hosts, services and macs files say what the
\* tables hold, unless none has been written yet or the last attempt to open
\* the file failed: every change and every expiry raises the flag of its
\* table and has the write timer running (decap_namemsg,
\* free_name_entry_list, olsr_expire_write_file_timer).
NsFilesCurrent ==
  ns_run = "up" /\ ns_timer = NsNone =>
    \A k \in {"host", "service", "mac"} : ~ns_excused[k] => ns_file[k] = NsContent(k)

\* A node that has not been heard for the validity time is in no table, and
\* once the write timer has fired too, its names are in no file that can be
\* written.
NsForgotten ==
  \A n \in NsNodes : ns_run = "up" =>
    /\ ns_silent[n] > NAME_VALID_TIME => \A k \in NsKinds : ns_db[k][n] = NsNoEntry
    /\ ns_silent[n] > NAME_VALID_TIME + NS_WRITE_DELAY =>
         \A k \in {"host", "service", "mac"} : ~ns_excused[k] =>
           \A e \in Range(ns_file[k]) : e.by = n => FALSE

\* A table's entry for a node that announces something of the kind whatever
\* its parameters lives exactly as long as the validity of the last message
\* heard, not of the one that first brought it.
NsRemembered ==
  ns_run = "up" => \A k \in NsKinds, n \in NsNodes :
    /\ ns_db[k][n].left # NsNone
    /\ \A i \in DOMAIN NsConf.peers[n] : NsKindOf(olsr_namesvc_gen(NsConf.peers[n][i]), k) # <<>>
    => ns_db[k][n].left = NAME_VALID_TIME - ns_silent[n]

\* The first three lines of the resolv file are the nearest of the name servers
\* that had a route when it was written, nearest first.
NsNearest ==
  LET file == ns_file["forwarder"]
      costs == [i \in DOMAIN file |-> file[i].cost]
      first == Min({NAMESERVER_COUNT, Len(ns_known)})
  IN
  /\ Len(file) >= first
  /\ \A i \in 1..first :
       /\ file[i] \in Range(ns_known)
       /\ Cardinality({j \in DOMAIN ns_known : ns_known[j].cost < costs[i]}) < i
       /\ i > 1 => costs[i - 1] <= costs[i]

\* The map never shows a position other than the last one received of a node.
NsLatestPosition ==
  ns_run = "up" => \A n \in NsNodes :
    ns_db["latlon"][n].names # <<>> => ns_db["latlon"][n].names[1].name = ns_last[n]

\* After the plugin is unloaded no timer of it is left to fire: freeing the
\* tables starts the write timer once more.
NsQuiet == ns_run = "gone" => ns_timer = NsNone /\ \A k \in NsKinds, n \in NsNodes : ns_db[k][n].left = NsNone

\* The files and the tables of the plugin follow what the nodes announce: what is current
\* is written, what is silent goes, and the nearest name servers come first.
NsSound ==
  /\ NsFilesCurrent /\ NsForgotten /\ NsRemembered /\ NsNearest /\ NsLatestPosition
  /\ NsQuiet
=============================================================================
