------------------------------ MODULE Gateways ------------------------------
(***************************************************************************)
(* The smart gateways: the tree of known gateways, the lists of those in   *)
(* use, their tunnels, routes and tunnel names, and the default handler    *)
(* that chooses (gateway.c, gateway_list.c, gateway_default_handler.c,     *)
(* linux/kernel_tunnel.c); and the egress interfaces of multi-gateway      *)
(* mode: the file with their bandwidths (egressFile.c), the interface      *)
(* events and the routes that doRoutesMultiGw programs (gateway.c,         *)
(* "Process Egress Changes").  Every function is a transformer of the      *)
(* record sgw.                                                             *)
(*                                                                         *)
(* The HNA, TC and SPF code that calls it, the kernel and the egress file  *)
(* are the environment.  One configuration of CONFIGS is chosen at the     *)
(* start.  The cost of a gateway stands for what gw_costs_weigh returns    *)
(* for its path cost and bandwidth; a link has one speed for uplink and    *)
(* downlink; the two /1 override routes are always programmed alike and    *)
(* are one route here; a device stands for its index.  Sequence numbers    *)
(* are left out: a message with an older one changes nothing.              *)
(* Operators named <definition>_<Word> are mutated forms.                  *)
(***************************************************************************)
EXTENDS Integers, Sequences, FiniteSets
LOCAL INSTANCE SequencesExt

CONSTANTS
  EGRESS,     \* the egress interfaces in the order of their declaration
  GWS,        \* the gateways' originators, in the order of the tree
  CONFIGS,    \* configurations: ip, niit, use, thresh, nat, takedown, weigh, stable,
              \* own, the families for which the node is a gateway itself;
              \* and what happens: fails, costs, gws, egress (what changes),
              \* lines, what the egress file may say of a link, waiting, how
              \* many netlink messages may wait, and hnas, what a
              \* gateway's HNA may say: [v4, v6, speed, ext]
  COSTS       \* the finite path costs

VARIABLE sgw

INF == 1000                            \* INT64_MAX, above every finite cost
NONE == "none"
BLACKHOLE == "blackhole"
Egress == {EGRESS[k] : k \in 1..Len(EGRESS)}
NoRoute == [active |-> FALSE, dev |-> NONE, gw |-> NONE]
Via(r) == [dev |-> r.dev, gw |-> r.gw]
NoVia == [dev |-> NONE, gw |-> NONE]
NOLINE == [path |-> 0, speed |-> 0, net |-> NONE, gw |-> NONE]
WEXIT == 2                             \* the weight of the speed

-----------------------------------------------------------------------------
(* The kernel: one route per table, gone when its device goes down.        *)

DeviceGone(kr, dev) ==
  [t \in DOMAIN kr |-> IF kr[t].dev = dev THEN NoVia ELSE kr[t]]
DeviceUp(s, dev) ==
  \/ dev = BLACKHOLE
  \/ dev \in Egress /\ s.dev[dev]
  \/ dev \in DOMAIN s.usage /\ s.usage[dev] > 0

-----------------------------------------------------------------------------
(* egressFile.c: the costs, the file and its change flags                  *)

\* Without a divider only the path cost counts, and it is 0 for a link that
\* the file does not list.
gw_costs_weigh(cnf, up, path_cost, speed) ==
  IF ~up THEN INF
  ELSE IF ~cnf.weigh THEN path_cost
  ELSE IF speed = 0 THEN INF
  ELSE WEXIT \div speed + path_cost
egressCosts(s, bw, up) == gw_costs_weigh(s.cnf, up, bw.path, bw.speed)

\* An interface gets its line; without one (or without bandwidth) it is cleared.
NewBw(s, i, lines) == IF lines[i].speed = 0 THEN NOLINE ELSE lines[i]
\* The lines are applied and the flags compare with the values before the read;
\* no flag is about the speeds.
ReadLines(s, lines) ==
  [s EXCEPT !.eg = [i \in Egress |->
     LET bw == NewBw(s, i, lines)
         costs == egressCosts(s, bw, s.eg[i].up)
         costsC == costs # s.eg[i].costs
         netC == bw.net # s.eg[i].bw.net
         gwC == bw.gw # s.eg[i].bw.gw
     IN [s.eg[i] EXCEPT !.bw = bw, !.costs = costs, !.netC = netC, !.gwC = gwC,
                        !.bwC = costsC \/ netC \/ gwC]]]

\* The cached time stamp: "clear" forces a read without a stat, which leaves an
\* uninitialised stamp behind (garbage, or clear again); "same" is the stamp of
\* the file as it is, "old" that of an earlier version.
Unreadable(s) == [ReadLines(s, [i \in Egress |-> NOLINE]) EXCEPT !.stamp = "clear"]
readEgressFile(s) ==
  IF s.stamp = "same" THEN {s}
  ELSE IF ~s.file.exists THEN {Unreadable(s)}
  ELSE LET r == ReadLines(s, s.file.lines)
       IN IF s.stamp = "clear"
          THEN {[r EXCEPT !.stamp = "clear"], [r EXCEPT !.stamp = "garbage"]}
          ELSE {[r EXCEPT !.stamp = "same"]}

-----------------------------------------------------------------------------
(* gateway.c: the best links and their routes                              *)

\* The pair of programRoute calls each configure function ends with: remove the
\* previous route, add the current one, as the phase allows or forces.
programRoutes(s, table, prev, cur, phase) ==
  LET changed == prev # cur
      del == (changed \/ phase = "shutdown") /\ phase # "startup" /\ prev.active
      kr == IF del /\ s.kr[table] = Via(prev)
            THEN [s.kr EXCEPT ![table] = NoVia] ELSE s.kr
      add == (changed \/ phase = "startup") /\ phase # "shutdown" /\ cur.active
      ok == DeviceUp(s, cur.dev)
  IN [kr |-> IF add /\ ok THEN [kr EXCEPT ![table] = Via(cur)] ELSE kr,
      cur |-> [cur EXCEPT !.active = cur.active /\ (add => ok)]]

\* Walks the interfaces in their order: a later one needs a lower cost.
BestEgress(s) ==
  LET Usable(k) == s.eg[EGRESS[k]].up \/ k = 1
      Beats(k, j) == \/ s.eg[EGRESS[k]].costs < s.eg[EGRESS[j]].costs
                     \/ s.eg[EGRESS[k]].costs = s.eg[EGRESS[j]].costs /\ k < j
      best == CHOOSE k \in 1..Len(EGRESS) :
                /\ Usable(k)
                /\ \A j \in 1..Len(EGRESS) \ {k} : Usable(j) => Beats(k, j)
  IN IF Len(EGRESS) = 0 \/ ~s.eg[EGRESS[best]].up
        \/ s.eg[EGRESS[best]].costs = INF
     THEN NONE ELSE EGRESS[best]

\* determineBestEgressLink; announced is the line whose speeds smartgw_set_uplink,
\* smartgw_set_downlink and refresh_smartgw_netmask make the node announce.
determineBestEgressLink(s, phase) ==
  LET best == IF phase = "shutdown" THEN NONE ELSE BestEgress(s)
      changed == \/ best # s.best
                 \/ best # NONE /\ (s.eg[best].upC \/ s.eg[best].bwC)
  IN [s |-> [s EXCEPT !.best = best,
                      !.announced = IF ~changed /\ phase = "runtime" THEN @
                                    ELSE IF best = NONE THEN NOLINE
                                    ELSE s.eg[best].bw],
      changed |-> changed]

EgressUsable(e) == e.up /\ e.costs # INF

\* One round of configureEgressLinkRoutes: the network route follows a change
\* of the network only, the default route one of the gateway only.
configureEgressLink(s, i, phase) ==
  LET e == s.eg[i]
      force == phase # "runtime"
      net == IF ~e.netC /\ ~force THEN [kr |-> s.kr, cur |-> e.netRoute]
             ELSE programRoutes(s, <<"net", i>>, e.netRoute,
                    IF EgressUsable(e) /\ e.bw.net # NONE
                    THEN [active |-> TRUE, dev |-> i, gw |-> e.bw.net]
                    ELSE NoRoute, phase)
      def == IF ~e.gwC /\ ~force THEN [kr |-> net.kr, cur |-> e.defRoute]
             ELSE programRoutes([s EXCEPT !.kr = net.kr], <<"def", i>>, e.defRoute,
                    IF EgressUsable(e)
                    THEN [active |-> TRUE, dev |-> i, gw |-> e.bw.gw]
                    ELSE NoRoute, phase)
  IN [s EXCEPT !.kr = def.kr, !.eg[i].netRoute = net.cur, !.eg[i].defRoute = def.cur]
configureEgressLinkRoutes(s, phase) ==
  FoldLeft(LAMBDA x, i : configureEgressLink(x, i, phase), s, EGRESS)

\* An egress link wins over a gateway of the same cost.
determineBestOverallLink(s, phase) ==
  LET gw == s.cur[s.cnf.ip]
      egressCost == IF s.best = NONE THEN INF ELSE s.eg[s.best].costs
      olsrCost == IF gw = NONE THEN INF ELSE s.tree[gw].cost
  IN IF (egressCost = INF /\ olsrCost = INF) \/ phase = "shutdown"
     THEN [valid |-> FALSE, olsr |-> FALSE, link |-> NONE, tun |-> NONE]
     ELSE IF egressCost <= olsrCost
     THEN [valid |-> TRUE, olsr |-> FALSE, link |-> s.best, tun |-> NONE]
     ELSE [valid |-> TRUE, olsr |-> TRUE, link |-> gw, tun |-> "live"]

\* determineBestOverallLinkRoutes: without a link only active is cleared.
OverallRoute(s) ==
  IF ~s.overall.valid THEN [s.overallRoute EXCEPT !.active = FALSE]
  ELSE [active |-> TRUE, dev |-> s.overall.link,
        gw |-> IF s.overall.olsr THEN NONE ELSE s.eg[s.overall.link].bw.gw]
setupDefaultGatewayOverrideRoutes(s, was, phase) ==
  IF ~was.valid /\ ~s.overall.valid /\ phase = "runtime" THEN s
  ELSE LET r == programRoutes(s, <<"main", "-">>, s.overallRoute, OverallRoute(s), phase)
       IN [s EXCEPT !.kr = r.kr, !.overallRoute = r.cur]

BestRoute(s) ==
  [active |-> TRUE, dev |-> IF s.best = NONE THEN BLACKHOLE ELSE s.best,
   gw |-> IF s.best = NONE THEN NONE ELSE s.eg[s.best].bw.gw]
configureBestEgressLinkRoute_NoHole(s, was, phase) ==
  IF s.best = NONE /\ phase = "runtime" THEN s
  ELSE LET r == programRoutes(s, <<"best", "-">>, s.bestRoute, BestRoute(s), phase)
       IN [s EXCEPT !.kr = r.kr, !.bestRoute = r.cur]
configureBestEgressLinkRoute(s, was, phase) ==
  IF was = NONE /\ s.best = NONE /\ phase = "runtime" THEN s
  ELSE LET r == programRoutes(s, <<"best", "-">>, s.bestRoute, BestRoute(s), phase)
       IN [s EXCEPT !.kr = r.kr, !.bestRoute = r.cur]

ClearIf(egressChanged, s) ==
  IF ~egressChanged THEN s
  ELSE [s EXCEPT !.eg = [i \in Egress |->
         [s.eg[i] EXCEPT !.upC = FALSE, !.netC = FALSE, !.gwC = FALSE, !.bwC = FALSE]]]

\* The steps of doRoutesMultiGw; b is the state with whether the best link changed.
EgressStep(s, egressChanged, phase) ==
  IF ~egressChanged /\ phase = "runtime" THEN [s |-> s, changed |-> FALSE]
  ELSE [determineBestEgressLink(s, phase) EXCEPT !.s = configureEgressLinkRoutes(@, phase)]
OverallTo(b, overall, phase) ==
  IF overall = b.s.overall /\ phase = "runtime" THEN b
  ELSE [b EXCEPT !.s = setupDefaultGatewayOverrideRoutes(
                         [@ EXCEPT !.overall = overall], @.overall, phase)]
OverallStep(b, olsrChanged, phase) ==
  IF olsrChanged \/ b.changed \/ phase # "runtime"
  THEN OverallTo(b, determineBestOverallLink(b.s, phase), phase) ELSE b
BestStep(b, was, phase) ==
  IF b.changed \/ phase # "runtime" THEN configureBestEgressLinkRoute(b.s, was, phase) ELSE b.s

doRoutesMultiGw(s, egressChanged, olsrChanged, phase) ==
  ClearIf(egressChanged,
          BestStep(OverallStep(EgressStep(s, egressChanged, phase), olsrChanged, phase),
                   s.best, phase))

-----------------------------------------------------------------------------
(* The events of the egress side                                           *)

\* smartgw_tunnel_monitor and doEgressInterface, for the new state of i.
doEgressInterface(s, i, up) ==
  IF s.eg[i].up = up THEN s
  ELSE doRoutesMultiGw(
         [s EXCEPT !.eg[i].up = up, !.eg[i].upC = TRUE,
                   !.eg[i].costs = egressCosts(s, s.eg[i].bw, up)],
         TRUE, FALSE, "runtime")

egress_file_timer_callback(s) ==
  {IF \E i \in Egress : r.eg[i].bwC THEN doRoutesMultiGw(r, TRUE, FALSE, "runtime")
   ELSE r : r \in readEgressFile(s)}

\* The part of olsr_shutdown_gateways between the timer and the rules.
ShutdownEgress(s) ==
  LET down == [s EXCEPT !.eg = [i \in Egress |->
                 [s.eg[i] EXCEPT !.up = FALSE, !.upC = s.eg[i].up]]]
  IN doRoutesMultiGw(ReadLines(down, [i \in Egress |-> NOLINE]),
                     TRUE, FALSE, "shutdown")
-----------------------------------------------------------------------------
(* The gateways                                                            *)

gw_vars == <<sgw>>
Gws == {GWS[k] : k \in 1..Len(GWS)}
Families == {"v4", "v6"}
BROKEN == INF
FORCE == 255
FREED == "freed"                       \* a pointer to a container that was freed
SLOTS == <<"tnl1", "tnl2", "tnl3">>
NoGw == [in |-> FALSE, v4 |-> "no", v6 |-> FALSE, cost |-> INF,
         expire |-> FALSE, cleanup |-> FALSE, ext |-> 0]
multi(x) == x.cnf.use > 1
InList(x, f, g) == \E k \in 1..Len(x.list[f]) : x.list[f][k] = g

-----------------------------------------------------------------------------
(* gateway_list.c                                                          *)

\* Ordered by cost; an equal one goes before those already there.
olsr_gw_list_add(x, f, g) ==
  LET l == x.list[f]
      after == {k \in 1..Len(l) : x.tree[g].cost <= x.tree[l[k]].cost}
      k == IF after = {} THEN Len(l) + 1
           ELSE CHOOSE n \in after : \A m \in after : n <= m
  IN [x EXCEPT !.list[f] = InsertAt(l, k, g)]
olsr_gw_list_remove(x, f, g) == [x EXCEPT !.list[f] = Remove(@, g)]
olsr_gw_list_update(x, f, g) == olsr_gw_list_add(olsr_gw_list_remove(x, f, g), f, g)

-----------------------------------------------------------------------------
(* Tunnels, their names and routes                                         *)

find_interfaceName(x, g) ==
  LET at == {k \in DOMAIN x.slot : x.slot[k] = g}
  IN IF at = {} THEN 0 ELSE CHOOSE k \in at : \A j \in at : k <= j
set_unused_iptunnel_name(x, g) ==
  LET k == find_interfaceName(x, g) IN IF k = 0 THEN x ELSE [x EXCEPT !.slot[k] = NONE]
TunnelRoute(x, t, g) == [x EXCEPT !.kr[t] = [dev |-> g, gw |-> NONE]]
NoTunnelRoute(x, t, g) == IF x.kr[t].dev = g THEN [x EXCEPT !.kr[t] = NoVia] ELSE x

\* The last user's release removes the device; what referred to its index
\* refers to no device any more.
olsr_os_del_ipip_tunnel(x, g) ==
  IF x.usage[g] # 1 THEN [x EXCEPT !.usage[g] = IF @ = 0 THEN 0 ELSE @ - 1]
  ELSE [x EXCEPT !.usage[g] = 0, !.kr = DeviceGone(@, g),
                 !.overall.tun = IF x.overall.link = g THEN "gone" ELSE @,
                 !.overallRoute.dev = IF @ = g THEN "gone" ELSE @]

\* The release of a list entry that olsr_delete_gateway_tree_entry and
\* removeGatewayFromList share.
ReleaseContainer(x, f, g) ==
  LET NoSlotRoute(k) == IF k = 0 THEN x ELSE NoTunnelRoute(x, <<"slot", SLOTS[k]>>, g)
  IN olsr_gw_list_remove(
       set_unused_iptunnel_name(
         olsr_os_del_ipip_tunnel(NoSlotRoute(find_interfaceName(x, g)), g), g), f, g)
removeGatewayFromList(x, f, g) ==
  [ReleaseContainer(x, f, g) EXCEPT !.cur[f] = IF @ = g THEN FREED ELSE @]

-----------------------------------------------------------------------------
(* olsr_set_inet_gateway                                                   *)

UseListed(x, f, g) ==
  [TunnelRoute(x, <<"tunnel", "v4">>, g) EXCEPT !.cur[f] = g]

MakeRoom(x, f) ==
  IF Len(x.list[f]) < x.cnf.use THEN x
  ELSE removeGatewayFromList(x, f, x.list[f][Len(x.list[f])])

\* With room in the list: a name for the tunnel, the tunnel, its routes, the list
\* entry; a tunnel that cannot be made only gives its name back.
NewTunnel(x, f, g, k) ==
  LET named == IF k = 0 THEN x ELSE [x EXCEPT !.slot[k] = g]
      SlotRoute(y) == IF k = 0 THEN y ELSE TunnelRoute(y, <<"slot", SLOTS[k]>>, g)
  IN IF x.usage[g] = 0 /\ ~x.able THEN set_unused_iptunnel_name(named, g)
     ELSE [olsr_gw_list_add(
             TunnelRoute(SlotRoute([named EXCEPT !.usage[g] = @ + 1]), <<"tunnel", f>>, g), f, g)
           EXCEPT !.cur[f] = g]
FreeName(x) == IF multi(x) THEN find_interfaceName(x, NONE) ELSE 0
UseNew(x, f, g) == NewTunnel(MakeRoom(x, f), f, g, FreeName(MakeRoom(x, f)))

Eligible(x, f, g) ==
  IF f = "v6" THEN x.tree[g].v6
  ELSE x.tree[g].v4 = "yes" \/ (x.tree[g].v4 = "nat" /\ x.cnf.nat)
Serves(x, f) == IF f = "v6" THEN x.cnf.ip = "v6" ELSE x.cnf.ip = "v4" \/ x.cnf.niit

RoutedVia(x, f, g) ==
  IF multi(x) /\ x.cur[f] = g THEN doRoutesMultiGw(x, FALSE, TRUE, "runtime") ELSE x
SetFamily(x, f, g) ==
  IF ~Serves(x, f) \/ ~Eligible(x, f, g) \/ x.cur[f] = g THEN x
  ELSE RoutedVia(IF InList(x, f, g) THEN UseListed(x, f, g) ELSE UseNew(x, f, g), f, g)
olsr_set_inet_gateway(x, g, v4, v6) ==
  IF ~x.tree[g].in THEN x
  ELSE FoldLeft(LAMBDA y, f : SetFamily(y, f, g), x,
                (IF v4 THEN <<"v4">> ELSE <<>>) \o (IF v6 THEN <<"v6">> ELSE <<>>))

-----------------------------------------------------------------------------
(* gateway_default_handler.c                                               *)

\* 64-bit arithmetic: an infinite cost times an even percentage wraps to 0.
gw_default_calc_threshold(x, cost) ==
  IF cost = INF THEN IF x.cnf.thresh % 2 = 0 THEN 0 ELSE INF
  ELSE (cost * x.cnf.thresh + 50) \div 100
Threshold(x, f) ==
  IF x.cnf.thresh = 0 \/ x.cur[f] \notin Gws THEN INF
  ELSE gw_default_calc_threshold(x, x.tree[x.cur[f]].cost)

\* The first of the cheapest eligible gateways below the threshold.
Chosen(x, f) ==
  LET cost(k) == x.tree[GWS[k]].cost
      c == {k \in 1..Len(GWS) : /\ x.tree[GWS[k]].in /\ Eligible(x, f, GWS[k])
                                /\ cost(k) < Threshold(x, f)}
  IN IF ~x.look[f] \/ c = {} THEN NONE
     ELSE GWS[CHOOSE k \in c : \A j \in c : cost(k) < cost(j) \/ (cost(k) = cost(j) /\ k <= j)]

\* One gateway for both families is set in one go.
SetIf(x, c, v4, v6) == IF c = NONE THEN x ELSE olsr_set_inet_gateway(x, c, v4, v6)
SetChosen(x, c4, c6) ==
  LET dual == c4 # NONE /\ c4 = c6
      look == [v4 |-> x.look["v4"] /\ c4 = NONE, v6 |-> x.look["v6"] /\ c6 = NONE]
  IN [SetIf(SetIf([x EXCEPT !.look = look], c4, TRUE, dual),
            IF dual THEN NONE ELSE c6, FALSE, TRUE)
      EXCEPT !.timer = @ /\ (x.cnf.thresh # 0 \/ look.v4 \/ look.v6)]
gw_default_choose_gateway(x) == SetChosen(x, Chosen(x, "v4"), Chosen(x, "v6"))

gw_default_lookup_gateway(x, v4, v6) ==
  LET y == [x EXCEPT !.look["v4"] = IF v4 THEN Serves(x, "v4") ELSE @,
                     !.look["v6"] = IF v6 THEN Serves(x, "v6") ELSE @]
  IN IF \E f \in Families : y.look[f] THEN gw_default_choose_gateway(y) ELSE y

NodeCount(x) == Cardinality({g \in Gws : x.tc[g] # -1})
gw_default_startup_handler(x) ==
  [x EXCEPT !.nodes = NodeCount(x), !.stable = 0, !.timer = TRUE,
            !.look = [f \in Families |-> Serves(x, f) /\ f \notin x.cnf.own]]
RestartIfLooking(x) ==
  IF \E f \in Families : x.look[f] THEN gw_default_startup_handler(x) ELSE x
gw_default_choosegw_handler(x, v4, v6) == RestartIfLooking(gw_default_lookup_gateway(x, v4, v6))

gw_default_getcosts(x, g) == IF x.tc[g] = -1 THEN INF ELSE x.tc[g]

gw_default_update_handler(x, g) ==
  LET again(f) == x.cnf.thresh # 0 \/ (x.cur[f] = g /\ ~Eligible(x, f, g))
  IN IF \E f \in Families : again(f)
     THEN gw_default_lookup_gateway(x, again("v4"), again("v6")) ELSE x
gw_default_delete_handler(x, g) ==
  IF \E f \in Families : x.cur[f] = g
  THEN gw_default_lookup_gateway(x, x.cur["v4"] = g, x.cur["v6"] = g) ELSE x

-----------------------------------------------------------------------------
(* The life of a gateway entry                                             *)

\* What olsr_delete_gateway_tree_entry clears for a prefix length.
ClearFlags(x, e, plen) ==
  IF plen = FORCE THEN [e EXCEPT !.v4 = "no", !.v6 = FALSE]
  ELSE IF (x.cnf.ip = "v4" /\ plen = 0) \/ (x.cnf.ip = "v6" /\ plen = 96)
  THEN [e EXCEPT !.v4 = "no"]
  ELSE IF x.cnf.ip = "v6" /\ plen = 3 THEN [e EXCEPT !.v6 = FALSE] ELSE e

LeaveList_Current(x, f, g) == IF ~InList(x, f, g) THEN x ELSE ReleaseContainer(x, f, g)
LeaveList(x, f, g) ==
  LET y == IF x.cur[f] # g THEN x
           ELSE [NoTunnelRoute(x, <<"tunnel", f>>, g) EXCEPT !.cur[f] = NONE]
  IN IF ~InList(x, f, g) THEN x ELSE ReleaseContainer(y, f, g)

\* The entry is freed or left to its clean-up timer; a family without a gateway
\* looks for another.
Freed(x, g, immediate) ==
  [x EXCEPT !.tree[g] = IF immediate THEN NoGw ELSE [@ EXCEPT !.cleanup = TRUE]]
ChooseAgain(x) ==
  IF \A f \in Families : x.cur[f] # NONE THEN x
  ELSE gw_default_choosegw_handler(x, x.cur["v4"] = NONE, x.cur["v6"] = NONE)
olsr_delete_gateway_tree_entry(x, g, plen, immediate) ==
  LET e == [x.tree[g] EXCEPT !.expire = FALSE, !.cleanup = @ /\ ~immediate]
      c == ClearFlags(x, e, plen)
      unused == plen = FORCE \/ (c.v4 = "no" /\ ~c.v6)
  IN IF ~x.tree[g].in THEN x
     ELSE IF e.cleanup /\ e.v4 = "no" /\ ~e.v6 THEN [x EXCEPT !.tree[g] = e]
     ELSE IF unused
     THEN ChooseAgain(Freed(LeaveList(LeaveList(
            gw_default_delete_handler([x EXCEPT !.tree[g] = c], g), "v4", g), "v6", g),
            g, immediate))
     ELSE IF c # e THEN gw_default_update_handler([x EXCEPT !.tree[g] = c], g)
     ELSE [x EXCEPT !.tree[g] = e]

\* The re-sort after new costs, skipped when they are infinite: the costs it
\* compares with were reset to INT64_MAX above.
Resort(x, f, g) ==
  IF x.tree[g].cost = INF \/ ~InList(x, f, g) THEN x
  ELSE LET y == olsr_gw_list_update(x, f, g)
       IN IF multi(x) THEN doRoutesMultiGw(y, FALSE, TRUE, "runtime") ELSE y

olsr_update_gateway_entry(x, g, m) ==
  LET e == [x.tree[g] EXCEPT
              !.in = TRUE, !.v4 = m.v4, !.v6 = x.cnf.ip = "v6" /\ m.v6, !.cost = INF,
              !.ext = IF x.cnf.ip = "v6" THEN m.ext ELSE @]
      y == [x EXCEPT !.tree[g] = [e EXCEPT !.expire = TRUE, !.cleanup = FALSE,
                                           !.cost = gw_default_getcosts(x, g)]]
  IN IF ~m.speed
     THEN olsr_delete_gateway_tree_entry([x EXCEPT !.tree[g] = e], g, FORCE, TRUE)
     ELSE gw_default_update_handler(Resort(Resort(y, "v4", g), "v6", g), g)

olsr_trigger_gatewayloss_check(x) ==
  LET lost(f) == x.cur[f] \in Gws /\ x.tc[x.cur[f]] \in {-1, BROKEN}
  IN IF lost("v4") \/ lost("v6")
     THEN gw_default_choosegw_handler(x, lost("v4"), lost("v6")) ELSE x

\* takeDownExpensiveGateways: the worst goes while it costs the boundary or more.
Boundary(x, f) ==
  LET c == x.tree[x.cur[f]].cost
  IN IF x.cnf.takedown = 100 THEN c
     ELSE IF c = INF THEN (INF \div x.cnf.takedown) * 100 + 99
     ELSE (c * 100) \div x.cnf.takedown
takeDownExpensiveGateways(x, f) ==
  IF x.cnf.takedown = 0 \/ x.cur[f] \notin Gws THEN x
  ELSE FoldLeft(LAMBDA y, k :
                  LET worst == y.list[f][Len(y.list[f])]
                  IN IF \/ Len(y.list[f]) <= 1 \/ worst = x.cur[f]
                        \/ y.tree[worst].cost < Boundary(x, f)
                     THEN y ELSE removeGatewayFromList(y, f, worst),
                x, x.list[f])

\* olsr_cleanup_gateways: first the gateways that are not current, in the
\* order of the tree, then what the lists still hold.
Drop(x, g, round) ==
  IF round = "others" /\ \E f \in Families : x.cur[f] = g THEN x
  ELSE olsr_delete_gateway_tree_entry(x, g, FORCE, TRUE)
DropAll(x, round) ==
  FoldLeft(LAMBDA y, g : Drop(y, g, round), x, IF round = "others" THEN GWS ELSE x.list[round])
olsr_cleanup_gateways(x) == FoldLeft(DropAll, x, <<"others", "v4", "v6">>)

-----------------------------------------------------------------------------
(* The state machine                                                       *)

Tables == {<<"main", "-">>, <<"best", "-">>, <<"tunnel", "v4">>, <<"tunnel", "v6">>}
          \cup {<<t, i>> : t \in {"net", "def"}, i \in Egress}
          \cup {<<"slot", SLOTS[k]>> : k \in 1..Len(SLOTS)}

\* olsr_init_gateways; the interfaces of up are up.
Initialised(cnf, up, lines) ==
  [cnf |-> cnf, phase |-> "runtime",
   tree |-> [g \in Gws |-> NoGw], list |-> [f \in Families |-> <<>>],
   cur |-> [f \in Families |-> NONE], slot |-> [k \in 1..cnf.use |-> NONE],
   usage |-> [g \in Gws |-> 0], able |-> TRUE, tc |-> [g \in Gws |-> -1],
   look |-> [f \in Families |-> TRUE], timer |-> FALSE, nodes |-> 0, stable |-> 0,
   kr |-> [t \in Tables |-> NoVia], dev |-> [i \in Egress |-> i \in up], note |-> <<>>,
   eg |-> [i \in Egress |->
            [up |-> i \in up, upC |-> FALSE, bw |-> NOLINE,
             costs |-> gw_costs_weigh(cnf, i \in up, 0, 0),
             netC |-> FALSE, gwC |-> FALSE, bwC |-> FALSE,
             netRoute |-> NoRoute, defRoute |-> NoRoute]],
   best |-> NONE, bestRoute |-> NoRoute, announced |-> NOLINE,
   overall |-> [valid |-> FALSE, olsr |-> FALSE, link |-> NONE, tun |-> NONE],
   overallRoute |-> NoRoute, stamp |-> "clear",
   file |-> [exists |-> TRUE, lines |-> lines]]

\* olsr_startup_gateways and olsr_trigger_inetgw_startup
olsr_startup_gateways(x) ==
  IF ~multi(x) THEN {gw_default_startup_handler(x)}
  ELSE {gw_default_startup_handler(doRoutesMultiGw(r, TRUE, FALSE, "startup")) :
          r \in readEgressFile(x)}

GwInitFor(cnf) ==
  \E up \in SUBSET cnf.egress,
     lines \in {l \in [Egress -> cnf.lines \cup {NOLINE}] :
                 \A i \in Egress \ cnf.egress : l[i] = NOLINE} :
    sgw \in olsr_startup_gateways(Initialised(cnf, up, lines))

GwInit == \E cnf \in CONFIGS : GwInitFor(cnf)

Running == sgw.phase = "runtime"

\* A gateway HNA, as process_message_hna hands it over.
GatewayHna(g, m) ==
  Running /\ g \in sgw.cnf.gws /\ m \in sgw.cnf.hnas /\ sgw' = olsr_update_gateway_entry(sgw, g, m)
\* A plain internet HNA of the same originator expires (hna_set.c).
HnaNetDeleted(g, plen) ==
  /\ Running /\ plen \in IF sgw.cnf.ip = "v4" THEN {0} ELSE {3, 96}
  /\ sgw' = olsr_delete_gateway_tree_entry(sgw, g, plen, FALSE)
expire_gateway_handler(g) ==
  /\ Running /\ sgw.tree[g].expire
  /\ sgw' = olsr_delete_gateway_tree_entry(sgw, g, sgw.tree[g].ext, FALSE)
cleanup_gateway_handler(g) ==
  /\ Running /\ sgw.tree[g].cleanup
  /\ sgw' = IF sgw.tree[g].v4 # "no" \/ sgw.tree[g].v6 THEN sgw ELSE [sgw EXCEPT !.tree[g] = NoGw]
\* olsr_delete_tc_entry
TcDeleted(g) ==
  /\ Running /\ sgw.tc[g] # -1
  /\ sgw' = [olsr_delete_gateway_tree_entry(sgw, g, FORCE, FALSE) EXCEPT !.tc[g] = -1]
\* A routing calculation found g at cost c and ended with the loss check.
SpfRun(g, c) ==
  /\ Running /\ g \in sgw.cnf.gws /\ c \in sgw.cnf.costs \cup {BROKEN}
  /\ sgw' = olsr_trigger_gatewayloss_check([sgw EXCEPT !.tc[g] = c])

gw_default_timer ==
  /\ Running /\ sgw.timer
  /\ LET count == NodeCount(sgw)
         near == count * 10 >= sgw.nodes * 9 /\ count * 10 <= sgw.nodes * 11
         stable == IF ~near THEN 0 ELSE IF sgw.stable < sgw.cnf.stable THEN sgw.stable + 1 ELSE sgw.stable
         y == [sgw EXCEPT !.nodes = count, !.stable = stable]
     IN sgw' = IF stable >= sgw.cnf.stable THEN gw_default_choose_gateway(y) ELSE y
gw_takedown_timer_callback ==
  /\ Running /\ multi(sgw) /\ sgw.cnf.takedown > 0
  /\ sgw' = takeDownExpensiveGateways(takeDownExpensiveGateways(sgw, "v4"), "v6")

\* The kernel: tunnel creation fails for a while; an egress device changes and
\* its message is queued.
KernelTunnels == Running /\ sgw.cnf.fails /\ sgw' = [sgw EXCEPT !.able = ~@]
EgressDevice(i) ==
  /\ Running /\ i \in sgw.cnf.egress /\ Len(sgw.note) < sgw.cnf.waiting
  /\ sgw' = [sgw EXCEPT !.dev[i] = ~@, !.note = Append(@, [if |-> i, up |-> ~sgw.dev[i]]),
                    !.kr = IF sgw.dev[i] THEN DeviceGone(@, i) ELSE @]
smartgw_tunnel_monitor ==
  /\ Running /\ sgw.note # <<>>
  /\ LET n == Head(sgw.note)
     IN sgw' = doEgressInterface([sgw EXCEPT !.note = Tail(@)], n.if, n.up)
\* Somebody rewrites or removes the egress file; the timer reads it.
EgressFileEdited(i, line, exists) ==
  /\ Running /\ i \in sgw.cnf.egress /\ line \in sgw.cnf.lines \cup {NOLINE}
  /\ sgw' = [sgw EXCEPT !.file = [exists |-> exists, lines |-> [@.lines EXCEPT ![i] = line]],
                    !.stamp = IF @ = "same" THEN "old" ELSE @]
EgressFileRead == Running /\ multi(sgw) /\ sgw' \in egress_file_timer_callback(sgw)

Shutdown ==
  /\ Running
  /\ sgw' = [olsr_cleanup_gateways(IF multi(sgw) THEN ShutdownEgress(sgw) ELSE sgw)
              EXCEPT !.phase = "down"]

GwNext ==
  \/ \E g \in Gws :
       \/ \E m \in UNION {c.hnas : c \in CONFIGS} : GatewayHna(g, m)
       \/ \E plen \in {0, 3, 96} : HnaNetDeleted(g, plen)
       \/ expire_gateway_handler(g)
       \/ cleanup_gateway_handler(g)
       \/ TcDeleted(g)
       \/ \E c \in COSTS \cup {BROKEN} : SpfRun(g, c)
  \/ gw_default_timer
  \/ gw_takedown_timer_callback
  \/ KernelTunnels
  \/ \E i \in Egress : \/ EgressDevice(i)
                        \/ \E line \in UNION {c.lines : c \in CONFIGS} \cup {NOLINE}, exists \in BOOLEAN :
                             EgressFileEdited(i, line, exists)
  \/ smartgw_tunnel_monitor
  \/ EgressFileRead
  \/ Shutdown

-----------------------------------------------------------------------------
(* Properties                                                              *)

GwTypeOK ==
  /\ \A g \in Gws : /\ sgw.tree[g].cost \in COSTS \cup {INF} /\ sgw.tree[g].v4 \in {"no", "nat", "yes"}
                     /\ sgw.usage[g] \in 0..2 /\ sgw.tc[g] \in COSTS \cup {-1, BROKEN}
  /\ \A f \in Families : /\ sgw.list[f] \in Seq(Gws) /\ sgw.cur[f] \in Gws \cup {NONE, FREED}
                          /\ sgw.look[f] \in BOOLEAN
  /\ sgw.best \in Egress \cup {NONE}
  /\ sgw.stamp \in {"clear", "garbage", "same", "old"}

\* The gateways in use are known gateways: every entry of a list is in the
\* tree, is there once, is not waiting for its memory to be freed, and there
\* are no more than SmartGatewayUseCount of them.  (Entries are freed by timers,
\* messages and the TC code, lists only in olsr_delete_gateway_tree_entry.)
ListsLive ==
  \A f \in Families :
    /\ Len(sgw.list[f]) <= sgw.cnf.use
    /\ \A k \in 1..Len(sgw.list[f]) :
         /\ sgw.tree[sgw.list[f][k]].in /\ ~sgw.tree[sgw.list[f][k]].cleanup
         /\ \A j \in 1..Len(sgw.list[f]) : sgw.list[f][j] = sgw.list[f][k] => j = k

\* Tunnels are counted right: a tunnel has as many users as lists hold its
\* gateway, and in multi-gateway mode each gateway in use has one tunnel name,
\* whose table routes into its tunnel, and no other name is taken.
TunnelsCounted ==
  /\ \A g \in Gws : sgw.usage[g] = Cardinality({f \in Families : InList(sgw, f, g)})
  /\ multi(sgw) =>
       /\ \A g \in Gws : Cardinality({k \in DOMAIN sgw.slot : sgw.slot[k] = g})
                          = IF InList(sgw, "v4", g) THEN 1 ELSE 0
       /\ \A k \in DOMAIN sgw.slot :
            sgw.kr[<<"slot", SLOTS[k]>>].dev = sgw.slot[k]

\* Whatever tunnels the kernel refuses, the current IPv4 gateway is in use and the
\* tunnel table's default route leads into its tunnel; without one there is no
\* such route.  (A tunnel that fails after the worst entry made room for it leaves
\* no gateway, no route and the pointer to the freed entry.)
CurrentRouted ==
  sgw.cnf.ip = "v4" =>
    /\ sgw.cur["v4"] \in Gws => InList(sgw, "v4", sgw.cur["v4"])
    /\ sgw.cur["v4"] = FREED => sgw.cnf.fails
    /\ sgw.kr[<<"tunnel", "v4">>].dev = IF sgw.cur["v4"] = FREED THEN NONE ELSE sgw.cur["v4"]

\* As long as tunnels can be created, a node that has no gateway and is none
\* itself looks for one: the choice flag is set and the selection timer runs.
LooksWhileAble ==
  \A f \in Families :
    Running /\ ~sgw.cnf.fails /\ Serves(sgw, f) /\ f \notin sgw.cnf.own /\ sgw.cur[f] = NONE
      => sgw.look[f] /\ sgw.timer

\* No entry stays for ever: an IPv4 gateway that is not refreshed is waiting
\* for its expiry or, unused, for its clean-up, whatever order messages, HNA
\* timeouts and TC deletions came in.
EntriesTimed ==
  Running /\ sgw.cnf.ip = "v4" =>
    \A g \in Gws : sgw.tree[g].in => sgw.tree[g].expire \/ (sgw.tree[g].cleanup /\ sgw.tree[g].v4 = "no")

\* The announced uplink is the best egress link: the cheapest usable one, the
\* first declared of equals, after any order of interface events and file
\* changes.  What is announced are its speeds when its cost, network or gateway
\* last changed: new speeds that leave the cost as it was, as any do when the
\* divider is 0, are not seen by egressBwChanged and not announced.
Position(i) == CHOOSE k \in 1..Len(EGRESS) : EGRESS[k] = i
BestAnnounced ==
  Running /\ multi(sgw) =>
    LET usable == {i \in Egress : EgressUsable(sgw.eg[i])}
    IN /\ sgw.best = NONE <=> usable = {}
       /\ sgw.best # NONE =>
            /\ sgw.best \in usable
            /\ \A i \in usable \ {sgw.best} :
                 \/ sgw.eg[sgw.best].costs < sgw.eg[i].costs
                 \/ sgw.eg[sgw.best].costs = sgw.eg[i].costs /\ Position(sgw.best) < Position(i)
       /\ IF sgw.best = NONE THEN sgw.announced = NOLINE
          ELSE LET e == sgw.eg[sgw.best]
               IN /\ egressCosts(sgw, sgw.announced, TRUE) = e.costs
                  /\ sgw.announced.net = e.bw.net /\ sgw.announced.gw = e.bw.gw

\* Once the interface messages are handled the kernel's table for tunnel
\* traffic leads to the best egress link over its current gateway, or is a
\* black hole when there is none (gateway.c: "to prevent looping smart gateway
\* tunnel traffic").
BestRouteInKernel ==
  Running /\ multi(sgw) /\ sgw.note = <<>> =>
    sgw.kr[<<"best", "-">>] = Via(BestRoute(sgw))

\* An egress link carries the default route only if it costs no more than the
\* current gateway, and a gateway only if it costs less than the best link.
CheapestOverall ==
  Running /\ multi(sgw) /\ sgw.overall.valid =>
    IF sgw.overall.olsr
    THEN sgw.overall.link = sgw.cur["v4"] /\ sgw.tree[sgw.cur["v4"]].cost < INF /\ sgw.best # NONE
         => sgw.tree[sgw.cur["v4"]].cost < sgw.eg[sgw.best].costs
    ELSE /\ sgw.overall.link = sgw.best
         /\ sgw.cur["v4"] # NONE => sgw.eg[sgw.best].costs <= sgw.tree[sgw.cur["v4"]].cost

\* A file whose time stamp is the cached one has been applied: the bandwidths
\* in use are those of its lines, also when the first read cached a stamp that
\* stat never filled in.
FileApplied ==
  Running /\ sgw.stamp = "same" => \A i \in Egress : sgw.eg[i].bw = NewBw(sgw, i, sgw.file.lines)

\* olsr_shutdown_gateways and olsr_cleanup_gateways leave nothing: no gateway,
\* no tunnel, no current gateway (the function's assertions) and no route.
ShutdownClean ==
  sgw.phase = "down" =>
    /\ \A g \in Gws : ~sgw.tree[g].in /\ sgw.usage[g] = 0
    /\ \A f \in Families : sgw.list[f] = <<>> /\ (sgw.cnf.fails \/ sgw.cur[f] = NONE)
    /\ \A t \in Tables : sgw.kr[t] = NoVia

\* The gateways in use stay sound through messages, timers, tunnel failures, TC deletions
\* and the shutdown: lists, tunnels, tables, current gateway and timers agree.
GatewaysSound ==
  /\ GwTypeOK /\ ListsLive /\ TunnelsCounted /\ CurrentRouted /\ LooksWhileAble /\ EntriesTimed
  /\ ShutdownClean

\* The egress links are followed: what is announced, routed and preferred is what the
\* file and the kernel last said of them.
EgressFollowed == BestAnnounced /\ BestRouteInKernel /\ CheapestOverall /\ FileApplied
=============================================================================
