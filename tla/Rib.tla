--------------------------------- MODULE Rib ---------------------------------
(***************************************************************************)
(* The routing information base (routing_table.c) and its copy in the       *)
(* kernel (process_routes.c).  A prefix that a router announces hangs off   *)
(* its tc_entry as an rt_path; an SPF run puts the paths of the routers it  *)
(* reaches in the RIB, drops the paths it did not refresh, elects the best  *)
(* path of every prefix and moves the differences into the kernel, whose    *)
(* calls may fail.                                                          *)
(*                                                                          *)
(* An SPF run, the loss of an interface and the shutdown are one step each: *)
(* olsrd is single threaded, and the change list is empty before and after. *)
(* What the kernel holds for a prefix is a set of routes, because routes    *)
(* with different metrics, and any two IPv6 routes, do not replace each     *)
(* other.  A device goes down in the kernel, with the routes over it, before *)
(* olsrd removes its interface; and olsrd removes interfaces whose devices   *)
(* stay up, when their addresses change.                                     *)
(*                                                                          *)
(* Definitions named after the next one with a suffix are mutated forms.    *)
(***************************************************************************)
EXTENDS Integers, FiniteSets, Functions

CONSTANTS
  Originators,            \* routers, numbers in the order of memcmp
  Prefixes, DefaultRoute, \* DefaultRoute is the prefix of length 0
  LinkLocal,              \* the prefixes that are IPv6 link-local addresses
  Gateways, Ifaces,
  Costs, Hops,            \* path costs and hop counts that SPF may find
  NatThresh,              \* lq_nat_thresh in percent
  VersionModulus,         \* routingtree_version wraps at this value
  Setups,                 \* name -> a configuration and its surroundings
  NULL

NextHops == [gateway : Gateways, iif_index : Ifaces]

Paths == [nexthop : NextHops, cost : Costs, hops : Hops]

\* Who may announce which prefix, the paths that SPF may find, and whether
\* kernel calls may fail and which devices go down or change their addresses.
Setup == [ip_version : {4, 6}, fib_metric : {"flat", "correct", "approx"},
          announced : SUBSET (Originators \X Prefixes), paths : SUBSET Paths,
          kernel_fails : BOOLEAN, devices_fail : SUBSET Ifaces]

\* struct rt_path as far as the RIB uses it, and struct rt_entry.
RtPaths == [version : 0 .. VersionModulus - 1, nexthop : NextHops, cost : Costs, hops : Hops]

RtEntries == [best : Originators \cup {NULL}, nexthop : NextHops \cup {NULL}, hops : Hops \cup {0},
              paths : UNION {[D -> RtPaths] : D \in SUBSET Originators}]

ASSUME RibAssumption ==
  /\ Originators \subseteq Nat /\ IsFiniteSet(Originators)
  /\ Costs \subseteq Nat /\ Hops \subseteq Nat \ {0} /\ NatThresh \in 1 .. 100
  /\ LinkLocal \subseteq Prefixes /\ DefaultRoute \in Prefixes \ LinkLocal
  /\ VersionModulus \in Nat \ {0, 1}
  /\ Setups \in [DOMAIN Setups -> Setup]
  /\ \A c \in DOMAIN Setups :
       Setups[c].ip_version = 4 => Setups[c].announced \cap (Originators \X LinkLocal) = {}
  /\ NULL \notin Originators \cup NextHops \cup RtEntries

VARIABLES
  setup,               \* the name of the setup, which does not change
  prefix_tree,         \* the announced <<originator, prefix>>
  rt,                  \* routingtree: prefix -> route entry or NULL
  routingtree_version,
  current_inetgw,      \* originator of the elected default route, or NULL
  kernel,              \* prefix -> routes in the kernel
  up,                  \* ifnet: the interfaces that olsrd uses
  running,             \* the interfaces whose devices are up in the kernel
  refused,             \* prefixes whose kernel calls failed, or would have, in the last update
  stopped

vars == <<setup, prefix_tree, rt, routingtree_version, current_inetgw, kernel, up,
          running, refused, stopped>>

olsr_cnf == Setups[setup]

Init ==
  /\ setup \in DOMAIN Setups
  /\ prefix_tree = {}
  /\ rt = [p \in Prefixes |-> NULL]
  /\ routingtree_version = 0 /\ current_inetgw = NULL
  /\ kernel = [p \in Prefixes |-> {}]
  /\ up = Ifaces /\ running = Ifaces /\ refused = {} /\ stopped = FALSE
----------------------------------------------------------------------------
olsr_insert_routing_table(o, p) ==
  /\ ~stopped /\ <<o, p>> \in olsr_cnf.announced
  /\ prefix_tree' = prefix_tree \cup {<<o, p>>}
  /\ UNCHANGED <<setup, rt, routingtree_version, current_inetgw, kernel, up, running,
                 refused, stopped>>

\* The path leaves both trees and is freed.  If it was the best path of the
\* entry, rt_best keeps pointing to it until the next election.
olsr_delete_routing_table(o, p) ==
  /\ ~stopped /\ <<o, p>> \in prefix_tree
  /\ prefix_tree' = prefix_tree \ {<<o, p>>}
  /\ rt' = IF rt[p] = NULL THEN rt
           ELSE [rt EXCEPT ![p].paths = Restrict(@, DOMAIN @ \ {o})]
  /\ current_inetgw' = IF p = DefaultRoute /\ o = current_inetgw THEN NULL ELSE current_inetgw
  /\ UNCHANGED <<setup, routingtree_version, kernel, up, running, refused, stopped>>
----------------------------------------------------------------------------
Metric(hops) == IF olsr_cnf.fib_metric = "flat" THEN 0 ELSE hops

Route(nexthop, hops) == [nexthop |-> nexthop, metric |-> Metric(hops)]

\* What a call for prefix p does to entry e and to the kernel routes k.  The
\* results of deletions are [ok, kernel], those of additions [entry, kernel].
olsr_delete_kernel_route(p, e, k, bad) ==
  IF p \in LinkLocal /\ e.hops > 1 THEN [ok |-> TRUE, kernel |-> k]
  ELSE IF <<p, "delete">> \in bad THEN [ok |-> FALSE, kernel |-> k]
  ELSE [ok |-> TRUE, kernel |-> k \ {Route(e.nexthop, e.hops)}]

\* The answer to an addition is an error: for one of many reasons, and when
\* the device of the next hop is down.
Refuses(p, nexthop, bad) == <<p, "add">> \in bad \/ nexthop.iif_index \notin running

olsr_add_kernel_routeStores(p, e, k, bad) ==
  LET b == e.paths[e.best]
      new == Route(b.nexthop, b.hops)
  IN [entry |-> [e EXCEPT !.nexthop = b.nexthop, !.hops = b.hops],
      kernel |-> IF Refuses(p, b.nexthop, bad) THEN k
                 ELSE {r \in k : olsr_cnf.ip_version = 6 \/ r.metric # new.metric} \cup {new}]

olsr_add_kernel_route(p, e, k, bad) ==
  LET b == e.paths[e.best]
      new == Route(b.nexthop, b.hops)
  IN IF (p \in LinkLocal /\ b.hops > 1) \/ Refuses(p, b.nexthop, bad)
     THEN [entry |-> e, kernel |-> k]
     ELSE [entry |-> [e EXCEPT !.nexthop = b.nexthop, !.hops = b.hops],
           kernel |-> {r \in k : olsr_cnf.ip_version = 6 \/ r.metric # new.metric} \cup {new}]

\* A route must be deleted before its successor is added.
DeleteFirst == olsr_cnf.ip_version # 4 \/ olsr_cnf.fib_metric # "flat"

\* An entry on the change list.
olsr_chg_kernel_routes(p, e, k, bad) ==
  olsr_add_kernel_route(p, e,
    IF DeleteFirst /\ e.nexthop # NULL THEN olsr_delete_kernel_route(p, e, k, bad).kernel ELSE k,
    bad)

\* The path of originator o1 is better than that of o2; gw is the originator
\* of the current default route, if the prefix is the default route.
olsr_cmp_rtp(paths, o1, o2, gw) ==
  LET etx(o) == IF o = gw THEN (paths[o].cost * NatThresh) \div 100 ELSE paths[o].cost
  IN \/ etx(o1) < etx(o2)
     \/ etx(o1) = etx(o2) /\ paths[o1].hops < paths[o2].hops
     \/ etx(o1) = etx(o2) /\ paths[o1].hops = paths[o2].hops /\ o1 < o2

olsr_rt_bestFickle(p, e, gw) ==
  CHOOSE o \in DOMAIN e.paths :
    \A q \in DOMAIN e.paths \ {o} : olsr_cmp_rtp(e.paths, o, q, NULL)

\* The scan over the paths ends with the only one that beats all others.
olsr_rt_best(p, e, gw) ==
  LET inetgw == IF p = DefaultRoute THEN gw ELSE NULL
  IN CHOOSE o \in DOMAIN e.paths :
       \A q \in DOMAIN e.paths \ {o} : olsr_cmp_rtp(e.paths, o, q, inetgw)

HopcountChangeNever(b, e) == FALSE

HopcountChange(b, e) == olsr_cnf.fib_metric = "correct" /\ b.hops # e.hops

olsr_delete_outdated_routes(e, version) ==
  LET kept == {o \in DOMAIN e.paths : e.paths[o].version = version}
  IN [e EXCEPT !.paths = Restrict(@, kept),
               !.best = IF @ \in DOMAIN e.paths \ kept THEN NULL ELSE @]

\* olsr_update_rib_routes and olsr_update_kernel_routes for one entry.  The
\* entry of a prefix without paths goes only if the kernel route is deleted.
UpdateEntry(p, e0, version, k, bad) ==
  LET e == olsr_delete_outdated_routes(e0, version)
      deleted == olsr_delete_kernel_route(p, e, k, bad)
      new == [e EXCEPT !.best = olsr_rt_best(p, e, current_inetgw)]
      b == new.paths[new.best]
  IN IF DOMAIN e.paths = {}
     THEN [entry |-> IF deleted.ok THEN NULL ELSE e, kernel |-> deleted.kernel]
     ELSE IF b.nexthop # e.nexthop \/ HopcountChange(b, e)
     THEN olsr_chg_kernel_routes(p, new, k, bad)
     ELSE [entry |-> new, kernel |-> k]

Failures ==
  IF olsr_cnf.kernel_fails
  THEN SUBSET ({a[2] : a \in olsr_cnf.announced} \X {"add", "delete"}) ELSE {{}}

Elected(e) == e # NULL /\ e.best \in DOMAIN e.paths

\* A call for prefix p, whose entry is e now, failed or would have.
Failed(p, e, bad) ==
  (\E call \in bad : call[1] = p) \/ (Elected(e) /\ Refuses(p, e.paths[e.best].nexthop, bad))

\* Bring entries `old` and the kernel routes up to date with `version`.
UpdateRoutes(old, version) ==
  \E bad \in Failures :
    LET result == [p \in Prefixes |->
          IF old[p] = NULL THEN [entry |-> NULL, kernel |-> kernel[p]]
          ELSE UpdateEntry(p, old[p], version, kernel[p], bad)]
    IN /\ rt' = [p \in Prefixes |-> result[p].entry]
       /\ kernel' = [p \in Prefixes |-> result[p].kernel]
       /\ refused' = {p \in Prefixes : Failed(p, rt'[p], bad)}
       /\ current_inetgw' =
            IF rt'[DefaultRoute] # NULL
               /\ DOMAIN rt'[DefaultRoute].paths # {}
            THEN rt'[DefaultRoute].best ELSE current_inetgw
----------------------------------------------------------------------------
\* olsr_bump_routingtree_version
NewVersion == (routingtree_version + 1) % VersionModulus

\* The entry of prefix p once the paths of the routers that the SPF run
\* reached are refreshed or inserted.
Refreshed(p, reach, version) ==
  LET reached == {o \in Originators : reach[o] # NULL /\ <<o, p>> \in prefix_tree}
      e == IF rt[p] = NULL
           THEN [best |-> NULL, nexthop |-> NULL, hops |-> 0, paths |-> << >>]
           ELSE rt[p]
  IN IF rt[p] = NULL /\ reached = {} THEN NULL
     ELSE [e EXCEPT !.paths = [o \in DOMAIN @ \cup reached |->
            IF o \in reached
            THEN [version |-> version, nexthop |-> reach[o].nexthop,
                  cost |-> reach[o].cost, hops |-> reach[o].hops]
            ELSE e.paths[o]]]

olsr_calculate_routing_table ==
  /\ ~stopped
  /\ \E reach \in [Originators -> {NULL} \cup {r \in olsr_cnf.paths : r.nexthop.iif_index \in up}] :
       UpdateRoutes([p \in Prefixes |-> Refreshed(p, reach, NewVersion)], NewVersion)
  /\ routingtree_version' = NewVersion
  /\ UNCHANGED <<setup, prefix_tree, up, running, stopped>>

olsr_delete_all_kernel_routes ==
  /\ ~stopped
  /\ UpdateRoutes(rt, NewVersion)
  /\ routingtree_version' = NewVersion
  /\ stopped' = TRUE
  /\ UNCHANGED <<setup, prefix_tree, up, running>>

\* The paths of entry e that lead over interface i.
Over(e, i) == {o \in DOMAIN e.paths : e.paths[o].nexthop.iif_index = i}

\* The entry loses its best path with interface i, and is flushed if it has no other.
Hit(e, i) == e # NULL /\ e.best \in Over(e, i)

Flushed(e, i) == Hit(e, i) /\ Over(e, i) = DOMAIN e.paths

\* What the loss of interface i leaves of entry e.
Left(e, i) ==
  IF e = NULL \/ Flushed(e, i) THEN NULL
  ELSE [e EXCEPT !.paths = Restrict(@, DOMAIN @ \ Over(e, i)),
                 !.best = IF Hit(e, i) THEN NULL ELSE @]

\* The paths over interface i leave the RIB; the kernel is not asked to drop
\* their routes.  All routes are updated if an entry lost its best path.
olsr_delete_interface_routes(i) ==
  LET left == [p \in Prefixes |-> Left(rt[p], i)]
  IN IF \E p \in Prefixes : Hit(rt[p], i)
     THEN UpdateRoutes(left, routingtree_version)
     ELSE rt' = left /\ UNCHANGED <<kernel, current_inetgw, refused>>

\* chk_if_changed and netlink_process_link: the device is down, or was when the
\* event was sent, or its address is gone; or the address has changed, and the
\* interface is created again at once if its device is up.
olsr_remove_interface(i) ==
  /\ ~stopped /\ i \in olsr_cnf.devices_fail \cap up
  /\ olsr_delete_interface_routes(i)
  /\ up' \in {up \ {i}} \cup {u \in {up} : i \in running}
  /\ UNCHANGED <<setup, prefix_tree, routingtree_version, running, stopped>>

\* The poll or an event of the kernel finds the device of an interface up.
chk_if_up(i) ==
  /\ ~stopped /\ i \notin up /\ i \in running
  /\ up' = up \cup {i}
  /\ UNCHANGED <<setup, prefix_tree, rt, routingtree_version, current_inetgw, kernel, running,
                 refused, stopped>>

\* The operating system: a device goes down, and the kernel drops the routes
\* over it; and comes up again.
DeviceDown(i) ==
  /\ ~stopped /\ i \in olsr_cnf.devices_fail \cap running
  /\ running' = running \ {i}
  /\ kernel' = [p \in Prefixes |-> {r \in kernel[p] : r.nexthop.iif_index # i}]
  /\ UNCHANGED <<setup, prefix_tree, rt, routingtree_version, current_inetgw, up, refused, stopped>>

DeviceUp(i) ==
  /\ ~stopped /\ i \notin running
  /\ running' = running \cup {i}
  /\ UNCHANGED <<setup, prefix_tree, rt, routingtree_version, current_inetgw, kernel, up,
                 refused, stopped>>

Next ==
  \/ \E o \in Originators, p \in Prefixes :
       olsr_insert_routing_table(o, p) \/ olsr_delete_routing_table(o, p)
  \/ olsr_calculate_routing_table
  \/ olsr_delete_all_kernel_routes
  \/ \E i \in Ifaces :
       olsr_remove_interface(i) \/ chk_if_up(i) \/ DeviceDown(i) \/ DeviceUp(i)

Spec == Init /\ [][Next]_vars
----------------------------------------------------------------------------
EntryOK(p, e) ==
  /\ e.best \in Originators \cup {NULL} /\ e.nexthop \in NextHops \cup {NULL}
  /\ e.hops \in Hops \cup {0}
  /\ \A o \in DOMAIN e.paths :
       /\ <<o, p>> \in prefix_tree /\ e.paths[o].nexthop.iif_index \in up
       /\ e.paths[o] \in [version : {routingtree_version}, nexthop : NextHops,
                          cost : Costs, hops : Hops]

\* The types of the tables; every path in the RIB carries the current
\* version, however small the range in which the version wraps, is announced,
\* and leads over an interface in use; the routes of the kernel lead over
\* devices that are up.
TypeOK ==
  /\ setup \in DOMAIN Setups
  /\ prefix_tree \subseteq Originators \X Prefixes
  /\ \A p \in Prefixes : rt[p] # NULL => EntryOK(p, rt[p])
  /\ current_inetgw \in Originators \cup {NULL}
  /\ kernel \in [Prefixes -> SUBSET [nexthop : NextHops, metric : Hops \cup {0}]]
  /\ \A p \in Prefixes : \A r \in kernel[p] : r.nexthop.iif_index \in running
  /\ up \subseteq Ifaces /\ running \subseteq Ifaces

\* "A route entry contains the nexthop of the best path as installed in the
\* kernel FIB" (routing_table.h), and the kernel has no other route for the
\* prefix, which nothing would delete.  A link-local destination two hops away
\* is skipped by olsr_add_kernel_route, after the deletion of its old route.
Agrees(p, e, k) ==
  /\ \A r \in k : e # NULL /\ r = Route(e.nexthop, e.hops)
  /\ e # NULL /\ e.nexthop # NULL /\ p \notin LinkLocal => Route(e.nexthop, e.hops) \in k

Agreed(p) == Agrees(p, rt[p], kernel[p])

\* What takes the kernel and the entry of prefix p apart in a step, and nothing else
\* does: its device goes down, ahead of olsr_delete_interface_routes ...
LostWithDevice(p) ==
  rt[p] # NULL /\ rt[p].nexthop # NULL /\ rt[p].nexthop.iif_index \in running \ running'

\* ... one of the two calls of a change fails ...
HalfChanged(p) == DeleteFirst /\ p \in refused'

\* ... or its entry is flushed with an interface, and the kernel has its route
\* still: the device is up, or the route is over another one since a change of
\* it was refused.
FlushedTooEarly(p) ==
  /\ \E i \in up : Flushed(rt[p], i)
  /\ rt[p].nexthop # NULL /\ rt[p].nexthop.iif_index \in running
  /\ rt'[p] = NULL /\ routingtree_version' = routingtree_version

\* The kernel follows the RIB, whatever calls fail, devices go down and interfaces are
\* removed: only the three events above take the two apart (olsr_add_kernel_route and
\* olsr_delete_kernel_route leave what the entry says); and where a new route replaces
\* the old, the next change that the kernel accepts brings them together again.
KernelFollowsRib ==
  [][\A p \in Prefixes : rt'[p] # rt[p] \/ kernel'[p] # kernel[p] =>
       /\ Agreed(p) => Agreed(p)' \/ LostWithDevice(p) \/ HalfChanged(p) \/ FlushedTooEarly(p)
       /\ ~DeleteFirst /\ rt'[p] # NULL /\ rt'[p].nexthop # NULL =>
            (rt[p] # NULL /\ rt'[p].nexthop = rt[p].nexthop) \/ Agreed(p)']_vars

\* At the end of the shutdown all entries are gone but those whose deletion failed.
CleanShutdown == stopped => \A p \in Prefixes \ refused : rt[p] = NULL

\* After an update in which no call failed for a prefix, its entry has the next hop of
\* the best path: a change that failed before has been made up for, and while the
\* kernel follows the entry it routes the prefix over the best path.
BestInstalled ==
  /\ TypeOK /\ CleanShutdown
  /\ \A p \in Prefixes \ (refused \cup LinkLocal) : Elected(rt[p]) =>
       LET b == rt[p].paths[rt[p].best]
       IN /\ rt[p].nexthop = b.nexthop
          /\ olsr_cnf.fib_metric = "correct" => rt[p].hops = b.hops
          /\ Agreed(p) /\ olsr_cnf.fib_metric # "approx" => kernel[p] = {Route(b.nexthop, b.hops)}

\* The default route leaves a gateway that is still reachable only for one
\* that is better by the threshold lq_nat_thresh.
GatewayHysteresis ==
  [][ LET e == rt'[DefaultRoute]
          c == current_inetgw
      IN (c # current_inetgw' /\ current_inetgw' # NULL /\ e # NULL /\ c \in DOMAIN e.paths)
           => e.paths[current_inetgw'].cost * 100 <= e.paths[c].cost * NatThresh ]_vars
=============================================================================
