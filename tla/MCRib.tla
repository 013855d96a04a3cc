-------------------------------- MODULE MCRib --------------------------------
(***************************************************************************)
(* One run for the announced prefixes: how they enter the topology with HNA *)
(* and MID messages (HnaSet) and how the routes to them reach the kernel    *)
(* (Rib).  A behaviour is one of the component that part names; the other   *)
(* does not move.                                                           *)
(***************************************************************************)
EXTENDS Rib, HnaSet, TLC

CONSTANTS g, h, i, j, dflt, p, fe80,      \* of the RIB
          o1, o2, a1, net, ownnet         \* of the HNA set

VARIABLE part

ASSUME MCAssumption ==
  /\ Gateways = {g, h} /\ Ifaces = {i, j}
  /\ DefaultRoute = dflt /\ LinkLocal = {fe80} /\ Prefixes = {dflt, p, fe80}

\* Paths over gateways G and interfaces I.
PathsOver(G, I, costs, hops) ==
  [nexthop : [gateway : G, iif_index : I], cost : costs, hops : hops]

Daemon(version, metric, announced, paths, kernel_fails, devices_fail) ==
  [ip_version |-> version, fib_metric |-> metric, announced |-> announced,
   paths |-> paths, kernel_fails |-> kernel_fails, devices_fail |-> devices_fail]

\* Two gateways to the Internet and a kernel whose calls fail; two devices that
\* go down, come up and change their addresses, without and with failing calls;
\* metrics that follow the hop count; IPv6; and a link-local destination.
MCSetups ==
  LET both(prefix) == Originators \X {prefix}
  IN [ failing |-> Daemon(4, "flat", both(dflt), PathsOver({g, h}, {i}, {1, 3}, {1}), TRUE, {}),
       devices |-> Daemon(4, "flat", both(dflt) \cup {<<1, p>>}, PathsOver({g}, {i, j}, {1}, {1}),
                          FALSE, {i}),
       faulty  |-> Daemon(4, "flat", both(p), PathsOver({g}, {i, j}, {1}, {1}), TRUE, {i, j}),
       metric  |-> Daemon(4, "correct", both(dflt), PathsOver({g, h}, {i}, {1}, {1, 2}), FALSE, {}),
       ipv6    |-> Daemon(6, "flat", both(p), PathsOver({g}, {i, j}, {1}, {1}), TRUE, {i, j}),
       local   |-> Daemon(6, "flat", both(fe80), PathsOver({g, h}, {i}, {1}, {1, 2}), FALSE, {}) ]

MCHost(o) == <<"host", o>>

\* The originators of the HNA set are alike, unlike those of the RIB, which are ordered.
MCSymmetry == Permutations({o1, o2})

----------------------------------------------------------------------------
RibPart == part = "rib" /\ Next /\ UNCHANGED hna_vars
HnaPart == part = "hna" /\ HnaNext /\ UNCHANGED vars

\* The daemon has deleted its routes and ended.
Ended == part = "rib" /\ stopped /\ UNCHANGED <<vars, hna_vars>>

MCInit ==
  /\ part \in {"rib", "hna"}
  /\ HnaInit
  /\ Init /\ (part = "hna" => setup = "failing")

MCNext == (RibPart \/ HnaPart \/ Ended) /\ UNCHANGED part

MCSpec == MCInit /\ [][MCNext]_<<vars, hna_vars, part>>

\* What a step of either component may never do: leave a reachable gateway for one
\* that is hardly better (olsr_rt_best), or change the paths of the topology without
\* a flag that has the routes calculated (olsr_delete_tc_entry and the HNA handlers).
RouteStepsSound == GatewayHysteresis /\ PathChangesSeen
=============================================================================
