--------------------------------- MODULE Spf ---------------------------------
(***************************************************************************)
(* The SPF run of olsr_calculate_routing_table: the edges to our neighbours *)
(* are brought up to date, then Dijkstra's algorithm runs over the          *)
(* link-state database and the routes are read off its path list.  The      *)
(* candidate set is a priority queue (PriorityQueue) keyed by path_cost:    *)
(* any cheapest candidate may come first.  Each pass of olsr_spf_run_full   *)
(* is a step; nothing else happens in between.                              *)
(*                                                                          *)
(* Definitions named after the next one with a suffix are mutated forms.    *)
(***************************************************************************)
EXTENDS Integers

CONSTANTS
  Nodes, tc_myself,
  Databases,              \* the [edge, cost] the TC messages of others lead to
  LinkCosts,              \* costs of links to neighbours
  LINK_COST_BROKEN, ROUTE_COST_BROKEN,
  NULL,                   \* no next hop, no link
  MaxRuns

Others == Nodes \ {tc_myself}
Pairs == Nodes \X Nodes

ASSUME SpfAssumption ==
  /\ tc_myself \in Nodes /\ NULL \notin Nodes /\ NULL \notin LinkCosts
  /\ LINK_COST_BROKEN \in Nat /\ ROUTE_COST_BROKEN \in Nat \ {0}
  /\ LinkCosts \subseteq Nat
  /\ Databases \subseteq [edge : SUBSET (Others \X Nodes), cost : [Pairs -> Nat]]

VARIABLES
  pc,             \* "idle", "run" or "done"
  runs,
  link,           \* neighbour -> cost of the best link to it, or NULL
  edge, cost,     \* the edges of the database and their costs
  path_cost, next_hop, hops,
  cand,           \* the candidate set
  path_list,      \* the set of vertices on the path list
  routes          \* node -> next hop of the routes, NULL if there is none

vars == <<pc, runs, link, edge, cost, path_cost, next_hop, hops, cand, path_list, routes>>

InitFor(d, l) ==
  /\ edge = d.edge /\ cost = d.cost /\ link = l
  /\ pc = "idle" /\ runs = 0
  /\ path_cost = [n \in Nodes |-> ROUTE_COST_BROKEN]
  /\ next_hop = [n \in Nodes |-> NULL]
  /\ hops = [n \in Nodes |-> 0]
  /\ cand = {} /\ path_list = {}
  /\ routes = [n \in Nodes |-> NULL]

Init == \E d \in Databases, l \in [Others -> LinkCosts \cup {NULL}] : InitFor(d, l)
----------------------------------------------------------------------------
Neighbors == {n \in Others : link[n] # NULL}

\* Our own edges follow the links.  A new edge has no link quality yet, so
\* olsr_calc_tc_edge_entry_etx finds it broken; the quality is copied from
\* the link when the next run finds the edge.
StartRun ==
  /\ pc = "idle"
  /\ pc' = "run"
  /\ runs' = runs + 1
  /\ edge' = (edge \ ({tc_myself} \X Nodes)) \cup ({tc_myself} \X Neighbors)
  /\ cost' = [p \in Pairs |->
       IF p[1] = tc_myself /\ p[2] \in Neighbors
       THEN IF p \in edge THEN link[p[2]] ELSE LINK_COST_BROKEN
       ELSE cost[p]]
  /\ path_cost' = [n \in Nodes |-> IF n = tc_myself THEN 0 ELSE ROUTE_COST_BROKEN]
  /\ next_hop' = [n \in Nodes |->
       IF n \in Neighbors /\ <<n, tc_myself>> \in edge THEN n ELSE NULL]
  /\ hops' = [n \in Nodes |-> 0]
  /\ cand' = {tc_myself}
  /\ path_list' = {}
  /\ UNCHANGED <<link, routes>>

\* An edge that olsr_spf_relax follows: the inverse edge is known and the
\* edge is not broken.
Usable(u, v) ==
  /\ <<u, v>> \in edge /\ <<v, u>> \in edge
  /\ cost[<<u, v>>] # LINK_COST_BROKEN

olsr_spf_relaxKeepsHop(u) ==
  LET better == {v \in Nodes : Usable(u, v) /\ path_cost[u] + cost[<<u, v>>] < path_cost[v]}
  IN /\ path_cost' = [v \in Nodes |->
                        IF v \in better THEN path_cost[u] + cost[<<u, v>>] ELSE path_cost[v]]
     /\ next_hop' = [v \in Nodes |->
                       IF v \in better /\ next_hop[v] = NULL THEN next_hop[u] ELSE next_hop[v]]
     /\ hops' = [v \in Nodes |-> IF v \in better THEN hops[u] + 1 ELSE hops[v]]
     /\ cand' = (cand \cup better) \ {u}

\* Relax the edges of u: a vertex that gets cheaper is a candidate, and
\* inherits the next hop of u unless u has none (that is, we are u).
olsr_spf_relax(u) ==
  LET better == {v \in Nodes : Usable(u, v) /\ path_cost[u] + cost[<<u, v>>] < path_cost[v]}
  IN /\ path_cost' = [v \in Nodes |->
                        IF v \in better THEN path_cost[u] + cost[<<u, v>>] ELSE path_cost[v]]
     /\ next_hop' = [v \in Nodes |->
                       IF v \in better /\ next_hop[u] # NULL THEN next_hop[u] ELSE next_hop[v]]
     /\ hops' = [v \in Nodes |-> IF v \in better THEN hops[u] + 1 ELSE hops[v]]
     /\ cand' = (cand \cup better) \ {u}

\* The vertices that olsr_spf_extract_best may return.
Best == {u \in cand : \A v \in cand : path_cost[u] <= path_cost[v]}

\* One pass of olsr_spf_run_full.
olsr_spf_run_full(u) ==
  /\ pc = "run"
  /\ u \in Best
  /\ olsr_spf_relax(u)
  /\ path_list' = path_list \cup {u}
  /\ UNCHANGED <<pc, runs, link, edge, cost, routes>>

FinishBreaks ==
  /\ pc = "run" /\ cand = {}
  /\ pc' = "done"
  /\ routes' = [n \in Nodes |-> NULL]
  /\ UNCHANGED <<runs, link, edge, cost, path_cost, next_hop, hops, cand, path_list>>

\* The path list is walked: a vertex with a next hop has a route.
Finish ==
  /\ pc = "run" /\ cand = {}
  /\ pc' = "done"
  /\ routes' = [n \in Nodes |-> IF n \in path_list THEN next_hop[n] ELSE NULL]
  /\ UNCHANGED <<runs, link, edge, cost, path_cost, next_hop, hops, cand, path_list>>

\* Between two runs the link to one neighbour may change.
LinkChange ==
  /\ pc = "done" /\ runs < MaxRuns
  /\ pc' = "idle"
  /\ \E n \in Others, c \in LinkCosts \cup {NULL} : link' = [link EXCEPT ![n] = c]
  /\ UNCHANGED <<runs, edge, cost, path_cost, next_hop, hops, cand, path_list, routes>>

Next ==
  \/ StartRun \/ Finish \/ LinkChange
  \/ \E u \in Nodes : olsr_spf_run_full(u)

Spec == Init /\ [][Next]_vars
----------------------------------------------------------------------------
\* The candidate set and the path list are disjoint sets of vertices, and the
\* vertices outside both are exactly those that still cost ROUTE_COST_BROKEN:
\* olsr_spf_relax decides by that cost between an insertion in the queue and
\* a decrease of the key, which needs the vertex to be in the queue.
TypeOK ==
  /\ pc \in {"idle", "run", "done"} /\ runs \in Nat
  /\ link \in [Others -> LinkCosts \cup {NULL}]
  /\ edge \in SUBSET Pairs /\ cost \in [Pairs -> Nat]
  /\ path_cost \in [Nodes -> 0 .. ROUTE_COST_BROKEN]
  /\ next_hop \in [Nodes -> Nodes \cup {NULL}] /\ hops \in [Nodes -> Nat]
  /\ cand \in SUBSET Nodes /\ path_list \in SUBSET Nodes
  /\ routes \in [Nodes -> Nodes \cup {NULL}]
  /\ cand \cap path_list = {}
  /\ pc = "run" => \A n \in Nodes :
                     n \in cand \cup path_list <=> path_cost[n] < ROUTE_COST_BROKEN

\* A vertex on the path list is final: no candidate is cheaper, so no later
\* pass improves it (it is no longer in the queue to be updated).
Settled ==
  pc = "run" => \A u \in path_list, v \in cand : path_cost[u] <= path_cost[v]

\* No edge of a vertex on the path list leads to a cheaper path.
Relaxed ==
  pc # "idle" => \A u \in path_list, v \in Nodes :
                   Usable(u, v) => path_cost[v] <= path_cost[u] + cost[<<u, v>>]

\* Every vertex that was reached has a predecessor on the path list from
\* which its cost, its hop count and its next hop come; our neighbours are
\* their own next hops.
TightTree ==
  pc # "idle" => \A v \in (cand \cup path_list) \ {tc_myself} :
    \E u \in path_list :
      /\ Usable(u, v)
      /\ path_cost[v] = path_cost[u] + cost[<<u, v>>]
      /\ hops[v] = hops[u] + 1
      /\ next_hop[v] = IF u = tc_myself THEN v ELSE next_hop[u]

\* What else holds while the passes go on.  We are the first vertex to leave
\* the candidate set, and only then do our neighbours still have the next
\* hops they were given; afterwards every vertex that is reached has one.
Source ==
  pc = "run" =>
    /\ tc_myself \in cand \cup path_list
    /\ path_cost[tc_myself] = 0 /\ next_hop[tc_myself] = NULL
    /\ tc_myself \in cand =>
         /\ path_list = {} /\ cand = {tc_myself}
         /\ \A v \in Nodes : Usable(tc_myself, v) => next_hop[v] = v
    /\ \A v \in (cand \cup path_list) \ {tc_myself} : next_hop[v] # NULL

\* What makes the result of olsr_spf_run_full the shortest paths; this is also the
\* inductive invariant of SpfProofs.
PathsCertified == TypeOK /\ Settled /\ Relaxed /\ TightTree /\ Source
=============================================================================
