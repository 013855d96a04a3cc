------------------------------ MODULE MCRoutes ------------------------------
(***************************************************************************)
(* One run for the algorithms on the topology and the containers they use:  *)
(* the SPF calculation (Spf), the relay selection (Mpr), the binary heap    *)
(* (BinaryHeap) and the AVL tree (AvlTree).  A behaviour is one of the      *)
(* component that part names; the others do not move, so the state spaces   *)
(* add up and do not multiply.                                              *)
(***************************************************************************)
EXTENDS Spf, Mpr, BinaryHeap, AvlTree

CONSTANT EdgePairs       \* the costs of an edge and its inverse; 0: no edge

VARIABLE part

\* Node 0 is tc_myself.  The other nodes are related by EdgePairs, and each
\* of them may or may not advertise us.
MCDatabases ==
  LET Ordered == {p \in Others \X Others : p[1] < p[2]}
      Cost(f, back, p) ==
        CASE p[1] < p[2] /\ p \in Ordered -> f[p][1]
          [] p[1] > p[2] /\ <<p[2], p[1]>> \in Ordered -> f[<<p[2], p[1]>>][2]
          [] p[2] = tc_myself /\ p[1] \in back -> 1
          [] OTHER -> 0
  IN {[edge |-> {p \in Others \X Nodes : Cost(f, back, p) # 0},
       cost |-> [p \in Pairs |-> Cost(f, back, p)]] :
         f \in [Ordered -> EdgePairs], back \in SUBSET Others}

OneWay == {<<0, 0>>, <<1, 3>>, <<LINK_COST_BROKEN, 1>>}

\* Seven keys in any order, equal keys with and without duplicates, and the
\* twelve keys, entering level by level, of the smallest AVL tree in which one
\* deletion rebalances twice.
MCAvConfigs ==
  <<[keys |-> [n \in 1..7 |-> n], dup |-> FALSE, ordered |-> FALSE],
    [keys |-> <<1, 2, 2, 3, 4>>, dup |-> FALSE, ordered |-> FALSE],
    [keys |-> <<1, 1, 2, 2, 2, 3, 4>>, dup |-> TRUE, ordered |-> FALSE],
    [keys |-> <<8, 5, 11, 3, 7, 10, 12, 2, 4, 6, 9, 1>>, dup |-> FALSE, ordered |-> TRUE]>>

----------------------------------------------------------------------------
SpfPart == part = "spf" /\ Next /\ UNCHANGED <<mprVars, heapVars, av_vars>>
MprPart == part = "mpr" /\ MprNext /\ UNCHANGED <<vars, heapVars, av_vars>>
HeapPart == part = "heap" /\ HeapNext /\ UNCHANGED <<vars, mprVars, av_vars>>
AvlPart == part = "avl" /\ AvNext /\ UNCHANGED <<vars, mprVars, heapVars>>

\* The last SPF run of the bounded behaviour, or the relay selection, is over.
Over ==
  /\ (part = "spf" /\ pc = "done" /\ runs = MaxRuns) \/ (part = "mpr" /\ mpr_pc = "done")
  /\ UNCHANGED <<vars, mprVars, heapVars, av_vars>>

\* The components that do not move start in one fixed state.
MCInit ==
  /\ part \in {"spf", "mpr", "heap", "avl"}
  /\ IF part = "spf" THEN Init
     ELSE InitFor([edge |-> {}, cost |-> [p \in Pairs |-> 0]], [n \in Others |-> NULL])
  /\ IF part = "mpr" THEN MprInit
     ELSE MprInitFor([n \in MprNeighbors |-> "SYM"], [n \in MprNeighbors |-> WILL_ALWAYS],
                     [n \in MprNeighbors |-> {}], {})
  /\ IF part = "heap" THEN HeapInit ELSE HeapInitFor(FALSE)
  /\ IF part = "avl" THEN AvInit ELSE AvInitFor(1)

MCNext == (SpfPart \/ MprPart \/ HeapPart \/ AvlPart \/ Over) /\ UNCHANGED part

MCSpec == MCInit /\ [][MCNext]_<<vars, mprVars, heapVars, av_vars, part>>

----------------------------------------------------------------------------
\* The cost of the cheapest path of at most k edges from us to every node.
Within[k \in Nat] ==
  IF k = 0 THEN [v \in Nodes |-> IF v = tc_myself THEN 0 ELSE ROUTE_COST_BROKEN]
  ELSE [v \in Nodes |->
         LET shorter == Within[k - 1]
             costs == {shorter[v]} \cup {shorter[u] + cost[<<u, v>>] : u \in {w \in Nodes : Usable(w, v)}}
         IN CHOOSE c \in costs : \A d \in costs : c <= d]

\* The costs and the routes of a complete run are those of the shortest paths:
\* olsr_spf_run_full finds a path to every node that has one over usable
\* edges, at the least cost.
ShortestPaths ==
  pc = "done" =>
    LET dist == Within[4]
    IN \A n \in Others :
         /\ path_cost[n] = dist[n]
         /\ (routes[n] # NULL) <=> dist[n] < ROUTE_COST_BROKEN

\* The two pointer structures of the routing tables keep their shape through every
\* sequence of operations: the heap of the SPF candidates and the AVL trees.
StructuresSound == HeapSound /\ AvWellFormed
=============================================================================
