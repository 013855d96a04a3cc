------------------------------ MODULE SpfProofs ------------------------------
(***************************************************************************)
(* For every database and every choice among equally cheap candidates, the  *)
(* SPF run keeps the facts that make its result the shortest paths: the     *)
(* path list is settled (Settled), no edge out of it improves anything      *)
(* (Relaxed) and every path is made of its edges (TightTree).               *)
(***************************************************************************)
EXTENDS Spf, TLAPS

LEMMA InitCertified == Init => PathsCertified
  <1> USE SpfAssumption
  <1> SUFFICES ASSUME Init PROVE PathsCertified
    OBVIOUS
  <1>1. TypeOK
    <2>1. PICK d \in Databases : edge = d.edge /\ cost = d.cost
      BY DEF Init, InitFor
    <2>2. edge \in SUBSET Pairs /\ cost \in [Pairs -> Nat]
      BY Zenon, <2>1 DEF Pairs, Others
    <2> QED
      BY <2>2 DEF Init, InitFor, TypeOK
  <1> QED
    BY <1>1 DEF Init, InitFor, PathsCertified, Settled, Relaxed, TightTree, Source

LEMMA StartStep == PathsCertified /\ StartRun => PathsCertified'
  <1> USE SpfAssumption
  <1> SUFFICES ASSUME PathsCertified, StartRun PROVE PathsCertified'
    OBVIOUS
  <1>0. TypeOK
    BY DEF PathsCertified
  <1>1. TypeOK'
    <2>1. Neighbors \subseteq Others /\ Others \subseteq Nodes
      BY DEF Neighbors, Others
    <2>2. edge' \in SUBSET Pairs
      BY <1>0, <2>1 DEF StartRun, TypeOK, Pairs
    <2>3. \A n \in Neighbors : link[n] \in Nat
      BY Zenon, <1>0 DEF Neighbors, TypeOK
    <2>4. cost' \in [Pairs -> Nat]
      BY <1>0, <2>3 DEF StartRun, TypeOK
    <2>5. /\ path_cost' \in [Nodes -> 0 .. ROUTE_COST_BROKEN]
          /\ \A n \in Nodes : n \in cand' \cup path_list' <=> path_cost'[n] < ROUTE_COST_BROKEN
      BY DEF StartRun
    <2>6. next_hop' \in [Nodes -> Nodes \cup {NULL}] /\ hops' \in [Nodes -> Nat]
      BY DEF StartRun
    <2>7. runs' \in Nat /\ pc' = "run" /\ link' = link /\ routes' = routes
      BY <1>0 DEF StartRun, TypeOK
    <2>8. cand' \in SUBSET Nodes /\ path_list' \in SUBSET Nodes /\ cand' \cap path_list' = {}
      BY DEF StartRun
    <2> QED
      BY <1>0, <2>2, <2>4, <2>5, <2>6, <2>7, <2>8 DEF TypeOK
  <1>2. Settled' /\ Relaxed' /\ TightTree'
    BY DEF StartRun, Settled, Relaxed, TightTree
  <1>3. Source'
    <2>1. /\ cand' = {tc_myself} /\ path_list' = {}
          /\ path_cost'[tc_myself] = 0 /\ next_hop'[tc_myself] = NULL
      BY DEF StartRun, Neighbors, Others
    <2>2. ASSUME NEW v \in Nodes, Usable(tc_myself, v)'
          PROVE  next_hop'[v] = v
      <3>1. <<tc_myself, v>> \in edge' /\ <<v, tc_myself>> \in edge'
        BY <2>2 DEF Usable
      <3>2. v \in Neighbors
        BY <3>1, <1>0 DEF StartRun, Others
      <3>3. v # tc_myself
        BY <3>2 DEF Neighbors, Others
      <3>4. <<v, tc_myself>> \in edge
        BY <3>1, <3>3 DEF StartRun
      <3> QED
        BY <3>2, <3>4 DEF StartRun
    <2> QED
      BY <2>1, <2>2 DEF Source
  <1> QED
    BY <1>1, <1>2, <1>3 DEF PathsCertified

\* A pass moves u from the candidates to the path list.  No vertex on the path
\* list changes, because it is at most as expensive as u.
LEMMA PassKeepsSettled ==
  ASSUME NEW u \in Nodes, PathsCertified, olsr_spf_run_full(u)
  PROVE  /\ \A w \in path_list \cup {u} :
              path_cost'[w] = path_cost[w] /\ next_hop'[w] = next_hop[w] /\ hops'[w] = hops[w]
         /\ \A w \in path_list : path_cost[w] <= path_cost[u]
  <1> USE SpfAssumption
  <1>1. TypeOK /\ Settled /\ pc = "run" /\ u \in cand
    BY DEF PathsCertified, olsr_spf_run_full, Best
  <1>2. \A w \in path_list : path_cost[w] <= path_cost[u]
    BY <1>1 DEF Settled
  <1>3. cost \in [Nodes \X Nodes -> Nat] /\ path_cost \in [Nodes -> 0 .. ROUTE_COST_BROKEN]
    BY <1>1 DEF TypeOK, Pairs
  <1>4. ASSUME NEW w \in path_list \cup {u}
        PROVE  w \in Nodes /\ ~(path_cost[u] + cost[<<u, w>>] < path_cost[w])
    <2>1. w \in Nodes /\ path_cost[w] <= path_cost[u]
      BY <1>1, <1>2, <1>3 DEF TypeOK
    <2> QED
      BY <2>1, <1>3
  <1> QED
    BY <1>2, <1>4 DEF olsr_spf_run_full, olsr_spf_relax

LEMMA PassStep ==
  ASSUME NEW u \in Nodes, PathsCertified, olsr_spf_run_full(u)
  PROVE  PathsCertified'
  <1> USE SpfAssumption
  <1> DEFINE better == {v \in Nodes : Usable(u, v) /\ path_cost[u] + cost[<<u, v>>] < path_cost[v]}
  <1>0. TypeOK /\ Settled /\ Relaxed /\ TightTree /\ Source
    BY DEF PathsCertified
  <1>1. /\ pc = "run" /\ pc' = "run" /\ u \in cand
        /\ \A v \in cand : path_cost[u] <= path_cost[v]
        /\ edge' = edge /\ cost' = cost /\ link' = link /\ runs' = runs /\ routes' = routes
        /\ path_list' = path_list \cup {u}
        /\ cand' = (cand \cup better) \ {u}
    BY DEF olsr_spf_run_full, olsr_spf_relax, Best
  <1>2. \A v \in Nodes :
          /\ path_cost'[v] = IF v \in better THEN path_cost[u] + cost[<<u, v>>] ELSE path_cost[v]
          /\ next_hop'[v] = IF v \in better /\ next_hop[u] # NULL THEN next_hop[u] ELSE next_hop[v]
          /\ hops'[v] = IF v \in better THEN hops[u] + 1 ELSE hops[v]
    BY DEF olsr_spf_run_full, olsr_spf_relax
  <1>3. /\ cost \in [Nodes \X Nodes -> Nat] /\ path_cost \in [Nodes -> 0 .. ROUTE_COST_BROKEN]
        /\ hops \in [Nodes -> Nat] /\ next_hop \in [Nodes -> Nodes \cup {NULL}]
        /\ ROUTE_COST_BROKEN \in Nat
    BY <1>0 DEF TypeOK, Pairs
  <1>4. \A v \in better : v \in Nodes /\ Usable(u, v) /\ path_cost[u] + cost[<<u, v>>] < path_cost[v]
    OBVIOUS
  <1>5. \A w \in path_list \cup {u} :
          path_cost'[w] = path_cost[w] /\ next_hop'[w] = next_hop[w] /\ hops'[w] = hops[w]
    BY PassKeepsSettled
  <1>6. \A w \in path_list : path_cost[w] <= path_cost[u]
    BY PassKeepsSettled
  <1>7. \A w \in path_list \cup {u} : w \in Nodes /\ w \notin better
    <2> TAKE w \in path_list \cup {u}
    <2>1. w \in Nodes /\ path_cost[w] <= path_cost[u]
      BY <1>0, <1>3, <1>6 DEF TypeOK
    <2> QED
      BY <2>1, <1>3, <1>4
  <1>8. \A x, y : Usable(x, y)' = Usable(x, y)
    BY <1>1 DEF Usable
  <1>a. ASSUME NEW v \in better
        PROVE  /\ path_cost'[v] \in Nat /\ path_cost[u] <= path_cost'[v]
               /\ path_cost'[v] < path_cost[v] /\ path_cost[v] <= ROUTE_COST_BROKEN
               /\ hops'[v] \in Nat
    <2>1. v \in Nodes /\ path_cost[u] + cost[<<u, v>>] < path_cost[v]
      BY <1>4
    <2>2. path_cost'[v] = path_cost[u] + cost[<<u, v>>] /\ hops'[v] = hops[u] + 1
      BY <2>1, <1>2
    <2> QED
      BY <2>1, <2>2, <1>3
  <1>b. ASSUME NEW v \in Nodes, v \notin better
        PROVE  path_cost'[v] = path_cost[v] /\ hops'[v] = hops[v] /\ next_hop'[v] = next_hop[v]
    BY <1>2, <1>b
  <1>c. ASSUME NEW v \in Nodes
        PROVE  path_cost'[v] \in Nat /\ path_cost'[v] <= path_cost[v] /\ path_cost[v] <= ROUTE_COST_BROKEN
    <2>1. path_cost[v] \in Nat /\ path_cost[v] <= ROUTE_COST_BROKEN
      BY <1>3
    <2>2. CASE v \in better
      BY <2>1, <2>2, <1>a
    <2>3. CASE v \notin better
      BY <2>1, <2>3, <1>b
    <2> QED
      BY <2>2, <2>3
  <1> HIDE DEF better
  <1>9. TypeOK'
    <2>1. cand' \in SUBSET Nodes /\ path_list' \in SUBSET Nodes /\ cand' \cap path_list' = {}
      BY Zenon, <1>0, <1>1, <1>4, <1>7 DEF TypeOK
    <2>2. DOMAIN path_cost' = Nodes /\ path_cost' \in [Nodes -> 0 .. ROUTE_COST_BROKEN]
      <3>1. path_cost' = [v \in Nodes |-> path_cost'[v]]
        BY DEF olsr_spf_run_full, olsr_spf_relax
      <3>2. ASSUME NEW v \in Nodes PROVE path_cost'[v] \in 0 .. ROUTE_COST_BROKEN
        <4>1. path_cost'[v] \in Nat /\ path_cost'[v] <= path_cost[v] /\ path_cost[v] <= ROUTE_COST_BROKEN
          BY <1>c
        <4> QED
          BY <4>1, <1>3
      <3> QED
        BY <3>1, <3>2
    <2>3. next_hop' \in [Nodes -> Nodes \cup {NULL}] /\ hops' \in [Nodes -> Nat]
      <3>1. next_hop' = [v \in Nodes |-> next_hop'[v]] /\ hops' = [v \in Nodes |-> hops'[v]]
        BY DEF olsr_spf_run_full, olsr_spf_relax
      <3>2. \A v \in Nodes : next_hop'[v] \in Nodes \cup {NULL}
        BY Zenon, <1>2, <1>3
      <3>3. ASSUME NEW v \in Nodes PROVE hops'[v] \in Nat
        <4>1. CASE v \in better
          BY <4>1, <1>a
        <4>2. CASE v \notin better
          BY <4>2, <1>b, <1>3
        <4> QED
          BY <4>1, <4>2
      <3> QED
        BY <3>1, <3>2, <3>3
    <2>4. ASSUME NEW n \in Nodes
          PROVE  n \in cand' \cup path_list' <=> path_cost'[n] < ROUTE_COST_BROKEN
      <3>1. cand' \cup path_list' = cand \cup path_list \cup better
        BY <1>1, <1>7
      <3>2. n \in cand \cup path_list <=> path_cost[n] < ROUTE_COST_BROKEN
        BY <1>0, <1>1 DEF TypeOK
      <3>3. CASE n \in better
        <4>1. path_cost'[n] \in Nat /\ path_cost'[n] < path_cost[n] /\ path_cost[n] <= ROUTE_COST_BROKEN
          BY <3>3, <1>a
        <4> QED
          BY <3>1, <3>3, <4>1, <1>3
      <3>4. CASE n \notin better
        BY Zenon, <3>1, <3>2, <3>4, <1>2
      <3> QED
        BY <3>3, <3>4
    <2> QED
      BY <1>0, <1>1, <2>1, <2>2, <2>3, <2>4 DEF TypeOK
  <1>10. Settled'
    <2> SUFFICES ASSUME NEW w \in path_list', NEW v \in cand'
                 PROVE  path_cost'[w] <= path_cost'[v]
      BY DEF Settled
    <2>1. w \in path_list \cup {u} /\ w \in Nodes /\ path_cost'[w] = path_cost[w]
      BY <1>1, <1>5, <1>7
    <2>2. path_cost[w] <= path_cost[u]
      BY <2>1, <1>3, <1>6
    <2>3. v \in Nodes /\ path_cost[u] <= path_cost'[v]
      <3>1. CASE v \in better
        BY Zenon, <3>1, <1>4, <1>a
      <3>2. CASE v \notin better
        BY <3>2, <1>0, <1>1, <1>b DEF TypeOK
      <3> QED
        BY <3>1, <3>2
    <2>4. path_cost'[v] \in Nat
      BY <2>3, <1>c
    <2> QED
      BY <2>1, <2>2, <2>3, <2>4, <1>3
  <1>11. Relaxed'
    <2> SUFFICES ASSUME NEW w \in path_list', NEW v \in Nodes, Usable(w, v)
                 PROVE  path_cost'[v] <= path_cost'[w] + cost[<<w, v>>]
      BY <1>1, <1>8 DEF Relaxed
    <2>1. w \in path_list \cup {u} /\ w \in Nodes /\ path_cost'[w] = path_cost[w]
      BY <1>1, <1>5, <1>7
    <2>2. path_cost'[v] <= path_cost[v] /\ path_cost'[v] \in Nat
      BY <1>c
    <2>3. cost[<<w, v>>] \in Nat
      BY <2>1, <1>0 DEF TypeOK, Pairs
    <2>4. CASE w \in path_list
      <3>1. path_cost[v] <= path_cost[w] + cost[<<w, v>>]
        BY <2>4, <1>0, <1>1 DEF Relaxed
      <3> QED
        BY <3>1, <2>1, <2>2, <2>3, <1>3
    <2>5. CASE w = u
      BY <2>1, <2>2, <2>3, <2>5, <1>2, <1>3 DEF better
    <2> QED
      BY <2>1, <2>4, <2>5
  <1>12. u # tc_myself => next_hop[u] # NULL /\ tc_myself \notin cand
    BY <1>0, <1>1 DEF Source
  <1>13. u = tc_myself => next_hop[u] = NULL /\ \A v \in Nodes : Usable(u, v) => next_hop[v] = v
    BY <1>0, <1>1 DEF Source
  <1>14. \A v \in better :
           next_hop'[v] = IF u = tc_myself THEN v ELSE next_hop[u]
    BY Zenon, <1>2, <1>4, <1>12, <1>13
  <1>15. TightTree'
    <2> SUFFICES ASSUME NEW v \in (cand' \cup path_list') \ {tc_myself}
                 PROVE  \E w \in path_list' :
                          /\ Usable(w, v)
                          /\ path_cost'[v] = path_cost'[w] + cost[<<w, v>>]
                          /\ hops'[v] = hops'[w] + 1
                          /\ next_hop'[v] = IF w = tc_myself THEN v ELSE next_hop'[w]
      BY ZenonT(60), <1>1, <1>8 DEF TightTree
    <2>1. CASE v \in better
      <3>1. /\ Usable(u, v) /\ u \in path_list'
            /\ path_cost'[v] = path_cost'[u] + cost[<<u, v>>]
            /\ hops'[v] = hops'[u] + 1
        BY <2>1, <1>1, <1>2, <1>4, <1>5
      <3>2. next_hop'[v] = IF u = tc_myself THEN v ELSE next_hop'[u]
        BY <2>1, <1>5, <1>14
      <3> QED
        BY <3>1, <3>2
    <2>2. CASE v \notin better
      <3>1. v \in (cand \cup path_list) \ {tc_myself} /\ v \in Nodes
        BY <2>2, <1>0, <1>1 DEF TypeOK
      <3>2. PICK w \in path_list :
              /\ Usable(w, v)
              /\ path_cost[v] = path_cost[w] + cost[<<w, v>>]
              /\ hops[v] = hops[w] + 1
              /\ next_hop[v] = IF w = tc_myself THEN v ELSE next_hop[w]
        BY <3>1, <1>0, <1>1 DEF TightTree
      <3>3. path_cost'[v] = path_cost[v] /\ hops'[v] = hops[v] /\ next_hop'[v] = next_hop[v]
        BY Zenon, <2>2, <3>1, <1>2
      <3>4. w \in path_list' /\ path_cost'[w] = path_cost[w] /\ hops'[w] = hops[w] /\ next_hop'[w] = next_hop[w]
        BY <1>1, <1>5
      <3> QED
        BY <3>2, <3>3, <3>4
    <2> QED
      BY Zenon, <2>1, <2>2
  <1>16. Source'
    <2>1. tc_myself \in cand \cup path_list /\ path_cost[tc_myself] = 0 /\ next_hop[tc_myself] = NULL
      BY <1>0, <1>1 DEF Source
    <2>2. tc_myself \notin better
      <3>1. SUFFICES ASSUME tc_myself \in better PROVE FALSE
        OBVIOUS
      <3>2. path_cost'[tc_myself] \in Nat /\ path_cost'[tc_myself] < path_cost[tc_myself]
        BY <3>1, <1>a
      <3> QED
        BY <3>2, <2>1
    <2>3. tc_myself \notin cand'
      BY <2>2, <1>1, <1>12
    <2>4. tc_myself \in cand' \cup path_list'
      BY <2>1, <1>1
    <2>5. path_cost'[tc_myself] = 0 /\ next_hop'[tc_myself] = NULL
      BY Zenon, <2>1, <2>2, <1>2
    <2>6. ASSUME NEW v \in (cand' \cup path_list') \ {tc_myself}
          PROVE  next_hop'[v] # NULL
      <3>1. CASE v \in better
        BY Zenon, <3>1, <1>4, <1>12, <1>14
      <3>2. CASE v \notin better
        BY Zenon, <3>2, <1>0, <1>1, <1>2 DEF Source, TypeOK
      <3> QED
        BY <3>1, <3>2
    <2> QED
      BY <2>3, <2>4, <2>5, <2>6 DEF Source
  <1> QED
    BY <1>9, <1>10, <1>11, <1>15, <1>16 DEF PathsCertified

LEMMA NextInv == PathsCertified /\ [Next]_vars => PathsCertified'
  <1> SUFFICES ASSUME PathsCertified, [Next]_vars PROVE PathsCertified'
    OBVIOUS
  <1>1. CASE StartRun
    BY <1>1, StartStep
  <1>2. CASE \E u \in Nodes : olsr_spf_run_full(u)
    BY <1>2, PassStep
  <1>3. CASE Finish
    <2>1. TypeOK'
      BY <1>3 DEF PathsCertified, TypeOK, Finish
    <2>2. Settled' /\ Relaxed' /\ TightTree' /\ Source'
      BY <1>3 DEF PathsCertified, Settled, Relaxed, TightTree, Source, Finish, Usable
    <2> QED
      BY <2>1, <2>2 DEF PathsCertified
  <1>4. CASE LinkChange
    <2>1. TypeOK'
      BY <1>4 DEF PathsCertified, TypeOK, LinkChange
    <2>2. Settled' /\ Relaxed' /\ TightTree' /\ Source'
      BY <1>4 DEF Settled, Relaxed, TightTree, Source, LinkChange
    <2> QED
      BY <2>1, <2>2 DEF PathsCertified
  <1>5. CASE UNCHANGED vars
    <2>1. TypeOK'
      BY <1>5 DEF PathsCertified, TypeOK, vars
    <2>2. Settled' /\ Relaxed' /\ TightTree' /\ Source'
      BY <1>5 DEF PathsCertified, Settled, Relaxed, TightTree, Source, Usable, vars
    <2> QED
      BY <2>1, <2>2 DEF PathsCertified
  <1> QED
    BY <1>1, <1>2, <1>3, <1>4, <1>5 DEF Next

\* The facts above hold in every state of every SPF run.
THEOREM Invariance == Spec => []PathsCertified
  BY InitCertified, NextInv, PTL DEF Spec

\* The queue operations of olsr_spf_relax are legal: a vertex is keyed down
\* only while it is queued, and queued only if it was not reached before.
THEOREM QueueUse == Spec => []TypeOK
  BY Invariance, PTL DEF PathsCertified

\* Whatever the order among equal costs, a vertex on the path list is never
\* more expensive than a candidate, for every database.
THEOREM SettledForGood == Spec => []Settled
  BY Invariance, PTL DEF PathsCertified

\* When the candidates run out no edge of a reached vertex leads to a cheaper
\* path, so the costs are least.
THEOREM NothingCheaper == Spec => []Relaxed
  BY Invariance, PTL DEF PathsCertified

\* The cost, the hop count and the next hop of every vertex come from one path
\* of usable edges that begins at a neighbour of ours, the next hop.
THEOREM PathsAreReal == Spec => []TightTree
  BY Invariance, PTL DEF PathsCertified
=============================================================================
