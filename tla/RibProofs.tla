------------------------------ MODULE RibProofs ------------------------------
(***************************************************************************)
(* What Rib checks on small instances, proved for all routers, prefixes,    *)
(* interfaces, costs and setups that RibAssumption admits, whatever kernel  *)
(* calls fail and devices go down: what takes the kernel and the RIB apart, *)
(* that the best path is the one installed, and that the default route      *)
(* leaves a gateway only for a better one.                                  *)
(***************************************************************************)
EXTENDS Rib, WellFoundedInduction, TLAPS

Versions == 0 .. VersionModulus - 1
KernelRoutes == [nexthop : NextHops, metric : Hops \cup {0}]

\* The routes of a prefix in the kernel: over devices that are up, with the metric of the setup.
RoutesOver(k, devices) ==
  /\ k \in SUBSET KernelRoutes
  /\ \A r \in k : /\ r.nexthop.iif_index \in devices
                  /\ olsr_cnf.fib_metric = "flat" => r.metric = 0

\* No link-local destination that is more than a hop away is ever installed.
NearOnly(p, e) == p \in LinkLocal => e.hops <= 1

\* The entry remembers its best path.
Follows(e) ==
  LET b == e.paths[e.best]
  IN e.nexthop = b.nexthop /\ (olsr_cnf.fib_metric = "correct" => e.hops = b.hops)

\* The paths that an update to version v keeps.
Kept(e, v) == {o \in DOMAIN e.paths : e.paths[o].version = v}

----------------------------------------------------------------------------
LEMMA NatMin ==
  ASSUME NEW T \in SUBSET Nat, T # {}
  PROVE  \E x \in T : \A y \in T : x <= y
  <1>1. PICK x \in T : \A y \in T : ~(<<y, x>> \in OpToRel(<, Nat))
    BY Zenon, NatLessThanWellFounded, WFMin
  <1>2. \A y \in T : ~(y < x)
    BY Zenon, <1>1 DEF OpToRel
  <1> QED BY <1>2

LEMMA NatArgMin ==
  ASSUME NEW D, D # {}, NEW f \in [D -> Nat]
  PROVE  \E x \in D : \A y \in D : f[x] <= f[y]
  <1> DEFINE T == {f[x] : x \in D}
  <1>1. T \in SUBSET Nat /\ T # {}
    OBVIOUS
  <1>2. PICK t \in T : \A u \in T : t <= u
    BY Zenon, <1>1, NatMin
  <1>3. PICK x \in D : f[x] = t
    OBVIOUS
  <1>4. \A y \in D : f[y] \in T
    OBVIOUS
  <1> QED BY <1>2, <1>3, <1>4

LEMMA ScaledNat ==
  ASSUME NEW a \in Nat, NEW b \in Nat
  PROVE  (a * b) \div 100 \in Nat
  <1>1. a * b \in Nat
    OBVIOUS
  <1> QED BY <1>1

\* olsr_cmp_rtp orders the paths of an entry: one of them beats all others.
LEMMA BestExists ==
  ASSUME NEW D \in SUBSET Originators, D # {}, NEW paths \in [D -> RtPaths], NEW gw
  PROVE  \E o \in D : \A q \in D \ {o} : olsr_cmp_rtp(paths, o, q, gw)
  <1> DEFINE etx(o) == IF o = gw THEN (paths[o].cost * NatThresh) \div 100 ELSE paths[o].cost
  <1>1. \A o \in D : /\ paths[o].cost \in Nat /\ paths[o].hops \in Nat /\ o \in Nat
                     /\ etx(o) \in Nat
    <2> SUFFICES ASSUME NEW o \in D PROVE /\ paths[o].cost \in Nat /\ paths[o].hops \in Nat
                                          /\ o \in Nat /\ etx(o) \in Nat
      OBVIOUS
    <2>1. paths[o].cost \in Nat /\ paths[o].hops \in Nat /\ o \in Nat /\ NatThresh \in Nat
      BY RibAssumption DEF RtPaths
    <2> QED BY <2>1, ScaledNat
  <1> HIDE DEF etx
  <1>2. PICK x \in D : \A y \in D : etx(x) <= etx(y)
    <2> DEFINE f == [o \in D |-> etx(o)]
    <2>1. f \in [D -> Nat] /\ \A o \in D : f[o] = etx(o)
      BY <1>1
    <2> HIDE DEF f
    <2>2. PICK x \in D : \A y \in D : f[x] <= f[y]
      BY <2>1, NatArgMin
    <2> QED BY <2>1, <2>2
  <1> DEFINE D1 == {o \in D : etx(o) = etx(x)}
  <1>3. PICK y \in D1 : \A z \in D1 : paths[y].hops <= paths[z].hops
    <2> DEFINE f == [o \in D1 |-> paths[o].hops]
    <2>1. f \in [D1 -> Nat] /\ D1 # {} /\ \A o \in D1 : f[o] = paths[o].hops
      BY <1>1
    <2> HIDE DEF f, D1
    <2>2. PICK y \in D1 : \A z \in D1 : f[y] <= f[z]
      BY <2>1, NatArgMin
    <2> QED BY <2>1, <2>2
  <1> DEFINE D2 == {o \in D1 : paths[o].hops = paths[y].hops}
  <1>4. PICK z \in D2 : \A w \in D2 : z <= w
    <2>1. D2 \in SUBSET Nat /\ D2 # {}
      BY <1>1
    <2> QED BY Zenon, <2>1, NatMin
  <1>5. ASSUME NEW q \in D \ {z}
        PROVE  \/ etx(z) < etx(q)
               \/ etx(z) = etx(q) /\ paths[z].hops < paths[q].hops
               \/ etx(z) = etx(q) /\ paths[z].hops = paths[q].hops /\ z < q
    BY <1>1, <1>2, <1>3, <1>4
  <1>6. \A q \in D \ {z} : olsr_cmp_rtp(paths, z, q, gw)
    BY <1>5 DEF olsr_cmp_rtp, etx
  <1> QED BY <1>4, <1>6

LEMMA BestChosen ==
  ASSUME NEW p, NEW gw, NEW e \in RtEntries, DOMAIN e.paths # {}
  PROVE  /\ olsr_rt_best(p, e, gw) \in DOMAIN e.paths
         /\ \A q \in DOMAIN e.paths \ {olsr_rt_best(p, e, gw)} :
              olsr_cmp_rtp(e.paths, olsr_rt_best(p, e, gw), q, IF p = DefaultRoute THEN gw ELSE NULL)
  <1> DEFINE D == DOMAIN e.paths
  <1> DEFINE inetgw == IF p = DefaultRoute THEN gw ELSE NULL
  <1>1. D \in SUBSET Originators /\ e.paths \in [D -> RtPaths]
    BY DEF RtEntries
  <1> HIDE DEF inetgw
  <1>2. \E o \in D : \A q \in D \ {o} : olsr_cmp_rtp(e.paths, o, q, inetgw)
    BY Zenon, <1>1, BestExists
  <1>3. olsr_rt_best(p, e, gw) = CHOOSE o \in D : \A q \in D \ {o} : olsr_cmp_rtp(e.paths, o, q, inetgw)
    BY DEF olsr_rt_best, inetgw
  <1> QED BY <1>2, <1>3 DEF inetgw
----------------------------------------------------------------------------
\* What olsr_update_kernel_routes relies on for an entry e and the kernel routes k of
\* prefix p, and what it makes of them when the calls in bad fail.
Updatable(p, e, v, k) ==
  /\ e \in RtEntries /\ RoutesOver(k, running) /\ NearOnly(p, e)
  /\ Kept(e, v) # {} => olsr_cnf.ip_version # 4 \/ p \notin LinkLocal

Updated(p, e, v, k, bad, new, routes) ==
  /\ new \in RtEntries \cup {NULL} /\ RoutesOver(routes, running)
  /\ new # NULL =>
       /\ NearOnly(p, new)
       /\ DOMAIN new.paths = Kept(e, v)
       /\ \A o \in Kept(e, v) : new.paths[o] = e.paths[o]
       /\ Kept(e, v) # {} =>
            /\ new.best \in Kept(e, v)
            /\ \A q \in Kept(e, v) \ {new.best} :
                 olsr_cmp_rtp(new.paths, new.best, q,
                              IF p = DefaultRoute THEN current_inetgw ELSE NULL)
  /\ ~Failed(p, new, bad) /\ p \notin LinkLocal /\ Elected(new) => Follows(new)
  /\ ~Failed(p, new, bad) /\ Kept(e, v) = {} => new = NULL
  /\ Agrees(p, e, k) => Agrees(p, new, routes) \/ (DeleteFirst /\ Failed(p, new, bad))
  /\ ~DeleteFirst /\ new # NULL => new.nexthop = e.nexthop \/ Agrees(p, new, routes)

LEMMA Pruned ==
  ASSUME NEW e \in RtEntries, NEW v
  PROVE  LET d == olsr_delete_outdated_routes(e, v)
         IN /\ d \in RtEntries /\ d.nexthop = e.nexthop /\ d.hops = e.hops
            /\ DOMAIN d.paths = Kept(e, v)
            /\ \A o \in Kept(e, v) : d.paths[o] = e.paths[o]
  <1> DEFINE d == olsr_delete_outdated_routes(e, v)
  <1> DEFINE K == Kept(e, v)
  <1>1. e.paths \in [DOMAIN e.paths -> RtPaths] /\ DOMAIN e.paths \in SUBSET Originators
    BY DEF RtEntries
  <1>2. K \in SUBSET Originators /\ K \subseteq DOMAIN e.paths
    BY <1>1 DEF Kept
  <1>3. d = [e EXCEPT !.paths = Restrict(e.paths, K),
                      !.best = IF e.best \in DOMAIN e.paths \ K THEN NULL ELSE e.best]
    BY DEF olsr_delete_outdated_routes, Kept
  <1>4. Restrict(e.paths, K) \in [K -> RtPaths] /\ \A o \in K : Restrict(e.paths, K)[o] = e.paths[o]
    BY <1>1, <1>2 DEF Restrict
  <1> HIDE DEF d, K
  <1>5. /\ d.paths = Restrict(e.paths, K) /\ d.nexthop = e.nexthop /\ d.hops = e.hops
        /\ d \in RtEntries
    <2>1. Restrict(e.paths, K) \in UNION {[D -> RtPaths] : D \in SUBSET Originators}
      BY <1>2, <1>4
    <2>2. NULL \in Originators \cup {NULL}
      OBVIOUS
    <2> QED BY Zenon, <1>3, <2>1, <2>2 DEF RtEntries
  <1>6. DOMAIN d.paths = K /\ \A o \in K : d.paths[o] = e.paths[o]
    BY <1>4, <1>5
  <1> QED BY <1>5, <1>6 DEF d, K

\* A setup knows one of three metrics, and announces no IPv6 address with IPv4.
LEMMA SetupFacts ==
  ASSUME setup \in DOMAIN Setups
  PROVE  /\ olsr_cnf \in Setup
         /\ olsr_cnf.ip_version = 4 => olsr_cnf.announced \cap (Originators \X LinkLocal) = {}
  BY RibAssumption DEF olsr_cnf

\* What agrees with the kernel is all that the kernel holds.
LEMMA OneRoute ==
  ASSUME NEW p \in Prefixes, NEW e \in RtEntries, NEW k \in SUBSET KernelRoutes, Agrees(p, e, k)
  PROVE  /\ k \subseteq {Route(e.nexthop, e.hops)}
         /\ e.nexthop = NULL => k = {}
  <1>1. NULL \notin NextHops
    BY RibAssumption
  <1>2. k \subseteq {Route(e.nexthop, e.hops)}
    BY DEF Agrees
  <1>3. e.nexthop = NULL => k = {}
    BY <1>1, <1>2 DEF Route, KernelRoutes
  <1> QED BY <1>2, <1>3

\* A route is a kernel route.
LEMMA RouteType ==
  ASSUME NEW n \in NextHops, NEW h \in Hops \cup {0}
  PROVE  /\ Route(n, h) \in KernelRoutes /\ Route(n, h).nexthop = n
         /\ olsr_cnf.fib_metric = "flat" => Route(n, h).metric = 0
  BY DEF Route, Metric, KernelRoutes
----------------------------------------------------------------------------
\* UpdateEntry: the four things that may happen to an entry.
LEMMA EntryUpdated ==
  ASSUME setup \in DOMAIN Setups, NEW p \in Prefixes, NEW e0, NEW v, NEW k,
         Updatable(p, e0, v, k), NEW bad \in Failures
  PROVE  Updated(p, e0, v, k, bad,
                 UpdateEntry(p, e0, v, k, bad).entry, UpdateEntry(p, e0, v, k, bad).kernel)
  <1> DEFINE e == olsr_delete_outdated_routes(e0, v)
  <1> DEFINE K == Kept(e0, v)
  <1> DEFINE deleted == olsr_delete_kernel_route(p, e, k, bad)
  <1> DEFINE best == olsr_rt_best(p, e, current_inetgw)
  <1> DEFINE new == [e EXCEPT !.best = best]
  <1> DEFINE b == new.paths[new.best]
  <1> DEFINE r == UpdateEntry(p, e0, v, k, bad)
  <1> SUFFICES Updated(p, e0, v, k, bad, r.entry, r.kernel)
    OBVIOUS
  <1>0. /\ e0 \in RtEntries /\ k \in SUBSET KernelRoutes /\ NearOnly(p, e0)
        /\ \A x \in k : /\ x.nexthop.iif_index \in running
                        /\ olsr_cnf.fib_metric = "flat" => x.metric = 0
        /\ NULL \notin RtEntries /\ NULL \notin NextHops
    BY RibAssumption DEF Updatable, RoutesOver
  <1>1. /\ e \in RtEntries /\ e.nexthop = e0.nexthop /\ e.hops = e0.hops
        /\ DOMAIN e.paths = K /\ \A o \in K : e.paths[o] = e0.paths[o]
    BY <1>0, Pruned
  <1>2. Agrees(p, e0, k) => Agrees(p, e, k)
    BY <1>0, <1>1 DEF Agrees
  <1>3. /\ Agrees(p, e0, k) => /\ k \subseteq {Route(e.nexthop, e.hops)}
                               /\ e.nexthop = NULL => k = {}
        /\ p \in LinkLocal => ~(e.hops > 1)
        /\ NearOnly(p, e)
    <2>1. e.hops \in Nat
      BY <1>1, RibAssumption DEF RtEntries
    <2> QED BY <1>0, <1>1, <1>2, <2>1, OneRoute DEF NearOnly
  <1>4. r = IF DOMAIN e.paths = {}
            THEN [entry |-> IF deleted.ok THEN NULL ELSE e, kernel |-> deleted.kernel]
            ELSE IF b.nexthop # e.nexthop \/ HopcountChange(b, e)
            THEN olsr_chg_kernel_routes(p, new, k, bad)
            ELSE [entry |-> new, kernel |-> k]
    BY DEF UpdateEntry
  <1>5. ASSUME NEW x, NEW c, <<p, c>> \in bad PROVE Failed(p, x, bad)
    BY <1>5 DEF Failed
  <1>6. CASE K = {}
    <2>1. deleted = IF <<p, "delete">> \in bad THEN [ok |-> FALSE, kernel |-> k]
                    ELSE [ok |-> TRUE, kernel |-> k \ {Route(e.nexthop, e.hops)}]
      BY <1>3 DEF olsr_delete_kernel_route
    <2>2. CASE <<p, "delete">> \in bad
      <3>1. r = [entry |-> e, kernel |-> k]
        BY <1>1, <1>4, <1>6, <2>1, <2>2
      <3>2. Failed(p, e, bad)
        BY <1>5, <2>2
      <3> HIDE DEF r, e, K
      <3> QED BY <1>0, <1>1, <1>2, <1>3, <1>6, <3>1, <3>2 DEF Updated, RoutesOver, K
    <2>3. CASE <<p, "delete">> \notin bad
      <3> DEFINE rest == k \ {Route(e.nexthop, e.hops)}
      <3>0. deleted = [ok |-> TRUE, kernel |-> rest] /\ DOMAIN e.paths = {}
        BY Zenon, <1>1, <1>6, <2>1, <2>3
      <3>1. r = [entry |-> NULL, kernel |-> rest]
        <4> HIDE DEF deleted, r, e, rest
        <4> QED BY <1>4, <3>0
      <3>2. Agrees(p, e0, k) => Agrees(p, NULL, rest)
        BY <1>3 DEF Agrees
      <3>3. RoutesOver(rest, running) /\ ~Elected(NULL)
        BY <1>0 DEF RoutesOver, Elected
      <3> HIDE DEF r, e, rest
      <3> QED BY <3>1, <3>2, <3>3 DEF Updated
    <2> QED BY <2>2, <2>3
  <1>7. CASE K # {}
    <2>1. /\ best \in K
          /\ \A q \in K \ {best} :
               olsr_cmp_rtp(e.paths, best, q, IF p = DefaultRoute THEN current_inetgw ELSE NULL)
      BY <1>1, <1>7, BestChosen
    <2>2. K \in SUBSET Originators /\ (olsr_cnf.ip_version # 4 \/ p \notin LinkLocal)
      BY <1>0, <1>7 DEF Kept, RtEntries, Updatable
    <2> HIDE DEF best, e, K
    <2>3. /\ new \in RtEntries /\ new.best = best /\ new.paths = e.paths
          /\ new.nexthop = e.nexthop /\ new.hops = e.hops
      BY <1>1, <2>1, <2>2 DEF RtEntries
    <2> HIDE DEF new
    <2>4. /\ b = e.paths[best] /\ b \in RtPaths /\ b = e0.paths[best]
      BY <1>1, <2>1, <2>3 DEF RtEntries
    <2>5. b.nexthop \in NextHops /\ b.hops \in Hops /\ b.hops \in Nat
      BY <2>4, RibAssumption DEF RtPaths
    <2>6. /\ Agrees(p, e0, k) => Agrees(p, new, k)
          /\ NearOnly(p, new) /\ new # NULL
      BY <1>0, <1>1, <1>2, <1>3, <2>3 DEF Agrees, NearOnly
    <2> HIDE DEF b
    <2>7. CASE ~(b.nexthop # e.nexthop \/ HopcountChange(b, e))
      <3>1. r = [entry |-> new, kernel |-> k]
        BY <1>1, <1>4, <1>7, <2>7
      <3>2. Follows(new)
        BY <2>3, <2>4, <2>7 DEF Follows, HopcountChange
      <3>3. RoutesOver(k, running) /\ new.nexthop = e0.nexthop
        BY <1>0, <1>1, <2>3 DEF RoutesOver
      <3> HIDE DEF r
      <3> QED BY <1>1, <1>7, <2>1, <2>3, <2>6, <3>1, <3>2, <3>3 DEF Updated, K
    <2>8. CASE b.nexthop # e.nexthop \/ HopcountChange(b, e)
      <3> DEFINE k1 == IF DeleteFirst /\ new.nexthop # NULL
                       THEN olsr_delete_kernel_route(p, new, k, bad).kernel ELSE k
      <3> DEFINE route == Route(b.nexthop, b.hops)
      <3> DEFINE replaced == {x \in k1 : olsr_cnf.ip_version = 6 \/ x.metric # route.metric}
      <3> DEFINE changed == [new EXCEPT !.nexthop = b.nexthop, !.hops = b.hops]
      <3>1. r = IF (p \in LinkLocal /\ b.hops > 1) \/ Refuses(p, b.nexthop, bad)
                THEN [entry |-> new, kernel |-> k1]
                ELSE [entry |-> changed, kernel |-> replaced \cup {route}]
        BY Zenon, <1>1, <1>4, <1>7, <2>8 DEF olsr_chg_kernel_routes, olsr_add_kernel_route, b
      <3>2. /\ k1 \subseteq k
            /\ ~DeleteFirst => k1 = k
            /\ Agrees(p, e0, k) /\ <<p, "delete">> \notin bad /\ DeleteFirst => k1 = {}
        BY <1>3, <2>3 DEF olsr_delete_kernel_route
      <3>3. /\ changed \in RtEntries /\ changed.best = best /\ changed.paths = e.paths
            /\ changed.nexthop = b.nexthop /\ changed.hops = b.hops
        BY Zenon, <2>3, <2>5 DEF RtEntries
      <3>4. /\ route \in KernelRoutes /\ route.nexthop = b.nexthop
            /\ olsr_cnf.fib_metric = "flat" => route.metric = 0
        BY <2>5, RouteType
      <3>5. ~DeleteFirst => replaced = {}
        <4> SUFFICES ASSUME ~DeleteFirst PROVE replaced = {}
          OBVIOUS
        <4>1. olsr_cnf.ip_version = 4 /\ olsr_cnf.fib_metric = "flat" /\ k1 = k
          BY <3>2 DEF DeleteFirst
        <4>2. route.metric = 0 /\ \A x \in k : x.metric = 0
          BY <1>0, <4>1 DEF Route, Metric
        <4> QED BY <4>1, <4>2
      <3>6. \A x \in {new, changed} : x.best = best /\ x.paths = e.paths /\ x # NULL /\ Elected(x)
                                     /\ x.paths[x.best] = b
        BY Zenon, <1>0, <1>1, <2>1, <2>3, <2>4, <3>3 DEF Elected
      <3> HIDE DEF k1, replaced, route, changed, r
      <3>7. CASE p \in LinkLocal /\ b.hops > 1 /\ ~Refuses(p, b.nexthop, bad)
        <4>1. r = [entry |-> new, kernel |-> k1] /\ RoutesOver(k1, running)
          BY Zenon, <1>0, <3>1, <3>2, <3>7 DEF RoutesOver
        <4>2. DeleteFirst
          BY <2>2, <3>7 DEF DeleteFirst
        <4>3. Agrees(p, e0, k) => Agrees(p, new, k1) \/ Failed(p, new, bad)
          BY <1>5, <3>2, <3>7, <4>2 DEF Agrees
        <4> QED BY Zenon, <1>1, <1>7, <2>1, <2>3, <2>6, <3>7, <4>1, <4>2, <4>3 DEF Updated, K
      <3>8. CASE Refuses(p, b.nexthop, bad)
        <4>1. r = [entry |-> new, kernel |-> k1] /\ RoutesOver(k1, running)
          BY Zenon, <1>0, <3>1, <3>2, <3>8 DEF RoutesOver
        <4>2. Failed(p, new, bad)
          BY <3>6, <3>8 DEF Failed
        <4> QED BY <1>1, <1>7, <2>1, <2>3, <2>6, <3>2, <4>1, <4>2 DEF Updated, K
      <3>9. CASE ~(p \in LinkLocal /\ b.hops > 1) /\ ~Refuses(p, b.nexthop, bad)
        <4> DEFINE routes == replaced \cup {route}
        <4>1. r = [entry |-> changed, kernel |-> routes]
          BY <3>1, <3>9
        <4>2. RoutesOver(routes, running)
          BY <1>0, <3>2, <3>4, <3>9 DEF RoutesOver, Refuses, replaced
        <4>3. NearOnly(p, changed) /\ Follows(changed)
          BY <2>5, <3>3, <3>6, <3>9 DEF NearOnly, Follows
        <4>4. replaced = {} => Agrees(p, changed, routes)
          BY <3>3, <3>6 DEF Agrees, route
        <4>5. Agrees(p, e0, k) => replaced = {} \/ (DeleteFirst /\ Failed(p, changed, bad))
          BY <1>5, <3>2, <3>5 DEF replaced
        <4> HIDE DEF routes
        <4> QED BY Zenon, <1>1, <1>7, <2>1, <3>3, <3>5, <3>6, <4>1, <4>2, <4>3, <4>4, <4>5
                DEF Updated, K
      <3> QED BY <3>7, <3>8, <3>9
    <2> QED BY <2>7, <2>8
  <1> QED BY <1>6, <1>7
----------------------------------------------------------------------------
(***************************************************************************)
(* The inductive invariant.  BestInstalled and CleanShutdown need the paths *)
(* to be those of the current version, over interfaces in use, and the      *)
(* routes of the kernel to be over devices that are up.                     *)
(***************************************************************************)
RibTypes ==
  /\ setup \in DOMAIN Setups
  /\ prefix_tree \subseteq olsr_cnf.announced
  /\ rt \in [Prefixes -> RtEntries \cup {NULL}]
  /\ routingtree_version \in Versions
  /\ current_inetgw \in Originators \cup {NULL}
  /\ kernel \in [Prefixes -> SUBSET KernelRoutes]
  /\ up \subseteq Ifaces /\ running \subseteq Ifaces

RoutesSound ==
  \A p \in Prefixes : RoutesOver(kernel[p], running) /\ (rt[p] # NULL => NearOnly(p, rt[p]))

PathsCurrent ==
  \A p \in Prefixes : rt[p] # NULL => \A o \in DOMAIN rt[p].paths :
    /\ <<o, p>> \in prefix_tree
    /\ rt[p].paths[o].version = routingtree_version
    /\ rt[p].paths[o].nexthop.iif_index \in up

BestKept == \A p \in Prefixes \ (refused \cup LinkLocal) : Elected(rt[p]) => Follows(rt[p])

RibInv == RibTypes /\ RoutesSound /\ PathsCurrent /\ BestKept /\ CleanShutdown

\* The entry an update starts from remembers what the RIB had.
Remembers(p, e) ==
  e # NULL => IF rt[p] = NULL THEN e.nexthop = NULL /\ e.hops = 0
              ELSE e.nexthop = rt[p].nexthop /\ e.hops = rt[p].hops

\* The entries an update to version v starts from, and what it comes to.
AllUpdatable(old, v) ==
  \A p \in Prefixes : /\ old[p] # NULL => Updatable(p, old[p], v, kernel[p])
                      /\ Remembers(p, old[p])

AllUpdated(old, v, bad) ==
  /\ rt' \in [Prefixes -> RtEntries \cup {NULL}] /\ kernel' \in [Prefixes -> SUBSET KernelRoutes]
  /\ refused' = {p \in Prefixes : Failed(p, rt'[p], bad)}
  /\ \A p \in Prefixes :
       IF old[p] = NULL THEN rt'[p] = NULL /\ kernel'[p] = kernel[p]
       ELSE Updated(p, old[p], v, kernel[p], bad, rt'[p], kernel'[p])
  /\ current_inetgw' = IF rt'[DefaultRoute] # NULL /\ DOMAIN rt'[DefaultRoute].paths # {}
                       THEN rt'[DefaultRoute].best ELSE current_inetgw

LEMMA RoutesUpdated ==
  ASSUME RibTypes, NEW old, NEW v, AllUpdatable(old, v), UpdateRoutes(old, v)
  PROVE  \E bad \in Failures : AllUpdated(old, v, bad)
  <1> DEFINE result(bad) ==
        [p \in Prefixes |-> IF old[p] = NULL THEN [entry |-> NULL, kernel |-> kernel[p]]
                            ELSE UpdateEntry(p, old[p], v, kernel[p], bad)]
  <1>1. PICK bad \in Failures :
          /\ rt' = [p \in Prefixes |-> result(bad)[p].entry]
          /\ kernel' = [p \in Prefixes |-> result(bad)[p].kernel]
          /\ refused' = {p \in Prefixes : Failed(p, rt'[p], bad)}
          /\ current_inetgw' = IF rt'[DefaultRoute] # NULL /\ DOMAIN rt'[DefaultRoute].paths # {}
                               THEN rt'[DefaultRoute].best ELSE current_inetgw
    BY Zenon DEF UpdateRoutes
  <1>2. ASSUME NEW p \in Prefixes
        PROVE  /\ IF old[p] = NULL THEN rt'[p] = NULL /\ kernel'[p] = kernel[p]
                  ELSE Updated(p, old[p], v, kernel[p], bad, rt'[p], kernel'[p])
               /\ rt'[p] \in RtEntries \cup {NULL} /\ kernel'[p] \in SUBSET KernelRoutes
    <2>1. CASE old[p] = NULL
      <3>1. rt'[p] = NULL /\ kernel'[p] = kernel[p]
        BY Zenon, <1>1, <2>1
      <3> QED BY <2>1, <3>1 DEF RibTypes
    <2>2. CASE old[p] # NULL
      <3>1. Updatable(p, old[p], v, kernel[p]) /\ setup \in DOMAIN Setups
        BY <2>2 DEF AllUpdatable, RibTypes
      <3>2. /\ rt'[p] = UpdateEntry(p, old[p], v, kernel[p], bad).entry
            /\ kernel'[p] = UpdateEntry(p, old[p], v, kernel[p], bad).kernel
        BY <1>1, <2>2
      <3>3. Updated(p, old[p], v, kernel[p], bad, rt'[p], kernel'[p])
        BY Zenon, <3>1, <3>2, EntryUpdated
      <3> QED BY Zenon, <2>2, <3>3 DEF Updated, RoutesOver
    <2> QED BY Zenon, <2>1, <2>2
  <1>3. rt' \in [Prefixes -> RtEntries \cup {NULL}] /\ kernel' \in [Prefixes -> SUBSET KernelRoutes]
    BY Zenon, <1>1, <1>2
  <1> QED BY Zenon, <1>1, <1>2, <1>3 DEF AllUpdated

\* The paths that an update keeps are announced, and lead over the interfaces U.
PathsOver(old, v, U) ==
  \A p \in Prefixes : old[p] # NULL => \A o \in Kept(old[p], v) :
    <<o, p>> \in prefix_tree /\ old[p].paths[o].nexthop.iif_index \in U

\* An update keeps what the invariant says of entries.
LEMMA UpdateKeeps ==
  ASSUME RibTypes, RoutesSound, setup' = setup, prefix_tree' = prefix_tree, running' = running,
         up' \subseteq Ifaces,
         NEW old, NEW v \in Versions, NEW bad, AllUpdated(old, v, bad), routingtree_version' = v,
         PathsOver(old, v, up')
  PROVE  RibTypes' /\ RoutesSound' /\ PathsCurrent' /\ BestKept'
  <1> USE DEF AllUpdated
  <1>0. olsr_cnf' = olsr_cnf
    BY DEF olsr_cnf
  <1>1. current_inetgw' \in Originators \cup {NULL}
    BY RibAssumption DEF RibTypes, RtEntries
  <1>2. RibTypes'
    BY Zenon, <1>0, <1>1 DEF RibTypes
  <1>3. RoutesSound'
    <2> SUFFICES ASSUME NEW p \in Prefixes
                 PROVE  (RoutesOver(kernel[p], running) /\ (rt[p] # NULL => NearOnly(p, rt[p])))'
      BY Zenon DEF RoutesSound
    <2>1. RoutesOver(kernel'[p], running) /\ (rt'[p] # NULL => NearOnly(p, rt'[p]))
      BY Zenon DEF Updated, RoutesSound
    <2> QED BY Zenon, <1>0, <2>1 DEF RoutesOver, NearOnly
  <1>4. PathsCurrent'
    <2>1. ASSUME NEW p \in Prefixes, rt'[p] # NULL, NEW o \in DOMAIN rt'[p].paths
          PROVE  /\ <<o, p>> \in prefix_tree
                 /\ rt'[p].paths[o].version = v
                 /\ rt'[p].paths[o].nexthop.iif_index \in up'
      <3>1. old[p] # NULL /\ o \in Kept(old[p], v) /\ rt'[p].paths[o] = old[p].paths[o]
        BY Zenon, <2>1 DEF Updated
      <3> QED BY Zenon, <3>1 DEF Kept, PathsOver
    <2> QED BY Zenon, <2>1 DEF PathsCurrent
  <1>5. BestKept'
    <2>1. ASSUME NEW p \in Prefixes \ (refused' \cup LinkLocal), Elected(rt'[p])
          PROVE  Follows(rt'[p])
      <3>1. ~Failed(p, rt'[p], bad) /\ rt'[p] # NULL
        BY <2>1 DEF Elected
      <3> QED BY Zenon, <2>1, <3>1 DEF Updated
    <2> QED BY Zenon, <1>0, <2>1 DEF BestKept, Elected, Follows
  <1> QED BY <1>2, <1>3, <1>4, <1>5
----------------------------------------------------------------------------
(***************************************************************************)
(* The step of KernelFollowsRib, for one prefix.                            *)
(***************************************************************************)
FollowStep(p) ==
  rt'[p] # rt[p] \/ kernel'[p] # kernel[p] =>
    /\ Agreed(p) => Agreed(p)' \/ LostWithDevice(p) \/ HalfChanged(p) \/ FlushedTooEarly(p)
    /\ ~DeleteFirst /\ rt'[p] # NULL /\ rt'[p].nexthop # NULL =>
         (rt[p] # NULL /\ rt'[p].nexthop = rt[p].nexthop) \/ Agreed(p)'

LEMMA AgreedAfter ==
  ASSUME setup' = setup, NEW p
  PROVE  Agreed(p)' <=> Agrees(p, rt'[p], kernel'[p])
  <1>1. olsr_cnf' = olsr_cnf
    BY DEF olsr_cnf
  <1> QED BY Zenon, <1>1 DEF Agreed, Agrees, Route, Metric

\* Where an entry takes part in an update, the kernel follows it.
LEMMA UpdateFollows ==
  ASSUME RibTypes, setup' = setup, NEW p \in Prefixes, NEW e, e # NULL, NEW v, NEW bad,
         Remembers(p, e), Updated(p, e, v, kernel[p], bad, rt'[p], kernel'[p]),
         refused' = {q \in Prefixes : Failed(q, rt'[q], bad)}
  PROVE  FollowStep(p)
  <1>1. Agreed(p) => Agrees(p, e, kernel[p])
    <2>1. CASE rt[p] = NULL
      BY <2>1 DEF Agreed, Agrees, Remembers
    <2>2. CASE rt[p] # NULL
      BY <2>2 DEF Agreed, Agrees, Remembers
    <2> QED BY <2>1, <2>2
  <1>2. Agreed(p) => Agreed(p)' \/ HalfChanged(p)
    BY Zenon, <1>1, AgreedAfter DEF Updated, HalfChanged
  <1>3. ~DeleteFirst /\ rt'[p] # NULL /\ rt'[p].nexthop # NULL =>
          (rt[p] # NULL /\ rt'[p].nexthop = rt[p].nexthop) \/ Agreed(p)'
    BY Zenon, AgreedAfter DEF Updated, Remembers
  <1> QED BY <1>2, <1>3 DEF FollowStep

\* A step that touches neither the next hops nor the kernel leaves them together.
LEMMA StayFollows ==
  ASSUME setup' = setup, NEW p \in Prefixes, kernel'[p] = kernel[p], Remembers(p, rt'[p]),
         rt[p] # NULL => rt'[p] # NULL
  PROVE  FollowStep(p)
  <1>1. Agreed(p) => Agrees(p, rt'[p], kernel'[p])
    <2>1. CASE rt[p] = NULL
      BY <2>1 DEF Agreed, Agrees, Remembers
    <2>2. CASE rt[p] # NULL
      BY <2>2 DEF Agreed, Agrees, Remembers
    <2> QED BY <2>1, <2>2
  <1> QED BY Zenon, <1>1, AgreedAfter DEF FollowStep, Remembers
----------------------------------------------------------------------------
LEMMA Types ==
  ASSUME RibTypes
  PROVE  /\ \A p \in Prefixes : rt[p] \in RtEntries \cup {NULL} /\ kernel[p] \in SUBSET KernelRoutes
         /\ \A p \in Prefixes : rt[p] # NULL =>
              /\ rt[p] \in RtEntries
              /\ DOMAIN rt[p].paths \in SUBSET Originators
              /\ rt[p].paths \in [DOMAIN rt[p].paths -> RtPaths]
         /\ NULL \notin RtEntries /\ NULL \notin NextHops
  BY RibAssumption DEF RibTypes, RtEntries

LEMMA VersionChanges ==
  ASSUME routingtree_version \in Versions
  PROVE  NewVersion \in Versions /\ NewVersion # routingtree_version
  <1>1. VersionModulus \in Nat /\ VersionModulus > 1 /\ routingtree_version \in Nat
        /\ routingtree_version < VersionModulus
    BY RibAssumption DEF Versions
  <1>2. CASE routingtree_version + 1 = VersionModulus
    <2>1. NewVersion = 0
      BY <1>1, <1>2 DEF NewVersion
    <2> QED BY <1>1, <1>2, <2>1 DEF Versions
  <1>3. CASE routingtree_version + 1 < VersionModulus
    <2>1. NewVersion = routingtree_version + 1
      BY <1>1, <1>3 DEF NewVersion
    <2> QED BY <1>1, <1>3, <2>1 DEF Versions
  <1> QED BY <1>1, <1>2, <1>3

LEMMA InitRib == Init => RibInv
  <1> SUFFICES ASSUME Init PROVE RibInv
    OBVIOUS
  <1> USE DEF Init
  <1>1. RibTypes
    BY RibAssumption DEF RibTypes, Versions
  <1>2. RoutesSound /\ PathsCurrent
    BY DEF RoutesSound, PathsCurrent, RoutesOver
  <1>3. BestKept /\ CleanShutdown
    BY DEF BestKept, CleanShutdown, Elected
  <1> QED BY <1>1, <1>2, <1>3 DEF RibInv

\* With IPv4 no link-local destination is announced.
LEMMA Announced ==
  ASSUME RibTypes, NEW o \in Originators, NEW p, <<o, p>> \in prefix_tree
  PROVE  olsr_cnf.ip_version # 4 \/ p \notin LinkLocal
  BY SetupFacts DEF RibTypes

\* A step that leaves the entries, the paths and the kernel alone.
LEMMA QuietStep ==
  ASSUME RibInv, UNCHANGED <<setup, rt, routingtree_version, current_inetgw, kernel, refused, stopped>>,
         prefix_tree \subseteq prefix_tree', prefix_tree' \subseteq olsr_cnf.announced,
         up \subseteq up', up' \subseteq Ifaces,
         running \subseteq running', running' \subseteq Ifaces
  PROVE  RibInv' /\ \A p \in Prefixes : FollowStep(p)
  <1> USE DEF RibInv
  <1>0. olsr_cnf' = olsr_cnf
    BY DEF olsr_cnf
  <1>1. RibTypes'
    BY <1>0 DEF RibTypes
  <1>2. RoutesSound'
    BY Zenon, <1>0 DEF RoutesSound, RoutesOver, NearOnly
  <1>3. PathsCurrent'
    BY Zenon DEF PathsCurrent
  <1>4. BestKept' /\ CleanShutdown'
    BY Zenon, <1>0 DEF BestKept, CleanShutdown, Elected, Follows
  <1>5. \A p \in Prefixes : FollowStep(p)
    BY DEF FollowStep
  <1> QED BY <1>1, <1>2, <1>3, <1>4, <1>5

\* The deleted path may have been the best one: then nothing is elected until the next update.
LEMMA DeleteStep ==
  ASSUME RibInv, NEW o \in Originators, NEW p \in Prefixes, olsr_delete_routing_table(o, p)
  PROVE  RibInv' /\ \A q \in Prefixes : FollowStep(q)
  <1> USE DEF olsr_delete_routing_table, RibInv
  <1>0. olsr_cnf' = olsr_cnf
    BY DEF olsr_cnf
  <1>1. ASSUME rt[p] # NULL
        PROVE  /\ rt' \in [Prefixes -> RtEntries \cup {NULL}]
               /\ \A q \in Prefixes \ {p} : rt'[q] = rt[q]
               /\ rt'[p] # NULL /\ rt'[p].best = rt[p].best
               /\ rt'[p].nexthop = rt[p].nexthop /\ rt'[p].hops = rt[p].hops
               /\ DOMAIN rt'[p].paths = DOMAIN rt[p].paths \ {o}
               /\ \A x \in DOMAIN rt[p].paths \ {o} : rt'[p].paths[x] = rt[p].paths[x]
    <2> DEFINE D == DOMAIN rt[p].paths \ {o}
    <2> DEFINE left == Restrict(rt[p].paths, D)
    <2> DEFINE e == [rt[p] EXCEPT !.paths = left]
    <2>1. /\ rt[p] \in RtEntries /\ D \in SUBSET Originators
          /\ rt[p].paths \in [DOMAIN rt[p].paths -> RtPaths] /\ NULL \notin RtEntries
      BY <1>1, Types
    <2>2. left \in [D -> RtPaths] /\ \A x \in D : left[x] = rt[p].paths[x]
      BY <2>1 DEF Restrict
    <2>3. rt' = [rt EXCEPT ![p] = e]
      BY <1>1
    <2> HIDE DEF D, left
    <2>4. /\ e \in RtEntries /\ e.best = rt[p].best /\ e.paths = left
          /\ e.nexthop = rt[p].nexthop /\ e.hops = rt[p].hops
      BY <2>1, <2>2 DEF RtEntries
    <2> HIDE DEF e
    <2>5. rt'[p] = e /\ rt' \in [Prefixes -> RtEntries \cup {NULL}]
          /\ \A q \in Prefixes \ {p} : rt'[q] = rt[q]
      BY Zenon, <2>3, <2>4 DEF RibTypes
    <2> QED BY Zenon, <2>1, <2>2, <2>4, <2>5 DEF D
  <1>2. rt[p] = NULL => rt' = rt
    OBVIOUS
  <1> HIDE DEF olsr_delete_routing_table
  <1>3. /\ setup' = setup /\ prefix_tree' = prefix_tree \ {<<o, p>>}
        /\ UNCHANGED <<routingtree_version, kernel, up, running, refused, stopped>>
        /\ ~stopped /\ current_inetgw' \in {current_inetgw, NULL}
    BY DEF olsr_delete_routing_table
  <1>4. RibTypes'
    BY Zenon, <1>0, <1>1, <1>2, <1>3 DEF RibTypes
  <1>5. ASSUME NEW q \in Prefixes
        PROVE  /\ rt'[q] = NULL <=> rt[q] = NULL
               /\ rt[q] # NULL =>
                    /\ rt'[q].best = rt[q].best
                    /\ rt'[q].nexthop = rt[q].nexthop /\ rt'[q].hops = rt[q].hops
                    /\ DOMAIN rt'[q].paths \subseteq DOMAIN rt[q].paths
                    /\ q = p => o \notin DOMAIN rt'[q].paths
                    /\ \A x \in DOMAIN rt'[q].paths : rt'[q].paths[x] = rt[q].paths[x]
    BY <1>1, <1>2, Types DEF PathsCurrent
  <1>6. RoutesSound'
    BY Zenon, <1>0, <1>3, <1>5 DEF RoutesSound, RoutesOver, NearOnly
  <1>7. PathsCurrent'
    <2> SUFFICES ASSUME NEW q \in Prefixes, rt'[q] # NULL, NEW x \in DOMAIN rt'[q].paths
                 PROVE  /\ <<x, q>> \in prefix_tree'
                        /\ rt'[q].paths[x].version = routingtree_version'
                        /\ rt'[q].paths[x].nexthop.iif_index \in up'
      BY DEF PathsCurrent
    <2>1. <<x, q>> \in prefix_tree /\ rt[q].paths[x].version = routingtree_version
          /\ rt[q].paths[x].nexthop.iif_index \in up
      BY <1>5 DEF PathsCurrent
    <2>2. <<x, q>> # <<o, p>>
      BY <1>5
    <2> QED BY <1>3, <1>5, <2>1, <2>2
  <1>8. BestKept'
    <2> SUFFICES ASSUME NEW q \in Prefixes \ (refused' \cup LinkLocal), Elected(rt'[q])
                 PROVE  Follows(rt'[q])
      BY Zenon, <1>0 DEF BestKept, Elected, Follows
    <2>1. Elected(rt[q]) /\ rt'[q].paths[rt'[q].best] = rt[q].paths[rt[q].best]
      BY <1>5 DEF Elected
    <2>2. Follows(rt[q]) /\ rt[q] # NULL
      BY Zenon, <1>3, <2>1 DEF BestKept, Elected
    <2>3. rt'[q].nexthop = rt[q].nexthop /\ rt'[q].hops = rt[q].hops
      BY Zenon, <1>5, <2>2
    <2> QED BY Zenon, <2>1, <2>2, <2>3 DEF Follows
  <1>9. CleanShutdown'
    BY <1>3 DEF CleanShutdown
  <1>10. ASSUME NEW q \in Prefixes PROVE FollowStep(q)
    <2>1. Remembers(q, rt'[q]) /\ (rt[q] # NULL => rt'[q] # NULL) /\ kernel'[q] = kernel[q]
      BY Zenon, <1>3, <1>5 DEF Remembers
    <2> QED BY Zenon, <1>3, <2>1, StayFollows
  <1> QED BY <1>4, <1>6, <1>7, <1>8, <1>9, <1>10

\* What the SPF run makes of an entry before the update.
LEMMA Refresh ==
  ASSUME RibInv, NEW p \in Prefixes,
         NEW reach \in [Originators -> {NULL} \cup {r \in olsr_cnf.paths : r.nexthop.iif_index \in up}]
  PROVE  LET old == Refreshed(p, reach, NewVersion)
         IN /\ old # NULL => Updatable(p, old, NewVersion, kernel[p])
            /\ Remembers(p, old)
            /\ rt[p] # NULL => old # NULL
            /\ old # NULL => \A o \in Kept(old, NewVersion) :
                 <<o, p>> \in prefix_tree /\ old.paths[o].nexthop.iif_index \in up
  <1> USE DEF RibInv
  <1> DEFINE reached == {o \in Originators : reach[o] # NULL /\ <<o, p>> \in prefix_tree}
  <1> DEFINE e == IF rt[p] = NULL
                  THEN [best |-> NULL, nexthop |-> NULL, hops |-> 0, paths |-> << >>]
                  ELSE rt[p]
  <1> DEFINE path(o) == IF o \in reached
                        THEN [version |-> NewVersion, nexthop |-> reach[o].nexthop,
                              cost |-> reach[o].cost, hops |-> reach[o].hops]
                        ELSE e.paths[o]
  <1> DEFINE D == DOMAIN e.paths \cup reached
  <1> DEFINE new == [e EXCEPT !.paths = [o \in D |-> path(o)]]
  <1>1. Refreshed(p, reach, NewVersion) = IF rt[p] = NULL /\ reached = {} THEN NULL ELSE new
    BY DEF Refreshed
  <1>2. /\ NewVersion \in Versions /\ NewVersion # routingtree_version
        /\ olsr_cnf.paths \subseteq Paths
    BY VersionChanges, SetupFacts DEF RibTypes, Setup
  <1>3. \A o \in reached : /\ path(o) \in RtPaths /\ path(o).version = NewVersion
                           /\ path(o).nexthop.iif_index \in up
                           /\ <<o, p>> \in prefix_tree
    BY <1>2 DEF RtPaths, Paths, Versions
  <1>4. DOMAIN << >> = {}
    OBVIOUS
  <1>5. \A o \in DOMAIN e.paths : /\ o \in Originators /\ e.paths[o] \in RtPaths
                                  /\ e.paths[o].version # NewVersion
    BY Zenon, <1>2, <1>4, Types DEF PathsCurrent
  <1>6. /\ e.best \in Originators \cup {NULL} /\ e.nexthop \in NextHops \cup {NULL}
        /\ e.hops \in Hops \cup {0}
        /\ e = [best |-> e.best, nexthop |-> e.nexthop, hops |-> e.hops, paths |-> e.paths]
    BY Types DEF RtEntries
  <1>8. [o \in D |-> path(o)] \in [D -> RtPaths] /\ D \in SUBSET Originators
    <2> SUFFICES ASSUME NEW o \in D PROVE path(o) \in RtPaths /\ o \in Originators
      BY Zenon
    <2>1. CASE o \in reached
      BY Zenon, <1>3, <2>1
    <2>2. CASE o \notin reached
      BY Zenon, <1>5, <2>2
    <2> QED BY Zenon, <2>1, <2>2
  <1>9. /\ new = [best |-> e.best, nexthop |-> e.nexthop, hops |-> e.hops,
                  paths |-> [o \in D |-> path(o)]]
        /\ DOMAIN new.paths = D /\ \A o \in D : new.paths[o] = path(o)
    <2> HIDE DEF e, path, D
    <2> QED BY <1>6
  <1>10. /\ new \in RtEntries /\ new # NULL
         /\ new.nexthop = e.nexthop /\ new.hops = e.hops
    <2> HIDE DEF e, path, D, new
    <2> QED BY <1>6, <1>8, <1>9, Types DEF RtEntries
  <1>11. Remembers(p, new) /\ NearOnly(p, new)
    <2>1. CASE rt[p] = NULL
      <3>1. e.nexthop = NULL /\ e.hops = 0
        BY <2>1
      <3> HIDE DEF e, new
      <3> QED BY <1>10, <2>1, <3>1 DEF Remembers, NearOnly
    <2>2. CASE rt[p] # NULL
      <3>1. new.nexthop = rt[p].nexthop /\ new.hops = rt[p].hops /\ NearOnly(p, rt[p])
        BY <1>10, <2>2 DEF RoutesSound
      <3> HIDE DEF e, new
      <3> QED BY <2>2, <3>1 DEF Remembers, NearOnly
    <2> QED BY <2>1, <2>2
  <1>12. \A o \in Kept(new, NewVersion) :
           /\ o \in reached /\ new.paths[o] = path(o)
    <2> HIDE DEF reached, e
    <2> HIDE DEF new
    <2> SUFFICES ASSUME NEW o \in Kept(new, NewVersion)
                 PROVE  o \in reached /\ new.paths[o] = path(o)
      BY Zenon
    <2>1. o \in D /\ new.paths[o] = path(o) /\ path(o).version = NewVersion
      BY Zenon, <1>9 DEF Kept
    <2> QED BY <1>5, <2>1
  <1>13. \A o \in Kept(new, NewVersion) :
           <<o, p>> \in prefix_tree /\ new.paths[o].nexthop.iif_index \in up
    <2> HIDE DEF reached, e, new, path
    <2> QED BY <1>3, <1>12
  <1>14. CASE rt[p] = NULL /\ reached = {}
    BY <1>1, <1>14 DEF Remembers
  <1>15. CASE ~(rt[p] = NULL /\ reached = {})
    <2>1. Refreshed(p, reach, NewVersion) = new
      BY <1>1, <1>15
    <2>2. Updatable(p, new, NewVersion, kernel[p])
      <3> HIDE DEF new, reached
      <3>1. Kept(new, NewVersion) # {} => olsr_cnf.ip_version # 4 \/ p \notin LinkLocal
        BY <1>12, <1>13, Announced DEF reached
      <3> QED BY Zenon, <1>10, <1>11, <3>1 DEF Updatable, RoutesSound
    <2> HIDE DEF new
    <2> QED BY <1>10, <1>11, <1>13, <2>1, <2>2
  <1> QED BY Zenon, <1>14, <1>15

\* The SPF run is an update.
LEMMA CalculateUpdate ==
  ASSUME RibInv, olsr_calculate_routing_table
  PROVE  \E old, bad :
           /\ AllUpdatable(old, NewVersion) /\ AllUpdated(old, NewVersion, bad)
           /\ \A p \in Prefixes : rt[p] # NULL => old[p] # NULL
           /\ PathsOver(old, NewVersion, up)
  <1>1. PICK reach \in [Originators -> {NULL} \cup {r \in olsr_cnf.paths : r.nexthop.iif_index \in up}] :
          UpdateRoutes([p \in Prefixes |-> Refreshed(p, reach, NewVersion)], NewVersion)
    BY Zenon DEF olsr_calculate_routing_table
  <1> DEFINE old == [p \in Prefixes |-> Refreshed(p, reach, NewVersion)]
  <1>2. /\ AllUpdatable(old, NewVersion)
        /\ \A p \in Prefixes : rt[p] # NULL => old[p] # NULL
        /\ PathsOver(old, NewVersion, up)
    BY Zenon, Refresh DEF AllUpdatable, PathsOver
  <1>3. PICK bad \in Failures : AllUpdated(old, NewVersion, bad)
    BY Zenon, <1>1, <1>2, RoutesUpdated DEF RibInv
  <1> HIDE DEF old
  <1> QED BY <1>2, <1>3

LEMMA CalculateStep ==
  ASSUME RibInv, olsr_calculate_routing_table
  PROVE  RibInv' /\ \A p \in Prefixes : FollowStep(p)
  <1>0. /\ NewVersion \in Versions /\ RibTypes /\ RoutesSound /\ up' \subseteq Ifaces
        /\ ~stopped /\ routingtree_version' = NewVersion
        /\ UNCHANGED <<setup, prefix_tree, up, running, stopped>>
    BY Zenon, VersionChanges DEF RibInv, RibTypes, olsr_calculate_routing_table
  <1>1. PICK old, bad :
          /\ AllUpdatable(old, NewVersion) /\ AllUpdated(old, NewVersion, bad)
          /\ \A p \in Prefixes : rt[p] # NULL => old[p] # NULL
          /\ PathsOver(old, NewVersion, up)
    BY CalculateUpdate
  <1>2. RibTypes' /\ RoutesSound' /\ PathsCurrent' /\ BestKept'
    BY Zenon, <1>0, <1>1, UpdateKeeps
  <1>3. CleanShutdown'
    BY <1>0 DEF CleanShutdown
  <1>4. ASSUME NEW p \in Prefixes PROVE FollowStep(p)
    <2>1. CASE old[p] = NULL
      BY <1>0, <1>1, <2>1 DEF AllUpdated, FollowStep
    <2>2. CASE old[p] # NULL
      BY Zenon, <1>0, <1>1, <2>2, UpdateFollows DEF AllUpdated, AllUpdatable
    <2> QED BY <2>1, <2>2
  <1> QED BY <1>2, <1>3, <1>4 DEF RibInv

LEMMA ShutdownUpdate ==
  ASSUME RibInv, olsr_delete_all_kernel_routes
  PROVE  /\ \A p \in Prefixes : rt[p] # NULL => Kept(rt[p], NewVersion) = {}
         /\ AllUpdatable(rt, NewVersion)
         /\ \E bad \in Failures : AllUpdated(rt, NewVersion, bad)
  <1>0. NewVersion # routingtree_version /\ RibTypes /\ RoutesSound
    BY VersionChanges DEF RibInv, RibTypes
  <1>1. \A p \in Prefixes : rt[p] # NULL => Kept(rt[p], NewVersion) = {}
    BY Zenon, <1>0 DEF Kept, RibInv, PathsCurrent
  <1>2. AllUpdatable(rt, NewVersion)
    BY Zenon, <1>0, <1>1, Types DEF AllUpdatable, Updatable, RoutesSound, Remembers
  <1>3. UpdateRoutes(rt, NewVersion)
    BY DEF olsr_delete_all_kernel_routes
  <1> QED BY Zenon, <1>0, <1>1, <1>2, <1>3, RoutesUpdated

LEMMA ShutdownStep ==
  ASSUME RibInv, olsr_delete_all_kernel_routes
  PROVE  RibInv' /\ \A p \in Prefixes : FollowStep(p)
  <1>0. /\ NewVersion \in Versions /\ RibTypes /\ RoutesSound /\ up' \subseteq Ifaces
        /\ routingtree_version' = NewVersion
        /\ UNCHANGED <<setup, prefix_tree, up, running>>
    BY Zenon, VersionChanges DEF RibInv, RibTypes, olsr_delete_all_kernel_routes
  <1>1. /\ \A p \in Prefixes : rt[p] # NULL => Kept(rt[p], NewVersion) = {}
        /\ AllUpdatable(rt, NewVersion)
    BY ShutdownUpdate
  <1>2. PICK bad \in Failures : AllUpdated(rt, NewVersion, bad)
    BY ShutdownUpdate
  <1>3. PathsOver(rt, NewVersion, up')
    BY Zenon, <1>1 DEF PathsOver
  <1>4. RibTypes' /\ RoutesSound' /\ PathsCurrent' /\ BestKept'
    BY Zenon, <1>0, <1>2, <1>3, UpdateKeeps
  <1>5. CleanShutdown'
    BY Zenon, <1>1, <1>2 DEF CleanShutdown, AllUpdated, Updated
  <1>6. ASSUME NEW p \in Prefixes PROVE FollowStep(p)
    <2>1. CASE rt[p] = NULL
      BY <1>2, <2>1 DEF AllUpdated, FollowStep
    <2>2. CASE rt[p] # NULL
      BY Zenon, <1>0, <1>1, <1>2, <2>2, UpdateFollows DEF AllUpdated, AllUpdatable
    <2> QED BY <2>1, <2>2
  <1> QED BY <1>4, <1>5, <1>6 DEF RibInv

----------------------------------------------------------------------------
(***************************************************************************)
(* Devices and interfaces.                                                  *)
(***************************************************************************)
LEMMA DeviceDownStep ==
  ASSUME RibInv, NEW i \in Ifaces, DeviceDown(i)
  PROVE  RibInv' /\ \A p \in Prefixes : FollowStep(p)
  <1> USE DEF RibInv
  <1>1. /\ i \in running /\ running' = running \ {i}
        /\ kernel' = [p \in Prefixes |-> {r \in kernel[p] : r.nexthop.iif_index # i}]
        /\ UNCHANGED <<setup, prefix_tree, rt, routingtree_version, current_inetgw, up, refused, stopped>>
    BY DEF DeviceDown
  <1>2. olsr_cnf' = olsr_cnf
    BY <1>1 DEF olsr_cnf
  <1>3. ASSUME NEW p \in Prefixes
        PROVE  /\ kernel'[p] = {r \in kernel[p] : r.nexthop.iif_index # i}
               /\ kernel'[p] \in SUBSET KernelRoutes /\ RoutesOver(kernel'[p], running')
    <2>1. RoutesOver(kernel[p], running) /\ kernel'[p] = {r \in kernel[p] : r.nexthop.iif_index # i}
      BY <1>1 DEF RoutesSound
    <2> QED BY <1>1, <2>1 DEF RoutesOver
  <1>4. kernel' \in [Prefixes -> SUBSET KernelRoutes]
    BY Zenon, <1>1, <1>3
  <1>5. RibTypes'
    BY <1>1, <1>2, <1>4 DEF RibTypes
  <1>6. RoutesSound'
    BY Zenon, <1>1, <1>2, <1>3 DEF RoutesSound, RoutesOver, NearOnly
  <1>7. PathsCurrent' /\ BestKept' /\ CleanShutdown'
    BY Zenon, <1>1, <1>2 DEF PathsCurrent, BestKept, CleanShutdown, Elected, Follows
  <1>8. ASSUME NEW p \in Prefixes PROVE FollowStep(p)
    <2> SUFFICES ASSUME Agreed(p), ~LostWithDevice(p) PROVE kernel'[p] = kernel[p]
      BY <1>1 DEF FollowStep, LostWithDevice, HalfChanged, FlushedTooEarly, Agreed, Agrees
    <2>1. ASSUME NEW r \in kernel[p] PROVE r.nexthop.iif_index # i
      <3>1. rt[p] # NULL /\ r = Route(rt[p].nexthop, rt[p].hops)
        BY Zenon DEF Agreed, Agrees
      <3>2. r.nexthop = rt[p].nexthop /\ r.nexthop \in NextHops /\ NULL \notin NextHops
        BY <3>1, Types DEF Route, KernelRoutes
      <3> QED BY <1>1, <3>1, <3>2 DEF LostWithDevice
    <2> QED BY <1>3, <2>1
  <1> QED BY <1>5, <1>6, <1>7, <1>8

\* What the loss of an interface leaves of an entry.
LEMMA LeftEntry ==
  ASSUME RibInv, NEW p \in Prefixes, NEW i, rt[p] # NULL, ~Flushed(rt[p], i)
  PROVE  LET e == Left(rt[p], i)
         IN /\ e \in RtEntries /\ e # NULL
            /\ e.nexthop = rt[p].nexthop /\ e.hops = rt[p].hops
            /\ DOMAIN e.paths = DOMAIN rt[p].paths \ Over(rt[p], i)
            /\ \A o \in DOMAIN e.paths : e.paths[o] = rt[p].paths[o]
            /\ e.best = IF Hit(rt[p], i) THEN NULL ELSE rt[p].best
  <1> DEFINE D == DOMAIN rt[p].paths \ Over(rt[p], i)
  <1> DEFINE left == Restrict(rt[p].paths, D)
  <1> DEFINE best == IF Hit(rt[p], i) THEN NULL ELSE rt[p].best
  <1>1. Left(rt[p], i) = [rt[p] EXCEPT !.paths = left, !.best = best]
    BY DEF Left
  <1>2. /\ rt[p] \in RtEntries /\ D \in SUBSET Originators /\ NULL \notin RtEntries
        /\ rt[p].paths \in [DOMAIN rt[p].paths -> RtPaths]
    BY Types DEF RibInv
  <1>3. left \in [D -> RtPaths] /\ \A o \in D : left[o] = rt[p].paths[o]
    BY <1>2 DEF Restrict
  <1>4. best \in Originators \cup {NULL}
    BY Zenon, <1>2 DEF RtEntries
  <1> DEFINE e == Left(rt[p], i)
  <1> HIDE DEF D, left, best
  <1>5. /\ e \in RtEntries /\ e.paths = left /\ e.best = best
        /\ e.nexthop = rt[p].nexthop /\ e.hops = rt[p].hops
    <2>1. left \in UNION {[E -> RtPaths] : E \in SUBSET Originators}
      BY <1>2, <1>3
    <2> QED BY Zenon, <1>1, <1>2, <1>4, <2>1 DEF RtEntries
  <1> HIDE DEF e
  <1>6. DOMAIN e.paths = D /\ \A o \in D : e.paths[o] = rt[p].paths[o]
    BY <1>3, <1>5
  <1> QED BY <1>2, <1>5, <1>6 DEF D, best, e

\* The entries that are left can be updated, and their paths lead over the other interfaces.
LEMMA LeftSound ==
  ASSUME RibInv, NEW i
  PROVE  LET left == [p \in Prefixes |-> Left(rt[p], i)]
         IN /\ AllUpdatable(left, routingtree_version)
            /\ PathsOver(left, routingtree_version, up \ {i})
  <1> DEFINE left == [p \in Prefixes |-> Left(rt[p], i)]
  <1> SUFFICES ASSUME NEW p \in Prefixes
               PROVE  /\ left[p] # NULL => Updatable(p, left[p], routingtree_version, kernel[p])
                      /\ Remembers(p, left[p])
                      /\ left[p] # NULL => \A o \in Kept(left[p], routingtree_version) :
                           /\ <<o, p>> \in prefix_tree
                           /\ left[p].paths[o].nexthop.iif_index \in up \ {i}
    BY Zenon DEF AllUpdatable, PathsOver
  <1>1. CASE rt[p] = NULL \/ Flushed(rt[p], i)
    BY <1>1 DEF Left, Remembers
  <1>2. CASE rt[p] # NULL /\ ~Flushed(rt[p], i)
    <2> DEFINE e == Left(rt[p], i)
    <2>1. /\ e \in RtEntries /\ e # NULL /\ left[p] = e
          /\ e.nexthop = rt[p].nexthop /\ e.hops = rt[p].hops
          /\ DOMAIN e.paths = DOMAIN rt[p].paths \ Over(rt[p], i)
          /\ \A o \in DOMAIN e.paths : e.paths[o] = rt[p].paths[o]
      BY <1>2, LeftEntry
    <2> HIDE DEF e, left
    <2>2. ASSUME NEW o \in Kept(e, routingtree_version)
          PROVE  /\ <<o, p>> \in prefix_tree /\ e.paths[o].nexthop.iif_index \in up \ {i}
                 /\ o \in Originators
      <3>1. /\ o \in DOMAIN rt[p].paths /\ e.paths[o] = rt[p].paths[o]
            /\ rt[p].paths[o].nexthop.iif_index # i
        BY Zenon, <2>1 DEF Over, Kept
      <3>2. /\ <<o, p>> \in prefix_tree /\ rt[p].paths[o].nexthop.iif_index \in up
            /\ o \in Originators
        BY Zenon, <1>2, <3>1, Types DEF RibInv, PathsCurrent
      <3> QED BY Zenon, <3>1, <3>2
    <2>3. Remembers(p, e) /\ NearOnly(p, e)
      BY Zenon, <1>2, <2>1 DEF Remembers, NearOnly, RibInv, RoutesSound
    <2>4. Kept(e, routingtree_version) # {} => olsr_cnf.ip_version # 4 \/ p \notin LinkLocal
      BY <2>2, Announced DEF RibInv
    <2>5. Updatable(p, e, routingtree_version, kernel[p])
      BY Zenon, <2>1, <2>3, <2>4 DEF Updatable, RibInv, RoutesSound
    <2> QED BY Zenon, <2>1, <2>2, <2>3, <2>5
  <1> QED BY Zenon, <1>1, <1>2

LEMMA RemoveUpdate ==
  ASSUME RibInv, NEW i \in Ifaces, olsr_remove_interface(i)
  PROVE  /\ ~stopped /\ i \in up /\ up' \in {up, up \ {i}} /\ up' \subseteq Ifaces
         /\ UNCHANGED <<setup, prefix_tree, routingtree_version, running, stopped>>
         /\ \/ /\ rt' = [p \in Prefixes |-> Left(rt[p], i)]
               /\ \A p \in Prefixes : ~Hit(rt[p], i)
               /\ UNCHANGED <<kernel, current_inetgw, refused>>
            \/ \E bad \in Failures :
                 AllUpdated([p \in Prefixes |-> Left(rt[p], i)], routingtree_version, bad)
  <1>1. /\ ~stopped /\ i \in up /\ up' \in {up, up \ {i}}
        /\ UNCHANGED <<setup, prefix_tree, routingtree_version, running, stopped>>
        /\ olsr_delete_interface_routes(i)
    BY DEF olsr_remove_interface
  <1>2. up' \subseteq Ifaces /\ RibTypes
    BY <1>1 DEF RibInv, RibTypes
  <1> DEFINE left == [p \in Prefixes |-> Left(rt[p], i)]
  <1>3. \/ /\ rt' = left /\ \A p \in Prefixes : ~Hit(rt[p], i)
           /\ UNCHANGED <<kernel, current_inetgw, refused>>
        \/ UpdateRoutes(left, routingtree_version)
    BY Zenon, <1>1 DEF olsr_delete_interface_routes
  <1>4. AllUpdatable(left, routingtree_version)
    BY LeftSound
  <1> HIDE DEF left
  <1>5. UpdateRoutes(left, routingtree_version) =>
          \E bad \in Failures : AllUpdated(left, routingtree_version, bad)
    BY Zenon, <1>2, <1>4, RoutesUpdated
  <1> QED BY Zenon, <1>1, <1>2, <1>3, <1>5 DEF left

\* An entry that goes with its interface has taken no route of the kernel with it.
LEMMA FlushFollows ==
  ASSUME RibInv, NEW p \in Prefixes, NEW i \in up, Flushed(rt[p], i), setup' = setup,
         rt'[p] = NULL, kernel'[p] = kernel[p], routingtree_version' = routingtree_version
  PROVE  FollowStep(p)
  <1> SUFFICES ASSUME Agreed(p), ~FlushedTooEarly(p) PROVE Agreed(p)'
    BY DEF FollowStep
  <1>1. kernel[p] = {}
    <2> SUFFICES ASSUME NEW r \in kernel[p] PROVE FALSE
      OBVIOUS
    <2>1. rt[p] # NULL /\ r = Route(rt[p].nexthop, rt[p].hops) /\ r.nexthop.iif_index \in running
      BY Zenon DEF Agreed, Agrees, RibInv, RoutesSound, RoutesOver
    <2>2. r.nexthop = rt[p].nexthop /\ r.nexthop \in NextHops /\ NULL \notin NextHops
      BY <2>1, Types DEF Route, KernelRoutes, RibInv
    <2> QED BY <2>1, <2>2 DEF FlushedTooEarly
  <1>2. Agrees(p, NULL, {})
    BY DEF Agrees
  <1> QED BY Zenon, <1>1, <1>2, AgreedAfter

LEMMA RemoveStep ==
  ASSUME RibInv, NEW i \in Ifaces, olsr_remove_interface(i)
  PROVE  RibInv' /\ \A p \in Prefixes : FollowStep(p)
  <1> DEFINE left == [p \in Prefixes |-> Left(rt[p], i)]
  <1>1. /\ ~stopped /\ i \in up /\ up' \in {up, up \ {i}} /\ up' \subseteq Ifaces
        /\ UNCHANGED <<setup, prefix_tree, routingtree_version, running, stopped>>
    BY Zenon, RemoveUpdate
  <1>2. /\ AllUpdatable(left, routingtree_version)
        /\ PathsOver(left, routingtree_version, up \ {i})
    BY LeftSound
  <1>3. PathsOver(left, routingtree_version, up')
    <2> HIDE DEF left
    <2> QED BY Zenon, <1>1, <1>2 DEF PathsOver
  <1>4. /\ RibTypes /\ RoutesSound /\ routingtree_version \in Versions /\ olsr_cnf' = olsr_cnf
        /\ CleanShutdown' /\ \A p \in Prefixes : left[p] = Left(rt[p], i)
    BY <1>1 DEF RibInv, RibTypes, CleanShutdown, olsr_cnf
  <1>5. ASSUME NEW bad, AllUpdated(left, routingtree_version, bad)
        PROVE  RibInv' /\ \A p \in Prefixes : FollowStep(p)
    <2> HIDE DEF left
    <2>1. RibTypes' /\ RoutesSound' /\ PathsCurrent' /\ BestKept'
      BY Zenon, <1>1, <1>3, <1>4, <1>5, UpdateKeeps
    <2>2. ASSUME NEW p \in Prefixes PROVE FollowStep(p)
      <3>1. CASE left[p] # NULL
        BY Zenon, <1>1, <1>2, <1>4, <1>5, <3>1, UpdateFollows DEF AllUpdated, AllUpdatable
      <3>2. CASE left[p] = NULL
        <4>1. rt'[p] = NULL /\ kernel'[p] = kernel[p]
          BY Zenon, <1>5, <3>2 DEF AllUpdated
        <4>2. CASE rt[p] = NULL
          BY <4>1, <4>2 DEF FollowStep
        <4>3. CASE rt[p] # NULL
          <5>1. Flushed(rt[p], i)
            BY Zenon, <1>4, <3>2, <4>3, LeftEntry
          <5> QED BY Zenon, <1>1, <4>1, <5>1, FlushFollows
        <4> QED BY <4>2, <4>3
      <3> QED BY <3>1, <3>2
    <2> QED BY <1>4, <2>1, <2>2 DEF RibInv
  <1>6. ASSUME rt' = left, \A p \in Prefixes : ~Hit(rt[p], i),
               UNCHANGED <<kernel, current_inetgw, refused>>
        PROVE  RibInv' /\ \A p \in Prefixes : FollowStep(p)
    <2>0. \A p \in Prefixes : rt'[p] = Left(rt[p], i) /\ ~Flushed(rt[p], i)
      BY <1>4, <1>6 DEF Flushed
    <2>1. ASSUME NEW p \in Prefixes, rt[p] # NULL
          PROVE  /\ rt'[p] \in RtEntries /\ rt'[p] # NULL
                 /\ rt'[p].nexthop = rt[p].nexthop /\ rt'[p].hops = rt[p].hops
                 /\ rt'[p].best = rt[p].best
                 /\ DOMAIN rt'[p].paths \subseteq DOMAIN rt[p].paths
                 /\ \A o \in DOMAIN rt'[p].paths : /\ rt'[p].paths[o] = rt[p].paths[o]
                                                    /\ rt[p].paths[o].nexthop.iif_index # i
      <3>1. ~Hit(rt[p], i) /\ ~Flushed(rt[p], i) /\ rt'[p] = Left(rt[p], i)
        BY <1>6, <2>0
      <3> HIDE DEF left
      <3> DEFINE e == Left(rt[p], i)
      <3>2. /\ e \in RtEntries /\ e # NULL
            /\ e.nexthop = rt[p].nexthop /\ e.hops = rt[p].hops
            /\ e.best = IF Hit(rt[p], i) THEN NULL ELSE rt[p].best
            /\ DOMAIN e.paths = DOMAIN rt[p].paths \ Over(rt[p], i)
            /\ \A o \in DOMAIN e.paths : e.paths[o] = rt[p].paths[o]
        BY <2>1, <3>1, LeftEntry
      <3> HIDE DEF e
      <3> QED BY <3>1, <3>2 DEF Over, e
    <2>2. ASSUME NEW p \in Prefixes, rt[p] = NULL PROVE rt'[p] = NULL
      BY <2>0, <2>2 DEF Left
    <2>3. rt' \in [Prefixes -> RtEntries \cup {NULL}]
      BY Zenon, <1>6, <2>1, <2>2
    <2> HIDE DEF left
    <2>4. RibTypes'
      BY Zenon, <1>1, <1>4, <1>6, <2>3 DEF RibTypes
    <2>5. RoutesSound'
      BY Zenon, <1>1, <1>4, <1>6, <2>1, <2>2 DEF RoutesSound, RoutesOver, NearOnly
    <2>6. PathsCurrent'
      <3>1. ASSUME NEW p \in Prefixes, rt'[p] # NULL, NEW o \in DOMAIN rt'[p].paths
            PROVE  /\ <<o, p>> \in prefix_tree
                   /\ rt'[p].paths[o].version = routingtree_version
                   /\ rt'[p].paths[o].nexthop.iif_index \in up'
        <4>1. /\ rt[p] # NULL /\ o \in DOMAIN rt[p].paths /\ rt'[p].paths[o] = rt[p].paths[o]
              /\ rt[p].paths[o].nexthop.iif_index # i
          BY Zenon, <2>1, <2>2, <3>1
        <4> QED BY Zenon, <1>1, <4>1 DEF RibInv, PathsCurrent
      <3> QED BY Zenon, <1>1, <3>1 DEF PathsCurrent
    <2>7. BestKept'
      <3> SUFFICES ASSUME NEW p \in Prefixes \ (refused' \cup LinkLocal), Elected(rt'[p])
                   PROVE  Follows(rt'[p])
        BY Zenon, <1>4 DEF BestKept, Elected, Follows
      <3>1. rt[p] # NULL
        BY <2>2 DEF Elected
      <3>2. Elected(rt[p]) /\ rt'[p].paths[rt'[p].best] = rt[p].paths[rt[p].best]
        BY <2>1, <3>1 DEF Elected
      <3>3. Follows(rt[p])
        BY Zenon, <1>6, <3>2 DEF RibInv, BestKept
      <3> QED BY Zenon, <2>1, <3>1, <3>2, <3>3 DEF Follows
    <2>8. ASSUME NEW p \in Prefixes PROVE FollowStep(p)
      <3>1. Remembers(p, rt'[p]) /\ (rt[p] # NULL => rt'[p] # NULL)
        BY Zenon, <2>1, <2>2 DEF Remembers
      <3> QED BY Zenon, <1>1, <1>6, <3>1, StayFollows
    <2> QED BY <1>4, <2>4, <2>5, <2>6, <2>7, <2>8 DEF RibInv
  <1> QED BY Zenon, <1>5, <1>6, RemoveUpdate
----------------------------------------------------------------------------
\* Every step keeps the invariant and the kernel with the RIB.
LEMMA RibStep ==
  ASSUME RibInv, Next
  PROVE  RibInv' /\ \A p \in Prefixes : FollowStep(p)
  <1> DEFINE Sound == RibInv' /\ \A p \in Prefixes : FollowStep(p)
  <1> SUFFICES Sound
    OBVIOUS
  <1>0. up \subseteq Ifaces /\ running \subseteq Ifaces /\ prefix_tree \subseteq olsr_cnf.announced
    BY DEF RibInv, RibTypes
  <1>1. ASSUME NEW o \in Originators, NEW p \in Prefixes, olsr_insert_routing_table(o, p)
        PROVE  Sound
    BY <1>0, <1>1, QuietStep DEF olsr_insert_routing_table
  <1>2. ASSUME NEW o \in Originators, NEW p \in Prefixes, olsr_delete_routing_table(o, p)
        PROVE  Sound
    BY <1>2, DeleteStep
  <1>3. CASE olsr_calculate_routing_table
    BY <1>3, CalculateStep
  <1>4. CASE olsr_delete_all_kernel_routes
    BY <1>4, ShutdownStep
  <1>5. ASSUME NEW i \in Ifaces, olsr_remove_interface(i)
        PROVE  Sound
    BY <1>5, RemoveStep
  <1>6. ASSUME NEW i \in Ifaces, chk_if_up(i)
        PROVE  Sound
    BY <1>0, <1>6, QuietStep DEF chk_if_up
  <1>7. ASSUME NEW i \in Ifaces, DeviceDown(i)
        PROVE  Sound
    BY <1>7, DeviceDownStep
  <1>8. ASSUME NEW i \in Ifaces, DeviceUp(i)
        PROVE  Sound
    BY <1>0, <1>8, QuietStep DEF DeviceUp
  <1> HIDE DEF Sound
  <1> QED BY <1>1, <1>2, <1>3, <1>4, <1>5, <1>6, <1>7, <1>8 DEF Next

\* RibInv is inductive: the paths carry the version of their tree and lead over interfaces in
\* use, the kernel's routes lead over devices that are up, an entry remembers its best path
\* where no call failed, and nothing is left after a shutdown, in every reachable state.
THEOREM Invariance == Spec => []RibInv
  <1>1. Init => RibInv
    BY InitRib
  <1>2. RibInv /\ [Next]_vars => RibInv'
    <2> SUFFICES ASSUME RibInv, [Next]_vars PROVE RibInv'
      OBVIOUS
    <2>1. CASE Next
      BY <2>1, RibStep
    <2>2. CASE UNCHANGED vars
      BY <2>2, QuietStep DEF vars, RibInv, RibTypes
    <2> QED BY <2>1, <2>2
  <1> QED BY <1>1, <1>2, PTL DEF Spec

\* What takes the kernel and the RIB apart, whatever the order of announcements, SPF runs,
\* lost devices, removed interfaces and failing kernel calls, and that the next change brings
\* them together again where a new route replaces the old (KernelFollowsRib).
THEOREM KernelFollows == Spec => KernelFollowsRib
  <1>1. RibInv /\ [Next]_vars => [\A p \in Prefixes : FollowStep(p)]_vars
    BY RibStep
  <1> QED BY <1>1, Invariance, PTL DEF Spec, KernelFollowsRib, FollowStep

\* After an update in which no call failed for a prefix, its entry has the next hop of the path
\* that olsr_rt_best elected, the kernel as well while it follows the entry, and after the
\* shutdown only entries are left whose deletion failed (BestInstalled).
THEOREM BestPathInstalled == Spec => []BestInstalled
  <1>1. RibInv => BestInstalled
    <2> SUFFICES ASSUME RibInv PROVE BestInstalled
      OBVIOUS
    <2> USE DEF RibInv
    <2>1. ASSUME NEW p \in Prefixes, rt[p] # NULL PROVE EntryOK(p, rt[p])
      <3>1. rt[p] \in RtEntries /\ rt[p].paths \in [DOMAIN rt[p].paths -> RtPaths]
        BY <2>1, Types
      <3>2. \A o \in DOMAIN rt[p].paths :
              /\ <<o, p>> \in prefix_tree /\ rt[p].paths[o].nexthop.iif_index \in up
              /\ rt[p].paths[o] \in RtPaths /\ rt[p].paths[o].version = routingtree_version
        BY <2>1, <3>1 DEF PathsCurrent
      <3>3. \A o \in DOMAIN rt[p].paths :
              rt[p].paths[o] \in [version : {routingtree_version}, nexthop : NextHops,
                                  cost : Costs, hops : Hops]
        BY Zenon, <3>2 DEF RtPaths
      <3> QED BY Zenon, <3>1, <3>2, <3>3 DEF EntryOK, RtEntries
    <2>2. prefix_tree \subseteq Originators \X Prefixes
      BY SetupFacts DEF RibTypes, Setup
    <2>3. TypeOK
      BY <2>1, <2>2 DEF TypeOK, RibTypes, KernelRoutes, RoutesSound, RoutesOver
    <2>4. ASSUME NEW p \in Prefixes \ (refused \cup LinkLocal), Elected(rt[p])
          PROVE  LET b == rt[p].paths[rt[p].best]
                 IN /\ rt[p].nexthop = b.nexthop
                    /\ olsr_cnf.fib_metric = "correct" => rt[p].hops = b.hops
                    /\ Agreed(p) /\ olsr_cnf.fib_metric # "approx" =>
                         kernel[p] = {Route(b.nexthop, b.hops)}
      <3> DEFINE b == rt[p].paths[rt[p].best]
      <3>1. rt[p] # NULL /\ rt[p].best \in DOMAIN rt[p].paths
        BY <2>4 DEF Elected
      <3>2. b \in RtPaths /\ b.nexthop \in NextHops /\ NULL \notin NextHops
        BY <3>1, Types DEF RtPaths
      <3>3. rt[p].nexthop = b.nexthop /\ (olsr_cnf.fib_metric = "correct" => rt[p].hops = b.hops)
        BY Zenon, <2>4 DEF BestKept, Follows
      <3>4. Agreed(p) => kernel[p] = {Route(rt[p].nexthop, rt[p].hops)}
        BY <3>1, <3>2, <3>3 DEF Agreed, Agrees
      <3>5. olsr_cnf.fib_metric # "approx" => Route(rt[p].nexthop, rt[p].hops) = Route(b.nexthop, b.hops)
        BY <3>3, SetupFacts DEF Route, Metric, Setup, RibTypes
      <3> HIDE DEF b
      <3> QED BY <3>3, <3>4, <3>5 DEF b
    <2> QED BY Zenon, <2>3, <2>4 DEF BestInstalled
  <1> QED BY <1>1, Invariance, PTL

\* The step of GatewayHysteresis.
HysteresisStep ==
  LET e == rt'[DefaultRoute]
      c == current_inetgw
  IN (c # current_inetgw' /\ current_inetgw' # NULL /\ e # NULL /\ c \in DOMAIN e.paths)
       => e.paths[current_inetgw'].cost * 100 <= e.paths[c].cost * NatThresh

LEMMA Threshold ==
  ASSUME NEW m \in Nat, NEW n \in Nat, n <= m \div 100
  PROVE  n * 100 <= m
  OBVIOUS

\* The path that beats the current gateway's is no longer than the scaled one.
LEMMA BeatsScaled ==
  ASSUME NEW paths, NEW g, NEW c, g # c, paths[g].cost \in Nat,
         (paths[c].cost * NatThresh) \div 100 \in Nat, olsr_cmp_rtp(paths, g, c, c)
  PROVE  paths[g].cost <= (paths[c].cost * NatThresh) \div 100
  BY DEF olsr_cmp_rtp

LEMMA PathCost ==
  ASSUME NEW e \in RtEntries, NEW o \in DOMAIN e.paths
  PROVE  e.paths[o].cost \in Nat
  BY RibAssumption DEF RtEntries, RtPaths

\* An update leaves the gateway only for one that olsr_cmp_rtp finds better, the cost of the
\* gateway scaled down.
LEMMA UpdateHysteresis ==
  ASSUME NEW old, NEW v, NEW bad, AllUpdated(old, v, bad)
  PROVE  HysteresisStep
  <1> DEFINE e == rt'[DefaultRoute]
  <1> DEFINE c == current_inetgw
  <1> DEFINE g == current_inetgw'
  <1> SUFFICES ASSUME c # g, g # NULL, e # NULL, c \in DOMAIN e.paths
               PROVE  e.paths[g].cost * 100 <= e.paths[c].cost * NatThresh
    BY DEF HysteresisStep
  <1>1. DefaultRoute \in Prefixes /\ NULL \notin RtEntries /\ NatThresh \in Nat
    BY RibAssumption
  <1>2. old[DefaultRoute] # NULL /\ g = e.best
        /\ Updated(DefaultRoute, old[DefaultRoute], v, kernel[DefaultRoute], bad, e,
                   kernel'[DefaultRoute])
    BY Zenon, <1>1 DEF AllUpdated
  <1>3. /\ DOMAIN e.paths = Kept(old[DefaultRoute], v) /\ g \in DOMAIN e.paths
        /\ e \in RtEntries /\ olsr_cmp_rtp(e.paths, g, c, c)
    BY Zenon, <1>2 DEF Updated
  <1>4. /\ e.paths[g].cost \in Nat /\ e.paths[c].cost \in Nat
    BY Zenon, <1>3, PathCost
  <1> HIDE DEF e, c, g
  <1>5. /\ (e.paths[c].cost * NatThresh) \div 100 \in Nat
        /\ e.paths[c].cost * NatThresh \in Nat
    BY <1>1, <1>4, ScaledNat
  <1>6. e.paths[g].cost <= (e.paths[c].cost * NatThresh) \div 100
    BY Zenon, <1>3, <1>4, <1>5, BeatsScaled DEF c, g
  <1> QED BY <1>4, <1>5, <1>6, Threshold

\* The default route leaves a gateway that SPF still reaches only for one that is better by
\* lq_nat_thresh (GatewayHysteresis).
THEOREM HysteresisKept == Spec => GatewayHysteresis
  <1>1. RibInv /\ [Next]_vars => [HysteresisStep]_vars
    <2> SUFFICES ASSUME RibInv, Next PROVE HysteresisStep
      OBVIOUS
    <2>1. ASSUME current_inetgw' \in {current_inetgw, NULL}
          PROVE  HysteresisStep
      BY <2>1 DEF HysteresisStep
    <2>2. ASSUME NEW o \in Originators, NEW p \in Prefixes,
                 olsr_insert_routing_table(o, p) \/ olsr_delete_routing_table(o, p)
          PROVE  HysteresisStep
      BY <2>1, <2>2 DEF olsr_insert_routing_table, olsr_delete_routing_table
    <2>3. CASE olsr_calculate_routing_table
      BY <2>3, CalculateUpdate, UpdateHysteresis
    <2>4. CASE olsr_delete_all_kernel_routes
      BY <2>4, ShutdownUpdate, UpdateHysteresis
    <2>5. ASSUME NEW i \in Ifaces, olsr_remove_interface(i)
          PROVE  HysteresisStep
      <3>1. CASE current_inetgw' = current_inetgw
        BY <2>1, <3>1
      <3>2. CASE current_inetgw' # current_inetgw
        <4> DEFINE left == [p \in Prefixes |-> Left(rt[p], i)]
        <4>1. PICK bad \in Failures : AllUpdated(left, routingtree_version, bad)
          BY Zenon, <2>5, <3>2, RemoveUpdate
        <4> HIDE DEF left
        <4> QED BY <4>1, UpdateHysteresis
      <3> QED BY <3>1, <3>2
    <2>6. ASSUME NEW i \in Ifaces, chk_if_up(i) \/ DeviceDown(i) \/ DeviceUp(i)
          PROVE  HysteresisStep
      BY <2>1, <2>6 DEF chk_if_up, DeviceDown, DeviceUp
    <2> QED BY <2>2, <2>3, <2>4, <2>5, <2>6 DEF Next
  <1> QED BY <1>1, Invariance, PTL DEF Spec, GatewayHysteresis, HysteresisStep
=============================================================================
