---------------------------- MODULE Neighborhood ----------------------------
(***************************************************************************)
(* Link sensing: link_set.c with hysteresis.c, the handler of HELLOs of    *)
(* process_package.c, mpr_selector_set.c and the handler of MIDs, over the *)
(* tables of NeighborTables.  One daemon with one interface hears HELLOs   *)
(* and MIDs of its neighbours; the timers of links, two-hop entries,       *)
(* aliases and selectors run beside them.                                  *)
(*                                                                         *)
(* Time is counted in ticks.  A timer that is due fires before the next    *)
(* tick, but a message may be handled first, as olsr_scheduler polls the   *)
(* sockets between two walks over the timers.  A link keeps                *)
(*   nbr, sym (link_sym_timer), time (link_timer), asym (ASYM_time),       *)
(*   prev (prev_status), and for hysteresis pending, lost                  *)
(*   (L_LOST_LINK_time), quality, hello (link_hello_timer),                *)
(*   miss (number of the sender's next packet minus olsr_seqno) and known  *)
(*   (olsr_seqno_valid).                                                   *)
(* quality is L_link_quality in units of 1/8, for the default scaling 0.5  *)
(* and thresholds 0.8 and 0.3.                                             *)
(***************************************************************************)
EXTENDS NeighborTables, FiniteSets

CONSTANTS HOLD,               \* NEIGHB_HOLD_TIME, in ticks
          HTIME,              \* the HELLO interval of the neighbours
          Setups,             \* names of the surroundings
          Hellos,             \* Setups -> set of HELLOs that may arrive
          Mids,               \* Setups -> set of MIDs that may arrive
          Hysteresis,         \* Setups -> use_hysteresis
          SEQ_LIMIT,          \* 100: packets the code takes for missed
          SEQ_SPACE           \* 65536

ASSUME NeighborhoodAssumption ==
  /\ HOLD \in Nat \ {0} /\ HTIME \in Nat \ {0}
  /\ SEQ_LIMIT \in Nat /\ SEQ_SPACE \in Nat /\ SEQ_LIMIT < SEQ_SPACE

VARIABLES setup, phase, links, nbr, order, list2, nbr2, alias, mid, paths, sel,
          edges, raised,
          silence             \* ticks since the neighbours fell silent

tables == <<links, nbr, order, list2, nbr2, alias, mid, paths, sel, edges, raised>>
vars   == <<setup, phase, silence, tables>>

\* The tables at the start of a handler; no flag has been raised yet.
Tables ==
  [links |-> links, nbr |-> nbr, order |-> order, list2 |-> list2, nbr2 |-> nbr2,
   alias |-> alias, mid |-> mid, paths |-> paths, sel |-> sel, edges |-> edges,
   raised |-> {}]

\* The handler leaves the tables s.
Become(s) ==
  /\ links' = s.links /\ nbr' = s.nbr /\ order' = s.order /\ list2' = s.list2
  /\ nbr2' = s.nbr2 /\ alias' = s.alias /\ mid' = s.mid /\ paths' = s.paths
  /\ sel' = s.sel /\ edges' = s.edges /\ raised' = s.raised
  /\ UNCHANGED setup

\* The daemon and its neighbours go on as before.
Continue == UNCHANGED <<phase, silence>>

use_hysteresis == Hysteresis[setup]

----------------------------------------------------------------------------
(* hysteresis.c *)

olsr_hyst_calc_stability(q) == (q + 8) \div 2

olsr_hyst_calc_instability(q) == q \div 2

HighQuality(q) == 10 * q > 64

LowQuality(q) == 10 * q < 24

\* olsr_process_hysteresis(link)
olsr_process_hysteresis(s, r) ==
  LET l == s.links[r]
  IN IF HighQuality(l.quality)
     THEN Raise([s EXCEPT !.links[r] = [l EXCEPT !.pending = FALSE, !.lost = 0]],
                IF l.pending \/ l.lost > 0 THEN {"neighborhood"} ELSE {})
     ELSE IF LowQuality(l.quality)
     THEN Raise([s EXCEPT !.links[r] =
                   [l EXCEPT !.pending = TRUE,
                             !.lost = IF HOLD < l.time THEN HOLD ELSE l.time]],
                IF ~l.pending \/ l.lost = 0 THEN {"neighborhood"} ELSE {})
     ELSE s

\* Quality after n more packets were missed; the loop stops when it is low.
Missed[n \in Nat, q \in 0 .. 8] ==
  IF n = 0 THEN q
  ELSE LET d == olsr_hyst_calc_instability(q)
       IN IF LowQuality(d) THEN d ELSE Missed[n - 1, d]

\* update_hysteresis_incoming, for every packet of the neighbour.
update_hysteresis_incoming(s, r) ==
  IF ~use_hysteresis \/ r \notin DOMAIN s.links THEN s
  ELSE LET l == s.links[r]
           q == olsr_hyst_calc_stability(l.quality)
       IN [s EXCEPT !.links[r] =
             [l EXCEPT !.quality = IF l.known /\ l.miss < SEQ_LIMIT THEN Missed[l.miss, q]
                                   ELSE q,
                       !.miss = 0, !.known = TRUE]]

----------------------------------------------------------------------------
(* link_set.c *)

\* lookup_link_status(link)
lookup_link_status(l) ==
  IF use_hysteresis /\ l.lost > 0 THEN "LOST"
  ELSE IF use_hysteresis /\ l.pending THEN "HIDE"
  ELSE IF l.sym # NO_TIMER THEN "SYM"
  ELSE IF l.asym > 0 THEN "ASYM" ELSE "LOST"

\* get_neighbor_status(r): the links to all known addresses of r's node.
get_neighbor_status(s, r) ==
  LET m == mid_lookup_main_addr(s, r)
  IN IF \E x \in DOMAIN s.links \cap ({m} \cup AliasesOf(s, m)) :
            lookup_link_status(s.links[x]) = "SYM"
     THEN "SYM" ELSE "NOT_SYM"

\* olsr_delete_link_entry(link)
olsr_delete_link_entry(s, r) ==
  LET n == s.links[r].nbr
      e == [s EXCEPT !.edges = @ \ {r}]
      u == IF n \notin DOMAIN e.nbr THEN e
           ELSE IF e.nbr[n].linkcount = 1
           THEN olsr_delete_neighbor_table(e, e.nbr[n].addr)
           ELSE [e EXCEPT !.nbr[n].linkcount = @ - 1]
  IN Raise([u EXCEPT !.links = Without(@, {r})], {"neighborhood"})

\* lookup_link_entry with a main address: a link whose neighbour goes by another
\* main address renames the neighbor entry.
RenameNeighbor(s, r, main) ==
  IF s.nbr[s.links[r].nbr].addr = main THEN s
  ELSE olsr_update_neighbor_main_addr(s, s.links[r].nbr, main)

\* The wait for the next HELLO, one and a half intervals, in whole ticks.
HelloTimeout == HTIME + (HTIME + 1) \div 2

\* add_link_entry(remote, remote_main)
add_link_entry(s, r, main) ==
  IF r \in DOMAIN s.links THEN RenameNeighbor(s, r, main)
  ELSE LET known == mid_lookup_main_addr(s, main)
           u == IF HasNeighbor(s, known) THEN s
                ELSE olsr_insert_neighbor_table(s, main, FreeEntry(s))
           n == olsr_lookup_neighbor_table_alias(u, IF HasNeighbor(s, known) THEN known
                                                    ELSE main)
       IN [u EXCEPT
             !.nbr[n].linkcount = @ + 1,
             !.links = With(@, r,
               [nbr |-> n, sym |-> NO_TIMER, time |-> VTIME, asym |-> 0, prev |-> "ASYM",
                pending |-> use_hysteresis, lost |-> IF use_hysteresis THEN VTIME ELSE 0,
                quality |-> 0, hello |-> IF use_hysteresis THEN HelloTimeout ELSE NO_TIMER,
                miss |-> 0, known |-> FALSE])]

\* What a HELLO h says of our own address, h.link, decides whether the link is symmetric.
RefreshLink(s, h) ==
  LET heard == h.link \in {"SYM", "ASYM"}
  IN [s EXCEPT !.links[h.from] =
        [@ EXCEPT !.asym = VTIME, !.prev = h.link,
                  !.time = IF heard THEN VTIME + HOLD ELSE IF @ < VTIME THEN VTIME ELSE @,
                  !.sym = IF heard THEN VTIME ELSE IF h.link = "LOST" THEN NO_TIMER ELSE @]]

HysteresisIfUsed(s, r) == IF use_hysteresis THEN olsr_process_hysteresis(s, r) ELSE s

\* The neighbour of the link r is symmetric if one of its links is.
RefreshNeighbor(s, r) == update_neighbor_status(s, s.links[r].nbr, get_neighbor_status(s, r))

\* update_link_entry for a HELLO h.
update_link_entry(s, h) ==
  RefreshNeighbor(HysteresisIfUsed(RefreshLink(add_link_entry(s, h.from, h.main), h), h.from), h.from)

----------------------------------------------------------------------------
(* process_package.c, mpr_selector_set.c *)

\* The address pair of a HELLO that arrives from another interface than the main
\* one is an alias, unless it contradicts a known one.
LearnAlias(s, h) ==
  IF h.from = h.main \/ (h.from \in DOMAIN s.alias /\ s.alias[h.from].main # h.main)
  THEN s ELSE insert_mid_alias(s, h.main, h.from)

\* olsr_update_mprs_set(main)
olsr_update_mprs_set(s, main) ==
  Raise([s EXCEPT !.sel = With(@, main, VTIME)],
        IF main \in DOMAIN s.sel THEN {} ELSE {"links"})

\* The willingness of the neighbor n is the one announced.
SetWillingness(s, n, will) ==
  IF s.nbr[n].willingness = will THEN s
  ELSE Raise([s EXCEPT !.nbr[n].willingness = will], {"neighborhood", "topology"})

\* olsr_update_hysteresis_hello(link)
olsr_update_hysteresis_hello(s, r) ==
  IF use_hysteresis THEN [s EXCEPT !.links[r].hello = HelloTimeout] ELSE s

SelectedIf(s, h) == IF h.mpr THEN olsr_update_mprs_set(s, h.main) ELSE s

\* What the neighbor n says of itself and of its own neighbours.
HearNeighbor(s, n, h) ==
  IF h.will = "NEVER" THEN SetWillingness(s, n, h.will)
  ELSE process_message_neighbors(SetWillingness(s, n, h.will), n, h.listed)

HearHello(s, h) == HearNeighbor(s, s.links[h.from].nbr, h)

\* olsr_hello_tap(h), with the packet that carries it.
olsr_hello_tap(h) ==
  HearHello(SelectedIf(olsr_update_hysteresis_hello(
    LearnAlias(update_link_entry(update_hysteresis_incoming(Tables, h.from), h), h), h.from), h), h)

Hello ==
  /\ phase = "on"
  /\ \E h \in Hellos[setup] : Become(olsr_hello_tap(h))
  /\ Continue

\* A packet of a neighbour is lost; only hysteresis counts them.
PacketLost ==
  /\ phase = "on" /\ use_hysteresis
  /\ \E r \in DOMAIN links :
       /\ links[r].miss < SEQ_LIMIT
       /\ Become([Tables EXCEPT !.links[r].miss = @ + 1])
  /\ Continue

\* A MID forwarded by a neighbour; without a symmetric link to the forwarder
\* (check_neighbor_link) it is discarded.
Mid ==
  /\ phase = "on"
  /\ \E r \in DOMAIN links : lookup_link_status(links[r]) = "SYM"
  /\ \E m \in Mids[setup] : Become(olsr_input_mid(Tables, m.main, m.aliases))
  /\ Continue

\* An empty TC of the node with main address m: olsr_cleanup_mid.
CleanupMid ==
  /\ phase = "on"
  /\ \E m \in DOMAIN mid : Become(olsr_delete_mid_entry(Tables, m))
  /\ Continue

\* get_best_link_to_neighbor(address of n) may find any link to a node of that main
\* address; by link quality none, when the cost of each is LINK_COST_BROKEN.
BestLinks(n) ==
  {r \in DOMAIN links : /\ links[r].nbr \in DOMAIN nbr
                        /\ nbr[links[r].nbr].addr = mid_lookup_main_addr(Tables, nbr[n].addr)}

\* olsr_calculate_routing_table keeps the own edges: one to every symmetric neighbour
\* whose best link is not lost.
UpdateOwnEdges ==
  LET syms == {n \in DOMAIN nbr : nbr[n].status = "SYM"}
      Lost(n) == {r \in BestLinks(n) : lookup_link_status(links[r]) = "LOST"}
      may == {n \in syms : BestLinks(n) # Lost(n)}
      must == {n \in may : use_hysteresis /\ Lost(n) = {}}
  IN /\ phase = "on"
     /\ \E kept \in SUBSET may :
          /\ must \subseteq kept
          /\ Become([Tables EXCEPT !.edges = (@ \ {nbr[n].addr : n \in DOMAIN nbr \ kept})
                                             \cup {nbr[n].addr : n \in kept}])
     /\ edges' # edges
     /\ Continue

----------------------------------------------------------------------------
(* timers *)

\* olsr_expire_link_sym_timer.  A neighbour that last said something else than
\* that the link is symmetric keeps its status.
olsr_expire_link_sym_timer(r) ==
  LET s == [Tables EXCEPT !.links[r].sym = NO_TIMER]
      l == s.links[r]
  IN IF l.prev # "SYM" THEN s
     ELSE LET u == [s EXCEPT !.links[r].prev = lookup_link_status(l)]
          IN Raise(update_neighbor_status(u, l.nbr, get_neighbor_status(u, r)),
                   {"neighborhood"})

\* olsr_expire_link_hello_timer: no HELLO came in time.
olsr_expire_link_hello_timer(r) ==
  LET s == [Tables EXCEPT !.links[r].quality = olsr_hyst_calc_instability(@),
                          !.links[r].hello = HTIME]
  IN [RefreshNeighbor(olsr_process_hysteresis(s, r), r) EXCEPT !.links[r].miss = (@ - 1) % SEQ_SPACE]

SymExpires ==
  \E r \in DOMAIN links : links[r].sym = 0 /\ Become(olsr_expire_link_sym_timer(r))

LinkExpires ==
  \E r \in DOMAIN links : links[r].time = 0 /\ Become(olsr_delete_link_entry(Tables, r))

HelloExpires ==
  \E r \in DOMAIN links : links[r].hello = 0 /\ Become(olsr_expire_link_hello_timer(r))

\* olsr_expire_nbr2_list
Nbr2Expires ==
  \E k \in DOMAIN list2 : list2[k] = 0 /\ Become(UnlinkTwoHops(Tables, k[1], {k[2]}))

\* olsr_expire_mid_entry
MidExpires ==
  \E m \in DOMAIN mid : mid[m] = 0 /\ Become(olsr_delete_mid_entry(Tables, m))

\* olsr_expire_mpr_sel_entry
SelectorExpires ==
  \E a \in DOMAIN sel :
    sel[a] = 0 /\ Become(Raise([Tables EXCEPT !.sel = Without(@, {a})], {"links"}))

Down(t) == IF t > 0 THEN t - 1 ELSE t

Due == \/ \E r \in DOMAIN links : 0 \in {links[r].sym, links[r].time, links[r].hello}
       \/ \E k \in DOMAIN list2 : list2[k] = 0
       \/ \E m \in DOMAIN mid : mid[m] = 0
       \/ \E a \in DOMAIN sel : sel[a] = 0

Tick ==
  /\ ~Due
  /\ Become([Tables EXCEPT
       !.links = [r \in DOMAIN @ |->
                    [@[r] EXCEPT !.sym = Down(@), !.time = Down(@), !.hello = Down(@),
                                 !.asym = Down(@), !.lost = Down(@)]],
       !.list2 = [k \in DOMAIN @ |-> Down(@[k])],
       !.alias = [a \in DOMAIN @ |-> [@[a] EXCEPT !.valid = Down(@)]],
       !.mid   = [m \in DOMAIN @ |-> Down(@[m])],
       !.sel   = [a \in DOMAIN @ |-> Down(@[a])]])

Timers ==
  /\ phase # "down"
  /\ \/ /\ SymExpires \/ LinkExpires \/ HelloExpires \/ Nbr2Expires \/ MidExpires
           \/ SelectorExpires
        /\ UNCHANGED silence
     \/ /\ Tick
        /\ silence' = IF phase = "quiet" /\ silence <= VTIME + HOLD THEN silence + 1
                      ELSE silence
  /\ UNCHANGED phase

----------------------------------------------------------------------------

\* The interface goes: olsr_delete_link_entry_by_ip deletes every link on it.
InterfaceDown ==
  LET Del[S \in SUBSET DOMAIN links] ==
        IF S = {} THEN Tables
        ELSE LET r == CHOOSE x \in S : TRUE IN olsr_delete_link_entry(Del[S \ {r}], r)
  IN /\ phase = "on" /\ links # <<>>
     /\ Become(Del[DOMAIN links])
     /\ Continue

\* olsr_reset_all_links, at shutdown; the daemon sends its last messages and ends.
Shutdown ==
  LET s == [Tables EXCEPT
              !.links = [r \in DOMAIN @ |->
                 [@[r] EXCEPT !.asym = 0, !.sym = NO_TIMER,
                              !.prev = IF @ = "SYM" THEN "LOST" ELSE @]],
              !.nbr = [n \in DOMAIN @ |->
                 IF \E r \in DOMAIN links : links[r].nbr = n
                 THEN [@[n] EXCEPT !.status = "NOT_SYM"] ELSE @[n]]]
  IN /\ phase = "on" /\ phase' = "down" /\ UNCHANGED silence
     /\ Become(Raise(s, IF \E r \in DOMAIN links : links[r].prev = "SYM"
                        THEN {"neighborhood"} ELSE {}))

\* Every neighbour falls silent for good.
Quiet ==
  /\ phase = "on" /\ phase' = "quiet"
  /\ UNCHANGED <<setup, silence, tables>>

Init ==
  /\ setup \in Setups /\ phase = "on"
  /\ links = <<>> /\ nbr = <<>> /\ order = <<>> /\ list2 = <<>> /\ nbr2 = <<>>
  /\ alias = <<>> /\ mid = <<>> /\ paths = {} /\ sel = <<>> /\ edges = {}
  /\ raised = {} /\ silence = 0

Next == \/ Hello \/ PacketLost \/ Mid \/ CleanupMid \/ UpdateOwnEdges
        \/ Timers \/ InterfaceDown \/ Shutdown \/ Quiet

Spec == Init /\ [][Next]_vars

----------------------------------------------------------------------------
(* properties *)

\* Types of the tables.
TypeOK ==
  /\ setup \in Setups /\ phase \in {"on", "quiet", "down"}
  /\ \A r \in DOMAIN links :
       /\ links[r].nbr \in Entries
       /\ links[r].sym \in NO_TIMER .. VTIME /\ links[r].time \in 0 .. VTIME + HOLD
       /\ links[r].asym \in 0 .. VTIME /\ links[r].quality \in 0 .. 8
  /\ DOMAIN nbr \subseteq Entries /\ {order[k] : k \in 1 .. Len(order)} = DOMAIN nbr
  /\ \A k \in DOMAIN list2 : list2[k] \in NO_TIMER .. VTIME
  /\ raised \subseteq {"neighborhood", "topology", "links", "hna"}
  /\ silence \in 0 .. VTIME + HOLD + 1

\* Every link points to a neighbor entry that is in the table ("Neighbor MUST
\* exist!", link_set.c), through creation, merging of aliases and deletion.
NeighborExists == \A r \in DOMAIN links : links[r].nbr \in DOMAIN nbr

\* linkcount is the number of links that point to the entry, and no entry is left
\* without one: olsr_delete_link_entry deletes it exactly with its last link.
LinkcountExact ==
  \A n \in DOMAIN nbr :
    /\ nbr[n].linkcount = Cardinality({r \in DOMAIN links : links[r].nbr = n})
    /\ nbr[n].linkcount > 0

\* The two directions of the two-hop relation agree, neighbor_2_pointer counts
\* them, and no two-hop neighbor stays that no neighbor lists.
TwoHopConsistent ==
  /\ \A k \in DOMAIN list2 :
       k[1] \in DOMAIN nbr /\ k[2] \in DOMAIN nbr2 /\ k[1] \in nbr2[k[2]].nblist
  /\ \A t \in DOMAIN nbr2 :
       /\ nbr2[t].pointer = Cardinality(nbr2[t].nblist) /\ nbr2[t].pointer > 0
       /\ \A n \in nbr2[t].nblist : <<n, t>> \in DOMAIN list2

\* No two-hop neighbor goes by an address that is known as an alias: MIDs merge
\* what HELLOs listed before under several names.
TwoHopsByMainAddress == DOMAIN nbr2 \cap DOMAIN alias = {}

\* A symmetric neighbour has a symmetric link, or a link on which its last word
\* was not that the link is symmetric (then the end of link_sym_timer goes
\* unnoticed until the next HELLO or the end of the link), or more links than one.
SymBacked ==
  \A n \in DOMAIN nbr :
    nbr[n].status = "SYM" =>
      LET own == {r \in DOMAIN links : links[r].nbr = n}
      IN \/ \E r \in own : lookup_link_status(links[r]) = "SYM" \/ links[r].prev # "SYM"
         \/ Cardinality(own) > 1

\* With hysteresis a neighbour with one link is symmetric only while that link is
\* neither pending nor lost, however HELLOs, losses and time-outs mix.
HysteresisHolds ==
  use_hysteresis =>
    \A n \in DOMAIN nbr, r \in DOMAIN links :
      links[r].nbr = n /\ nbr[n].linkcount = 1 /\ nbr[n].status = "SYM" =>
        ~links[r].pending /\ links[r].lost = 0

\* An alias has a route exactly while it is registered: pruning, expiry and
\* olsr_cleanup_mid take both together.  (olsr_input_mid also adds a route for an
\* alias that is registered with another node; addresses are unique here.)
AliasRoutesBacked ==
  paths = {<<a, alias[a].main>> : a \in DOMAIN alias}

\* An own edge (tc_myself to a neighbour) outlives the neighbor entry only for a
\* node heard on several interfaces: olsr_delete_link_entry looks the edge up by
\* the interface address of the link that ends, not by the main address.
OwnEdgesBacked ==
  \A a \in edges : \/ HasNeighbor(Tables, a)
                   \/ \E h \in Hellos[setup] : h.main = a /\ h.from # a

\* The tables of links, neighbours, two-hop neighbours, aliases and own edges agree
\* with each other after every message, timer, interface change and shutdown.
TablesAgree ==
  /\ TypeOK /\ NeighborExists /\ LinkcountExact /\ TwoHopConsistent /\ TwoHopsByMainAddress
  /\ SymBacked /\ HysteresisHolds /\ AliasRoutesBacked /\ OwnEdgesBacked

\* A step that changes the symmetric neighbours or the two-hop relation raises
\* changes_neighborhood, so that olsr_process_changes selects relays anew.
ChangesReported ==
  [][LET syms(f) == {f[n].addr : n \in {m \in DOMAIN f : f[m].status = "SYM"}}
     IN phase' # "down" /\ (syms(nbr') # syms(nbr) \/ DOMAIN list2' # DOMAIN list2)
          => "neighborhood" \in raised']_vars

\* Neighbours that fall silent are forgotten in time: after the validity time of
\* the last HELLO and NEIGHB_HOLD_TIME nothing is left of them, two-hop neighbours
\* whose timer was never started included.
ForgottenInTime ==
  silence > VTIME + HOLD =>
    links = <<>> /\ nbr = <<>> /\ list2 = <<>> /\ nbr2 = <<>> /\ mid = <<>> /\ sel = <<>>
=============================================================================
