------------------------------- MODULE HnaSet -------------------------------
(***************************************************************************)
(* Who keeps a prefix in the routing table: the HNA set (hna_set.c), the   *)
(* aliases of the MID set (mid_set.c) and the tc_entry itself (tc_set.c)   *)
(* share the rt_paths that hang off the tc_entry of their originator, one  *)
(* per prefix, without counting who still needs it.                        *)
(*                                                                         *)
(* State                                                                   *)
(*   hna_tc, hna_heard   originators with a tc_entry, and of those the ones *)
(*               that sent a TC and so have a validity timer               *)
(*   rtp         the rt_paths, pairs of originator and prefix              *)
(*   hna, hna_nets   gateway entries, and their networks, whose timers run *)
(*   hna_main    alias -> main address it is registered with, or NOMAIN    *)
(*   hna_changed changes_hna                                               *)
(* and, for the properties,                                                *)
(*   hna_cut     networks whose path was deleted since their last HNA      *)
(*   hna_shared  paths made by a MID for an alias of another main address  *)
(*                                                                         *)
(* Timers expire at any time: only the order of events matters here.  HNAs *)
(* that go to the smart gateways are in Gateways, the tables of the MID    *)
(* set in NeighborTables.  Operators named Def_Word are mutated forms.     *)
(***************************************************************************)
EXTENDS Naturals, FiniteSets

CONSTANTS HnaOriginators, HnaNets, Aliases,  \* host prefixes that MIDs announce
          OwnAddrs, OwnNets,           \* prefixes that are ours
          Host(_),                     \* the host prefix of an originator
          HNA_MAX,                     \* prefixes in one HNA
          NOMAIN

VARIABLES hna_tc, hna_heard, rtp, hna, hna_nets, hna_main, hna_changed, hna_cut, hna_shared

hna_vars == <<hna_tc, hna_heard, rtp, hna, hna_nets, hna_main, hna_changed, hna_cut, hna_shared>>

HnaAssumption == /\ OwnAddrs \cup OwnNets \subseteq HnaNets
                 /\ NOMAIN \notin HnaOriginators
ASSUME HnaAssumption

HnaPrefixes == HnaNets \cup Aliases \cup {Host(o) : o \in HnaOriginators}

HnaNow == [tc |-> hna_tc, rtp |-> rtp, hna |-> hna, nets |-> hna_nets, main |-> hna_main,
        changed |-> hna_changed, cut |-> hna_cut, shared |-> hna_shared]

HnaBecome(s) == /\ hna_tc' = s.tc /\ rtp' = s.rtp /\ hna' = s.hna /\ hna_nets' = s.nets
             /\ hna_main' = s.main /\ hna_changed' = s.changed /\ hna_cut' = s.cut /\ hna_shared' = s.shared

HnaInit == /\ hna_tc = {} /\ hna_heard = {} /\ rtp = {} /\ hna = {} /\ hna_nets = {}
           /\ hna_main = [a \in Aliases |-> NOMAIN]
           /\ hna_changed = FALSE /\ hna_cut = {} /\ hna_shared = {}

(***************************************************************************)
(* The routing table.  The code calls these once for each prefix; the      *)
(* calls for different prefixes do not depend on each other.               *)
(***************************************************************************)
\* Paths for the prefixes that have none.  Locating the tc_entry may create it, and with
\* it the path for its own address.
hna_insert_routing_table(s, o, ps) ==
  LET new == {<<o, p>> : p \in ps} \cup IF ps = {} \/ o \in s.tc THEN {} ELSE {<<o, Host(o)>>}
  IN [s EXCEPT !.tc = @ \cup {r[1] : r \in new}, !.rtp = @ \cup new,
               !.changed = @ \/ ~(new \subseteq s.rtp)]

hna_delete_routing_table(s, rs) ==
  [s EXCEPT !.rtp = @ \ rs, !.cut = @ \cup (rs \cap s.nets), !.shared = @ \ rs,
            !.changed = @ \/ rs \cap s.rtp # {}]

(***************************************************************************)
(* The HNA set.                                                            *)
(***************************************************************************)
\* The last network of a gateway takes the gateway with it.
olsr_delete_hna_net_entry(s, ns) ==
  [hna_delete_routing_table(s, ns)
     EXCEPT !.nets = @ \ ns, !.cut = @ \ ns,
            !.hna = {o \in @ : (\A n \in ns : n[1] # o) \/ \E n \in s.nets \ ns : n[1] = o}]

olsr_cleanup_hna(s, o) == olsr_delete_hna_net_entry(s, {n \in s.nets : n[1] = o})

olsr_add_hna_net(s, ns) ==
  [s EXCEPT !.hna = @ \cup {n[1] : n \in ns}, !.nets = @ \cup ns, !.changed = @ \/ ~(ns \subseteq s.nets)]

\* The path is inserted again with every HNA, also for a network that is known.
olsr_update_hna_entry(s, o, ps) ==
  LET ns == {<<o, p>> : p \in ps}
  IN [hna_insert_routing_table(olsr_add_hna_net(s, ns), o, ps) EXCEPT !.cut = @ \ ns]

\* Addresses and networks of our own are skipped.
olsr_input_hna(o, ps) ==
  HnaBecome(olsr_update_hna_entry(HnaNow, o, ps \ (OwnAddrs \cup OwnNets))) /\ UNCHANGED hna_heard

olsr_expire_hna_net_entry(n) ==
  HnaBecome(olsr_delete_hna_net_entry(HnaNow, {n})) /\ UNCHANGED hna_heard

(***************************************************************************)
(* The MID set, as far as it holds paths.                                  *)
(***************************************************************************)
\* Aliases of an originator are unregistered and their paths deleted.
DropAliases(s, o, as) ==
  [hna_delete_routing_table(s, {<<o, a>> : a \in as})
     EXCEPT !.main = [a \in Aliases |-> IF a \in as THEN NOMAIN ELSE @[a]]]

olsr_delete_mid_entry(s, o) == DropAliases(s, o, {a \in Aliases : s.main[a] = o})

\* An alias that is registered with some main address, this one or another, only gets
\* its path.
MidAlias(s, o, as) ==
  [hna_insert_routing_table(s, o, as)
     EXCEPT !.main = [a \in Aliases |-> IF a \in as /\ @[a] = NOMAIN THEN o ELSE @[a]],
            !.shared = @ \cup {<<o, a>> : a \in {b \in as : s.main[b] \notin {o, NOMAIN}}}]

olsr_prune_aliases_KeepPath(s, o, over) ==
  [s EXCEPT !.main = [a \in Aliases |-> IF a \in over THEN NOMAIN ELSE @[a]]]

\* Aliases that are not declared any more go once their own vtime is over.
olsr_prune_aliases(s, o, over) == DropAliases(s, o, over)

\* A MID that declares nothing takes all aliases at once: the vtime is only looked at
\* to go back to the head of the declared aliases, which is NULL then.
olsr_input_mid(o, as) ==
  LET s1 == MidAlias(HnaNow, o, as)
      undeclared == {a \in Aliases \ as : s1.main[a] = o}
  IN /\ \E over \in IF as = {} THEN {undeclared} ELSE SUBSET undeclared :
          HnaBecome(olsr_prune_aliases(s1, o, over))
     /\ UNCHANGED hna_heard

olsr_expire_mid_entry(o) ==
  /\ \E a \in Aliases : hna_main[a] = o
  /\ HnaBecome(olsr_delete_mid_entry(HnaNow, o))
  /\ UNCHANGED hna_heard

(***************************************************************************)
(* The tc_entry.                                                           *)
(***************************************************************************)
\* The path for its own address first, then all others without a word to changes_hna.
olsr_delete_tc_entry(s, o) ==
  [hna_delete_routing_table(s, {<<o, Host(o)>>})
     EXCEPT !.tc = @ \ {o}, !.rtp = {r \in @ : r[1] # o}, !.shared = {r \in @ : r[1] # o},
            !.cut = @ \cup {n \in s.nets : n[1] = o}]

olsr_input_tc(o) ==
  /\ HnaBecome([HnaNow EXCEPT !.tc = @ \cup {o}, !.changed = @ \/ o \notin hna_tc,
                        !.rtp = IF o \in hna_tc THEN @ ELSE @ \cup {<<o, Host(o)>>}])
  /\ hna_heard' = hna_heard \cup {o}

\* "cleanup MIDs and HNAs if all edges have been erased by an empty TC"
HnaEmptyTc(o) ==
  /\ o \in hna_tc
  /\ HnaBecome(olsr_delete_tc_entry(olsr_cleanup_hna(olsr_delete_mid_entry(HnaNow, o), o), o))
  /\ hna_heard' = hna_heard \ {o}

olsr_expire_tc_entry(o) ==
  /\ o \in hna_heard
  /\ HnaBecome(olsr_delete_tc_entry(HnaNow, o))
  /\ hna_heard' = hna_heard \ {o}

\* The SPF runs on the paths.
olsr_process_changes == /\ hna_changed
                        /\ hna_changed' = FALSE
                        /\ UNCHANGED <<hna_tc, hna_heard, rtp, hna, hna_nets, hna_main, hna_cut, hna_shared>>

HnaNext ==
  \/ \E o \in HnaOriginators :
       \/ olsr_input_tc(o) \/ HnaEmptyTc(o) \/ olsr_expire_tc_entry(o) \/ olsr_expire_mid_entry(o)
       \/ \E ps \in SUBSET (HnaNets \cup Aliases \cup {Host(o)}) :
            Cardinality(ps) \in 1..HNA_MAX /\ olsr_input_hna(o, ps)
       \/ \E as \in SUBSET Aliases : olsr_input_mid(o, as)
  \/ \E n \in hna_nets : olsr_expire_hna_net_entry(n)
  \/ olsr_process_changes

HnaSpec == HnaInit /\ [][HnaNext]_hna_vars

-----------------------------------------------------------------------------
(***************************************************************************)
(* Properties.                                                             *)
(***************************************************************************)
\* Gateway entries, networks and paths name originators and prefixes, and a path hangs
\* off a tc_entry.
HnaTypeOK ==
  /\ hna_heard \subseteq hna_tc /\ hna_tc \subseteq HnaOriginators
  /\ rtp \subseteq hna_tc \X HnaPrefixes /\ hna_nets \subseteq HnaOriginators \X HnaPrefixes
  /\ hna_main \in [Aliases -> HnaOriginators \cup {NOMAIN}] /\ hna_changed \in BOOLEAN
  /\ hna_cut \subseteq hna_nets /\ hna_shared \subseteq rtp

\* "Delete hna_gw if empty" (olsr_delete_hna_net_entry): the HNA set has an entry for an
\* originator as long as it has networks and no longer.
GatewaysHaveNets == hna = {n[1] : n \in hna_nets}

\* No route outlives what announced it: every path is the originator's own address, a
\* network of its HNA, one of its aliases, or an alias of another main address that its
\* MID listed too, for which nothing is stored and which only goes with the tc_entry
\* (olsr_input_mid).
RoutesHaveSource ==
  \A r \in rtp : \/ r[2] = Host(r[1]) \/ r \in hna_nets
                 \/ r[2] \in Aliases /\ hna_main[r[2]] = r[1]
                 \/ r \in hna_shared

\* A network that is announced has its route.  It may lose it to an alias that shares
\* the prefix or to the loss of the tc_entry, but never beyond its next HNA.
NetsHaveRoutes == \A n \in hna_nets : n \in rtp \/ n \in hna_cut

\* The paths are those of the announcements that are stored: none outlives its source
\* (olsr_cleanup_hna, olsr_expire_hna_net_entry, olsr_expire_mid_entry) and none of a
\* live network is missing.
RoutesMatchAnnouncements ==
  HnaTypeOK /\ GatewaysHaveNets /\ RoutesHaveSource /\ NetsHaveRoutes

\* A path that comes or goes is seen by the next SPF run: changes_hna is set whenever
\* the paths differ, although olsr_delete_tc_entry sets it only for one of them.  The
\* exception is a tc_entry whose own path an HNA of the same prefix took along.
PathChangesSeen ==
  [][rtp' # rtp => hna_changed' \/ \E o \in hna_tc \ hna_tc' : <<o, Host(o)>> \notin rtp]_hna_vars
=============================================================================
