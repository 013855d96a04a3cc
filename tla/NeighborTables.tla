--------------------------- MODULE NeighborTables ---------------------------
(***************************************************************************)
(* The tables of the neighbourhood as one record s, and the functions of   *)
(* neighbor_table.c, two_hop_neighbor_table.c and mid_set.c that change    *)
(* them, each as an operator from s to the s it leaves.                    *)
(*                                                                         *)
(*   s.nbr    neighbor entries: the memory they live in -> their fields    *)
(*   s.order  neighbortable, the entry queued last first                   *)
(*   s.list2  neighbor_2_list entries <<neighbor, two-hop address>> ->     *)
(*            ticks left on nbr2_list_timer, or NO_TIMER                   *)
(*   s.nbr2   two_hop_neighbortable: address -> neighbor_2_pointer and     *)
(*            the neighbors in neighbor_2_nblist                           *)
(*   s.alias  reverse_mid_set: alias -> main address, ticks of validity    *)
(*   s.mid    mid_set: main address -> ticks left on mid_timer             *)
(*   s.paths  rt_paths of origin MID, <<alias, main address>>              *)
(*   s.links  link set: remote address -> link, of which only the field    *)
(*            nbr, the entry it points to, is touched here                 *)
(*   s.raised the change flags raised since the daemon's last pass         *)
(*                                                                         *)
(* Buckets of the hash tables are not kept apart: every address has a      *)
(* bucket of its own.  Timers count ticks down; 0 is due.  A definition    *)
(* whose name ends in an underscore and a word is the one before which it  *)
(* stands with a plausible slip.                                           *)
(***************************************************************************)
EXTENDS Integers, Sequences

CONSTANTS Entries,            \* memory for neighbor entries
          VTIME               \* validity time of every message, in ticks

ASSUME VtimeAssumption == VTIME \in Nat \ {0}

NO_TIMER == -1

With(f, x, v) == [y \in DOMAIN f \cup {x} |-> IF y = x THEN v ELSE f[y]]

Without(f, S) == [y \in DOMAIN f \ S |-> f[y]]

Raise(s, flags) == [s EXCEPT !.raised = @ \cup flags]

----------------------------------------------------------------------------
(* neighbor_table.c *)

\* The entries with main address a, in the order of the lookups.
EntriesOf(s, a) == SelectSeq(s.order, LAMBDA n : s.nbr[n].addr = a)

HasNeighbor(s, a) == \E n \in DOMAIN s.nbr : s.nbr[n].addr = a

\* olsr_lookup_neighbor_table_alias(a): the first entry, which must exist.
olsr_lookup_neighbor_table_alias(s, a) == Head(EntriesOf(s, a))

\* Two-hop addresses in the list of neighbor n.
TwoHopsOf(s, n) == {t \in DOMAIN s.nbr2 : <<n, t>> \in DOMAIN s.list2}

UnlinkTwoHops_KeepUnused(s, n, T) ==
  LET left == [t \in DOMAIN s.nbr2 |->
                 IF t \in T THEN [pointer |-> s.nbr2[t].pointer - 1,
                                  nblist  |-> s.nbr2[t].nblist \ {n}]
                 ELSE s.nbr2[t]]
  IN Raise([s EXCEPT !.list2 = Without(@, {n} \X T), !.nbr2 = left],
           IF T = {} THEN {} ELSE {"neighborhood", "topology"})

\* The list entries <<n, t>>, t in T, go: neighbor_2_pointer is decremented,
\* n leaves neighbor_2_nblist, and olsr_del_nbr2_list frees both the list entry
\* and a two-hop neighbor to which nothing points any more.
UnlinkTwoHops(s, n, T) ==
  LET left == [t \in DOMAIN s.nbr2 |->
                 IF t \in T THEN [pointer |-> s.nbr2[t].pointer - 1,
                                  nblist  |-> s.nbr2[t].nblist \ {n}]
                 ELSE s.nbr2[t]]
  IN Raise([s EXCEPT !.list2 = Without(@, {n} \X T),
                     !.nbr2  = Without(left, {t \in T : left[t].pointer < 1})],
           IF T = {} THEN {} ELSE {"neighborhood", "topology"})

\* olsr_delete_neighbor_table(a)
olsr_delete_neighbor_table(s, a) ==
  IF ~HasNeighbor(s, a) THEN s
  ELSE LET n == olsr_lookup_neighbor_table_alias(s, a)
           u == UnlinkTwoHops(s, n, TwoHopsOf(s, n))
       IN Raise([u EXCEPT !.nbr   = Without(@, {n}),
                          !.order = SelectSeq(@, LAMBDA m : m # n)],
                {"neighborhood", "links"})

\* olsr_insert_neighbor_table(a), for memory n that nothing refers to.
olsr_insert_neighbor_table(s, a, n) ==
  IF HasNeighbor(s, a) THEN s
  ELSE [s EXCEPT !.nbr   = With(@, n, [addr |-> a, status |-> "NOT_SYM",
                                       willingness |-> "NEVER", linkcount |-> 0]),
                 !.order = <<n>> \o @]

\* Memory malloc may return: nothing lives there.  The model never reuses memory
\* that a link still points to, so that a dangling pointer stays visible.
FreeEntry(s) ==
  CHOOSE n \in Entries : /\ n \notin DOMAIN s.nbr
                         /\ \A r \in DOMAIN s.links : s.links[r].nbr # n

\* olsr_update_neighbor_main_addr: the entry is queued again under its new name.
olsr_update_neighbor_main_addr(s, n, a) ==
  [s EXCEPT !.nbr[n].addr = a,
            !.order = <<n>> \o SelectSeq(@, LAMBDA m : m # n)]

\* olsr_delete_two_hop_neighbor_table(t): also every list entry that names t.
olsr_delete_two_hop_neighbor_table(s, t) ==
  LET naming == {n \in s.nbr2[t].nblist : <<n, t>> \in DOMAIN s.list2}
  IN Raise([s EXCEPT !.list2 = Without(@, naming \X {t}),
                     !.nbr2  = Without(@, {t})],
           IF naming = {} THEN {} ELSE {"neighborhood", "topology"})

update_neighbor_status_Unreported(s, n, lnk) ==
  [s EXCEPT !.nbr[n].status = IF lnk = "SYM" THEN "SYM" ELSE "NOT_SYM"]

\* update_neighbor_status(n, lnk), with the default tc_redundancy of 2.
update_neighbor_status(s, n, lnk) ==
  LET a == s.nbr[n].addr
      f == {"neighborhood", "topology", "links"}
  IN IF lnk = "SYM"
     THEN IF s.nbr[n].status = "SYM" THEN s
          ELSE LET u == IF a \in DOMAIN s.nbr2
                        THEN olsr_delete_two_hop_neighbor_table(s, a) ELSE s
               IN Raise([u EXCEPT !.nbr[n].status = "SYM"], f)
     ELSE IF s.nbr[n].status = "NOT_SYM" THEN s
          ELSE Raise([s EXCEPT !.nbr[n].status = "NOT_SYM"], f)

\* replace_neighbor_link_set(old, new): the counts of links stay as they are.
replace_neighbor_link_set(s, old, new) ==
  [s EXCEPT !.links = [r \in DOMAIN @ |->
                         IF @[r].nbr = old THEN [@[r] EXCEPT !.nbr = new] ELSE @[r]]]

----------------------------------------------------------------------------
(* process_package.c: two-hop neighbours listed in a HELLO *)

\* linking_this_2_entries(n, t).  The new list entry has no timer yet, and
\* olsr_change_timer does nothing without one.
linking_this_2_entries(s, n, t) ==
  LET e == IF t \in DOMAIN s.nbr2 THEN s.nbr2[t] ELSE [pointer |-> 0, nblist |-> {}]
  IN Raise([s EXCEPT !.list2 = With(@, <<n, t>>, NO_TIMER),
                     !.nbr2  = With(@, t, [pointer |-> e.pointer + 1,
                                           nblist  |-> e.nblist \cup {n}])],
           {"neighborhood", "topology"})

\* mid_lookup_main_addr(a), or a itself as all callers but two have it.
mid_lookup_main_addr(s, a) == IF a \in DOMAIN s.alias THEN s.alias[a].main ELSE a

\* process_message_neighbors: each listed address by its main address; a known
\* pair gets its timer, a new one is linked.  Own addresses are skipped, so they
\* are not among the listed ones.  Costs of links are not kept here.
process_message_neighbors(s, n, listed) ==
  LET mains == {mid_lookup_main_addr(s, a) : a \in listed}
      known == {t \in mains : <<n, t>> \in DOMAIN s.list2}
      u     == [s EXCEPT !.list2 = [k \in DOMAIN @ |->
                                      IF k \in {n} \X known THEN VTIME ELSE @[k]]]
      Link[T \in SUBSET (mains \ known)] ==
        IF T = {} THEN u
        ELSE LET t == CHOOSE x \in T : TRUE
             IN linking_this_2_entries(Link[T \ {t}], n, t)
  IN Link[mains \ known]

----------------------------------------------------------------------------
(* mid_set.c *)

AliasesOf(s, m) == {a \in DOMAIN s.alias : s.alias[a].main = m}

\* olsr_set_mid_timer: a running timer is only ever moved into the future.
olsr_set_mid_timer(s, m) ==
  [s EXCEPT !.mid = With(@, m, IF m \in DOMAIN @ /\ @[m] >= VTIME THEN @[m] ELSE VTIME)]

\* olsr_delete_mid_entry(m): the entry, its aliases and their rt_paths.
olsr_delete_mid_entry(s, m) ==
  LET gone == AliasesOf(s, m)
  IN Raise([s EXCEPT !.mid   = Without(@, {m}),
                     !.alias = Without(@, gone),
                     !.paths = @ \ (gone \X {m})],
           IF s.paths \cap (gone \X {m}) = {} THEN {} ELSE {"hna"})

\* olsr_insert_routing_table(a, m) for an alias.
olsr_insert_routing_table(s, a, m) ==
  Raise([s EXCEPT !.paths = @ \cup {<<a, m>>}],
        IF <<a, m>> \in s.paths THEN {} ELSE {"hna"})

\* The loop of insert_mid_tuple over the aliases of m: two-hop entries of an
\* alias go; a neighbor entry of an alias is freed, as it stands, after its links
\* have been redirected to the entry of m.
MergeAlias(s, m, a) ==
  LET t == IF a \in DOMAIN s.nbr2
           THEN Raise(olsr_delete_two_hop_neighbor_table(s, a), {"neighborhood"}) ELSE s
  IN IF HasNeighbor(t, a) /\ HasNeighbor(t, m)
     THEN LET bogus == olsr_lookup_neighbor_table_alias(t, a)
              u == replace_neighbor_link_set(t, bogus, olsr_lookup_neighbor_table_alias(t, m))
          IN Raise([u EXCEPT !.nbr   = Without(@, {bogus}),
                             !.order = SelectSeq(@, LAMBDA n : n # bogus)],
                   {"neighborhood"})
     ELSE t

insert_mid_tuple_KeepTwoHops(s, m, a) ==
  IF a \in DOMAIN s.alias /\ s.alias[a].main = m THEN s
  ELSE olsr_set_mid_timer(
         [olsr_insert_routing_table(s, a, m) EXCEPT
            !.alias = With(@, a, [main |-> m, valid |-> 0])], m)

\* insert_mid_tuple(m, a); the validity of a fresh alias has passed already.
insert_mid_tuple(s, m, a) ==
  IF a \in DOMAIN s.alias /\ s.alias[a].main = m THEN s
  ELSE LET u == olsr_set_mid_timer(
                  [olsr_insert_routing_table(s, a, m) EXCEPT
                     !.alias = With(@, a, [main |-> m, valid |-> 0])], m)
           Merge[S \in SUBSET AliasesOf(u, m)] ==
             IF S = {} THEN u
             ELSE LET x == CHOOSE y \in S : TRUE IN MergeAlias(Merge[S \ {x}], m, x)
       IN Merge[AliasesOf(u, m)]

\* insert_mid_alias(m, a)
insert_mid_alias(s, m, a) ==
  LET u == IF ~HasNeighbor(s, a) THEN s
           ELSE LET old == olsr_lookup_neighbor_table_alias(s, a)
                    d   == olsr_insert_neighbor_table(olsr_delete_neighbor_table(s, a), m,
                                                      FreeEntry(s))
                    r   == replace_neighbor_link_set(
                             d, old, olsr_lookup_neighbor_table_alias(d, m))
                IN IF a \in DOMAIN r.mid THEN olsr_delete_mid_entry(r, a) ELSE r
  IN Raise(insert_mid_tuple(u, m, a), {"neighborhood", "topology"})

\* olsr_prune_aliases: a declared alias is valid for VTIME, another one that is
\* not valid any more goes.
olsr_prune_aliases(s, m, declared) ==
  LET gone == {a \in AliasesOf(s, m) \ declared : s.alias[a].valid = 0}
  IN IF m \notin DOMAIN s.mid THEN s
     ELSE Raise([s EXCEPT !.alias = [a \in DOMAIN @ \ gone |->
                                       IF a \in declared /\ @[a].main = m
                                       THEN [@[a] EXCEPT !.valid = VTIME] ELSE @[a]],
                          !.paths = @ \ (gone \X {m})],
                IF gone = {} THEN {} ELSE {"neighborhood", "topology", "hna"})

\* olsr_update_mid_table(m)
olsr_update_mid_table(s, m) == IF m \in DOMAIN s.mid THEN olsr_set_mid_timer(s, m) ELSE s

\* olsr_input_mid, past its check of the sender's link.  Own addresses are
\* skipped, so they are not among the declared ones.
olsr_input_mid(s, m, declared) ==
  LET t == olsr_update_mid_table(s, m)
      In[D \in SUBSET declared] ==
        IF D = {} THEN t
        ELSE LET a == CHOOSE x \in D : TRUE
                 u == In[D \ {a}]
             IN IF a \in DOMAIN u.alias THEN olsr_insert_routing_table(u, a, m)
                ELSE insert_mid_alias(u, m, a)
  IN olsr_prune_aliases(In[declared], m, declared)
=============================================================================
