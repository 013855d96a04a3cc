-------------------------------- MODULE TcSet --------------------------------
(***************************************************************************)
(* The link-state database of src/tc_set.c: a tree of tc_entries keyed by   *)
(* address, each with a subtree of edges (tc_edge_entry), a subtree of      *)
(* rt_paths, a reference counter and two timers.  Edges a -> b and b -> a   *)
(* point at each other (edge_inv); the SPF walks edge_inv->tc without any   *)
(* other check.                                                             *)
(*                                                                          *)
(* A tc_entry is identified by its address, an edge by its two addresses.   *)
(* A TC message carries the advertised neighbours and, instead of the two   *)
(* border addresses, the set of addresses between them.  Link qualities and *)
(* costs are left to the SPF.                                               *)
(*                                                                          *)
(* Definitions named after the next one with a suffix (DeletedInverseOneWay)  *)
(* are mutated forms of it.                                                 *)
(***************************************************************************)
EXTENDS Integers, FiniteSets

CONSTANTS
  Addrs,                   \* main addresses of the network
  Prefixes,                \* prefixes that MID and HNA attach to a node
  OwnPrefix,               \* the host route to the node itself
  NoEdge,                  \* olsr_lookup_tc_edge returned NULL
  NoBorder,                \* a TC message without borders
  HALF_SEQ,                \* 2^15
  TC_SEQNO_WINDOW, TC_SEQNO_WINDOW_MULT,    \* 1024, 8
  TC_ANSN_WINDOW, TC_ANSN_WINDOW_MULT,      \* 256, 4
  MAX_IGNORED,             \* 32
  SentSeqnos, SentAnsns    \* the numbers that the TC messages carry

SEQ_SPACE == 2 * HALF_SEQ
Seqnos == 0 .. SEQ_SPACE - 1

ASSUME TcSetAssumption ==
  /\ IsFiniteSet(Addrs) /\ Addrs # {}
  /\ IsFiniteSet(Prefixes) /\ OwnPrefix \notin Prefixes
  /\ HALF_SEQ \in Nat \ {0}
  /\ NoEdge \notin Seqnos
  /\ TC_SEQNO_WINDOW \in Nat /\ TC_SEQNO_WINDOW_MULT \in Nat
  /\ TC_ANSN_WINDOW \in Nat /\ TC_ANSN_WINDOW_MULT \in Nat
  /\ MAX_IGNORED \in Nat
  /\ SentSeqnos \subseteq Seqnos /\ SentAnsns \subseteq Seqnos

VARIABLES
  tc_myself,        \* address of our own entry
  tc_tree,          \* addresses that have a tc_entry
  hdr,              \* address -> message header fields of the entry
  edge,             \* address -> address -> ansn of the edge, or NoEdge
  edge_inv,         \* the pairs <<a, b>> whose edge_inv pointer is set
  prefix_tree,      \* address -> prefixes that have an rt_path
  refcount,         \* address -> refcount of the entry, 0 once it is freed
  validity_timer, edge_gc_timer    \* addresses whose timer runs

vars == <<tc_myself, tc_tree, hdr, edge, edge_inv, prefix_tree, refcount,
          validity_timer, edge_gc_timer>>

Headers == [msg_seq : Seqnos, ansn : Seqnos, ignored : 0 .. MAX_IGNORED,
            err_seq : Seqnos, err_seq_valid : BOOLEAN]

\* olsr_cookie_malloc clears the memory it returns.  err_seq is 0 as long as
\* err_seq_valid says that it has no meaning.
ZeroHeader == [msg_seq |-> 0, ansn |-> 0, ignored |-> 0,
               err_seq |-> 0, err_seq_valid |-> FALSE]

Edges(a) == {b \in Addrs : edge[a][b] # NoEdge}

----------------------------------------------------------------------------
\* SEQNO_GREATER_THAN; MAXVALUE/2 is 2^15 - 1.
SEQNO_GREATER_THAN(s1, s2) ==
  \/ s1 > s2 /\ s1 - s2 <= HALF_SEQ - 1
  \/ s2 > s1 /\ s2 - s1 > HALF_SEQ - 1

\* The C casts (uint16_t) beg and (uint16_t) end.
uint16(i) == i % SEQ_SPACE

olsr_seq_inrange_low(beg, end, seq) ==
  IF beg < 0 THEN seq >= uint16(beg) \/ seq < end
  ELSE IF end >= SEQ_SPACE THEN seq >= beg \/ seq < uint16(end)
  ELSE seq >= beg /\ seq < end

olsr_seq_inrange_high(beg, end, seq) ==
  IF beg < 0 THEN seq > uint16(beg) \/ seq <= end
  ELSE IF end >= SEQ_SPACE THEN seq > beg \/ seq <= uint16(end)
  ELSE seq > beg /\ seq <= end

\* The message lies in the window of numbers that were already seen.
AlreadySeen(h, seq, ansn) ==
  /\ olsr_seq_inrange_high(h.msg_seq - TC_SEQNO_WINDOW, h.msg_seq, seq)
  /\ olsr_seq_inrange_high(h.ansn - TC_ANSN_WINDOW, h.ansn, ansn)

\* The message lies in the window of numbers to come.
Upcoming(h, seq, ansn) ==
  /\ olsr_seq_inrange_high(h.msg_seq,
       h.msg_seq + TC_SEQNO_WINDOW * TC_SEQNO_WINDOW_MULT, seq)
  /\ olsr_seq_inrange_low(h.ansn,
       h.ansn + TC_ANSN_WINDOW * TC_ANSN_WINDOW_MULT, ansn)

IgnoredRepeated(h, seq, ansn) == h.msg_seq = seq

\* The checks of olsr_input_tc on a known node that has edges.
Ignored(h, seq, ansn) ==
  IF AlreadySeen(h, seq, ansn)
  THEN h.msg_seq = seq \/ h.ignored < MAX_IGNORED
  ELSE /\ ~Upcoming(h, seq, ansn)
       /\ h.err_seq_valid => h.err_seq = seq

\* What a message that is ignored leaves in the entry.
AfterIgnored(h, seq, ansn) ==
  IF AlreadySeen(h, seq, ansn)
  THEN IF h.msg_seq = seq THEN h ELSE [h EXCEPT !.ignored = @ + 1]
  ELSE [h EXCEPT !.err_seq = seq, !.err_seq_valid = TRUE]
----------------------------------------------------------------------------
(* Operations on the database.  olsr_add_tc_edge_entry and                  *)
(* olsr_delete_tc_edge_entry are given for a set of destinations of one     *)
(* node, the way the handlers below call them in a loop.                    *)

\* The edge_inv pointers after adding the edges a -> b, b \in D: when the
\* inverse edge is there the two are connected mutually.
AddedInverse(inv, E, a, D) ==
  LET met == {b \in D : b = a \/ E[b][a] # NoEdge}
  IN inv \cup {<<a, b>> : b \in met} \cup {<<b, a>> : b \in met}

DeletedInverseOneWay(inv, a, D) == inv \ {<<a, b>> : b \in D}

\* The pointers after deleting the edges a -> b, b \in D: the edge is freed
\* and the pointer of its inverse, if it had one, is cleared.
DeletedInverse(inv, a, D) ==
  inv \ ({<<a, b>> : b \in D} \cup {<<b, a>> : b \in {c \in D : <<a, c>> \in inv}})

\* olsr_add_tc_entry, through olsr_locate_tc_entry when located is needed:
\* tree membership and the node's own rt_path hold one reference each.
Added(a) ==
  IF a \in tc_tree
  THEN [tree |-> tc_tree, refcount |-> refcount, prefix |-> prefix_tree]
  ELSE [tree |-> tc_tree \cup {a},
        refcount |-> [refcount EXCEPT ![a] = 2],
        prefix |-> [prefix_tree EXCEPT ![a] = {OwnPrefix}]]

\* olsr_delete_tc_entry, given the edges E, pointers inv, counters R and
\* prefixes P it finds: its own rt_path and the others, the edges, then the
\* timers and the tree's reference.
DeleteEntry(a, E, inv, R, P) ==
  LET D == {b \in Addrs : E[a][b] # NoEdge}
  IN /\ tc_tree' = tc_tree \ {a}
     /\ hdr' = [hdr EXCEPT ![a] = ZeroHeader]
     /\ edge' = [E EXCEPT ![a] = [b \in Addrs |-> NoEdge]]
     /\ edge_inv' = DeletedInverse(inv, a, D)
     /\ prefix_tree' = [P EXCEPT ![a] = {}]
     /\ refcount' = [R EXCEPT ![a] = @ - Cardinality(P[a]) - Cardinality(D) - 1]
     /\ validity_timer' = validity_timer \ {a}
     /\ edge_gc_timer' = edge_gc_timer \ {a}

Init ==
  /\ tc_myself \in Addrs
  /\ tc_tree = {tc_myself}
  /\ hdr = [a \in Addrs |-> ZeroHeader]
  /\ edge = [a \in Addrs |-> [b \in Addrs |-> NoEdge]]
  /\ edge_inv = {}
  /\ prefix_tree = [a \in Addrs |-> IF a = tc_myself THEN {OwnPrefix} ELSE {}]
  /\ refcount = [a \in Addrs |-> IF a = tc_myself THEN 2 ELSE 0]
  /\ validity_timer = {}
  /\ edge_gc_timer = {}

----------------------------------------------------------------------------
(* olsr_input_tc, for a message from a symmetric neighbour.  parse_packet   *)
(* has dropped the messages that we originated.                             *)

\* A known node with edges sent a number that is old or implausible.
IgnoreTc(o, seq, ansn) ==
  /\ o # tc_myself /\ o \in tc_tree /\ Edges(o) # {}
  /\ Ignored(hdr[o], seq, ansn)
  /\ hdr' = [hdr EXCEPT ![o] = AfterIgnored(@, seq, ansn)]
  /\ UNCHANGED <<tc_myself, tc_tree, edge, edge_inv, prefix_tree, refcount,
                 validity_timer, edge_gc_timer>>

Accepted(o, seq, ansn) ==
  /\ o # tc_myself
  /\ o \in tc_tree /\ Edges(o) # {} => ~Ignored(hdr[o], seq, ansn)

\* The edges of o that olsr_delete_revoked_tc_edges deletes.
Revoked(o, ansn, nbrs, border) ==
  {b \in Edges(o) : b \in border \ nbrs /\ SEQNO_GREATER_THAN(ansn, edge[o][b])}

\* The message lists the neighbours nbrs.  With borders the old edges between
\* them go at once; without, the garbage collection timer is kicked.
AcceptTc(o, seq, ansn, nbrs, border) ==
  LET new == nbrs \ Edges(o)
      old == IF border = NoBorder THEN {} ELSE Revoked(o, ansn, nbrs, border)
      at  == Added(o)
  IN /\ Accepted(o, seq, ansn)
     /\ nbrs = {} => border = NoBorder
     /\ tc_tree' = at.tree
     /\ prefix_tree' = at.prefix
     /\ hdr' = [hdr EXCEPT ![o] =
                  [msg_seq |-> seq, ansn |-> ansn, ignored |-> 0,
                   err_seq |-> 0, err_seq_valid |-> FALSE]]
     /\ edge' = [edge EXCEPT ![o] = [b \in Addrs |->
                  IF b \in nbrs THEN ansn ELSE IF b \in old THEN NoEdge ELSE @[b]]]
     /\ edge_inv' = DeletedInverse(AddedInverse(edge_inv, edge, o, new), o, old)
     /\ refcount' = [at.refcount EXCEPT
                       ![o] = @ + Cardinality(new) - Cardinality(old)]
     /\ validity_timer' = validity_timer \cup {o}
     /\ edge_gc_timer' = IF border = NoBorder THEN edge_gc_timer \cup {o}
                         ELSE edge_gc_timer
     /\ UNCHANGED tc_myself

\* The empty TC with both borders 0xff: the node shuts down.  Its edges, MID
\* and HNA prefixes go, and then its entry.
ShutdownTc(o, seq, ansn) ==
  LET at == Added(o)
  IN /\ Accepted(o, seq, ansn)
     /\ DeleteEntry(o, edge, edge_inv, at.refcount, at.prefix)
     /\ UNCHANGED tc_myself

----------------------------------------------------------------------------
\* olsr_expire_tc_entry.
olsr_expire_tc_entry(o) ==
  /\ o \in validity_timer
  /\ DeleteEntry(o, edge, edge_inv, refcount, prefix_tree)
  /\ UNCHANGED tc_myself

\* olsr_expire_tc_edge_gc, with olsr_delete_outdated_tc_edges.
olsr_expire_tc_edge_gc(o) ==
  LET old == {b \in Edges(o) : SEQNO_GREATER_THAN(hdr[o].ansn, edge[o][b])}
  IN /\ o \in edge_gc_timer
     /\ edge_gc_timer' = edge_gc_timer \ {o}
     /\ edge' = [edge EXCEPT ![o] = [b \in Addrs |->
                   IF b \in old THEN NoEdge ELSE @[b]]]
     /\ edge_inv' = DeletedInverse(edge_inv, o, old)
     /\ refcount' = [refcount EXCEPT ![o] = @ - Cardinality(old)]
     /\ UNCHANGED <<tc_myself, tc_tree, hdr, prefix_tree, validity_timer>>

\* The SPF run walks the neighbour table: up are the symmetric neighbours with
\* a usable link, down the others.  The edges it adds have ansn 0.
UpdateOwnEdges(up, down) ==
  LET new == up \ Edges(tc_myself)
      old == down \cap Edges(tc_myself)
  IN /\ edge' = [edge EXCEPT ![tc_myself] = [b \in Addrs |->
                   IF b \in new THEN 0 ELSE IF b \in old THEN NoEdge ELSE @[b]]]
     /\ edge_inv' = DeletedInverse(AddedInverse(edge_inv, edge, tc_myself, new),
                                   tc_myself, old)
     /\ refcount' = [refcount EXCEPT
                       ![tc_myself] = @ + Cardinality(new) - Cardinality(old)]
     /\ UNCHANGED <<tc_myself, tc_tree, hdr, prefix_tree, validity_timer,
                    edge_gc_timer>>

\* olsr_insert_routing_table for a MID alias or an HNA network of o, which
\* creates the entry of o when it has to.
olsr_insert_routing_table(o, p) ==
  LET at == Added(o)
  IN /\ p \notin at.prefix[o]
     /\ tc_tree' = at.tree
     /\ prefix_tree' = [at.prefix EXCEPT ![o] = @ \cup {p}]
     /\ refcount' = [at.refcount EXCEPT ![o] = @ + 1]
     /\ UNCHANGED <<tc_myself, hdr, edge, edge_inv, validity_timer, edge_gc_timer>>

\* olsr_delete_routing_table.
olsr_delete_routing_table(o, p) ==
  /\ o \in tc_tree /\ p \in prefix_tree[o]
  /\ prefix_tree' = [prefix_tree EXCEPT ![o] = @ \ {p}]
  /\ refcount' = [refcount EXCEPT ![o] = @ - 1]
  /\ UNCHANGED <<tc_myself, tc_tree, hdr, edge, edge_inv, validity_timer,
                 edge_gc_timer>>

\* olsr_change_myself_tc: our main address becomes a, which no other node uses.
olsr_change_myself_tc(a) ==
  LET m == tc_myself
      D == Edges(m)
  IN /\ a \notin tc_tree
     /\ tc_myself' = a
     /\ tc_tree' = (tc_tree \ {m}) \cup {a}
     /\ edge' = [edge EXCEPT ![m] = [b \in Addrs |-> NoEdge]]
     /\ edge_inv' = DeletedInverse(edge_inv, m, D)
     /\ prefix_tree' = [prefix_tree EXCEPT ![m] = {}, ![a] = {OwnPrefix}]
     /\ refcount' = [refcount EXCEPT
          ![m] = @ - Cardinality(prefix_tree[m]) - Cardinality(D) - 1, ![a] = 2]
     /\ validity_timer' = validity_timer \ {m}
     /\ edge_gc_timer' = edge_gc_timer \ {m}
     /\ hdr' = [hdr EXCEPT ![m] = ZeroHeader]

Next ==
  \/ \E o \in Addrs, seq \in SentSeqnos, ansn \in SentAnsns :
       \/ IgnoreTc(o, seq, ansn)
       \/ ShutdownTc(o, seq, ansn)
       \/ \E nbrs \in SUBSET (Addrs \ {o}), border \in {NoBorder} \cup SUBSET Addrs :
            AcceptTc(o, seq, ansn, nbrs, border)
  \/ \E o \in Addrs : olsr_expire_tc_entry(o) \/ olsr_expire_tc_edge_gc(o)
  \/ \E up, down \in SUBSET (Addrs \ {tc_myself}) :
       up \cap down = {} /\ UpdateOwnEdges(up, down)
  \/ \E o \in Addrs \ {tc_myself}, p \in Prefixes :
       \/ olsr_insert_routing_table(o, p)
       \/ olsr_delete_routing_table(o, p)
  \/ \E a \in Addrs : olsr_change_myself_tc(a)

Spec == Init /\ [][Next]_vars
----------------------------------------------------------------------------
\* The fields keep their ranges: olsr_input_tc never counts more ignored
\* messages than MAX_IGNORED, no counter drops below 0, and our own entry is
\* never missing from the tree.
TypeOK ==
  /\ tc_myself \in tc_tree
  /\ tc_tree \subseteq Addrs
  /\ hdr \in [Addrs -> Headers]
  /\ edge \in [Addrs -> [Addrs -> Seqnos \cup {NoEdge}]]
  /\ edge_inv \subseteq Addrs \X Addrs
  /\ prefix_tree \in [Addrs -> SUBSET (Prefixes \cup {OwnPrefix})]
  /\ refcount \in [Addrs -> Nat]
  /\ validity_timer \subseteq Addrs /\ edge_gc_timer \subseteq Addrs

\* edge_inv is set exactly between two edges that both exist: the SPF follows
\* it to the entry of the neighbour, so a pointer to a freed edge, or a missing
\* one between two existing edges, would corrupt or lose routes.
InverseEdgesMutual ==
  \A a, b \in Addrs :
    <<a, b>> \in edge_inv <=> edge[a][b] # NoEdge /\ edge[b][a] # NoEdge

\* The reference counter is one for the tree plus one for each edge and each
\* rt_path, and 0 for a deleted entry: olsr_unlock_tc_entry frees an entry
\* with its last reference, neither earlier nor never.
RefcountExact ==
  \A a \in Addrs :
    refcount[a] = IF a \in tc_tree
                  THEN 1 + Cardinality(Edges(a)) + Cardinality(prefix_tree[a])
                  ELSE 0

\* Timers, edges and rt_paths belong to entries in the tree, so a callback
\* never runs on an entry that was freed; and no timer runs on our own entry,
\* which olsr_expire_tc_entry would delete while tc_myself points at it.
OwnedByTree ==
  /\ tc_myself \notin validity_timer \cup edge_gc_timer
  /\ \A a \in Addrs \ tc_tree :
       /\ a \notin validity_timer /\ a \notin edge_gc_timer
       /\ Edges(a) = {} /\ prefix_tree[a] = {}

\* The database stays consistent through messages, timers, own changes and a change of
\* the main address; this is also the inductive invariant of TcSetProofs.
DatabaseConsistent == TypeOK /\ InverseEdgesMutual /\ RefcountExact /\ OwnedByTree
=============================================================================
