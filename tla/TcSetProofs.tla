----------------------------- MODULE TcSetProofs -----------------------------
(***************************************************************************)
(* Proofs about the link-state database: for every set of addresses and     *)
(* prefixes and every size of the sequence numbers and windows, the inverse *)
(* pointers join exactly the pairs of existing edges, the reference counter *)
(* counts exactly the references, and timers belong to living entries.      *)
(***************************************************************************)
EXTENDS TcSet, FiniteSetTheorems, TLAPS

USE TcSetAssumption

EdgeMaps == [Addrs -> [Addrs -> Seqnos \cup {NoEdge}]]

Mutual(E, inv) ==
  \A x, y \in Addrs : <<x, y>> \in inv <=> E[x][y] # NoEdge /\ E[y][x] # NoEdge

\* The edge subtree of a after adding the edges to N with some ansn and
\* deleting those to D; the other subtrees are the same.
EdgeStep(E, F, a, N, D) ==
  /\ \A c \in Addrs \ {a} : F[c] = E[c]
  /\ \A b \in Addrs : IF b \in N THEN F[a][b] # NoEdge
                      ELSE IF b \in D THEN F[a][b] = NoEdge
                      ELSE F[a][b] # NoEdge <=> E[a][b] # NoEdge

LEMMA AddedMember ==
  ASSUME NEW inv, NEW E, NEW a, NEW D, NEW x, NEW y
  PROVE  <<x, y>> \in AddedInverse(inv, E, a, D) <=>
           \/ <<x, y>> \in inv
           \/ x = a /\ y \in D /\ (y = a \/ E[y][a] # NoEdge)
           \/ y = a /\ x \in D /\ (x = a \/ E[x][a] # NoEdge)
BY DEF AddedInverse

LEMMA DeletedMember ==
  ASSUME NEW inv, NEW a, NEW D, NEW x, NEW y
  PROVE  <<x, y>> \in DeletedInverse(inv, a, D) <=>
           /\ <<x, y>> \in inv
           /\ ~(x = a /\ y \in D)
           /\ ~(y = a /\ x \in D /\ <<a, x>> \in inv)
BY Zenon DEF DeletedInverse

\* Adding and deleting edges of one node keeps the inverse pointers mutual.
LEMMA MutualStep ==
  ASSUME NEW E, NEW F, NEW inv, NEW a \in Addrs,
         NEW N \in SUBSET Addrs, NEW D \in SUBSET Addrs,
         Mutual(E, inv), EdgeStep(E, F, a, N, D), N \cap D = {},
         \A b \in N : E[a][b] = NoEdge,
         \A b \in D : E[a][b] # NoEdge
  PROVE  Mutual(F, DeletedInverse(AddedInverse(inv, E, a, N), a, D))
<1> DEFINE added == AddedInverse(inv, E, a, N)
           final == DeletedInverse(added, a, D)
<1> SUFFICES ASSUME NEW x \in Addrs, NEW y \in Addrs
             PROVE  <<x, y>> \in final <=> F[x][y] # NoEdge /\ F[y][x] # NoEdge
  BY Zenon DEF Mutual
<1>m. \A u, v \in Addrs : <<u, v>> \in inv <=> E[u][v] # NoEdge /\ E[v][u] # NoEdge
  BY Zenon DEF Mutual
<1>1. <<x, y>> \in added <=>
           \/ <<x, y>> \in inv
           \/ x = a /\ y \in N /\ (y = a \/ E[y][a] # NoEdge)
           \/ y = a /\ x \in N /\ (x = a \/ E[x][a] # NoEdge)
  BY AddedMember
<1>2. <<a, x>> \in added <=>
           \/ <<a, x>> \in inv
           \/ x \in N /\ (x = a \/ E[x][a] # NoEdge)
           \/ x = a /\ a \in N
  BY AddedMember
<1>3. <<x, y>> \in final <=>
           /\ <<x, y>> \in added
           /\ ~(x = a /\ y \in D)
           /\ ~(y = a /\ x \in D /\ <<a, x>> \in added)
  BY DeletedMember
<1> HIDE DEF added, final
<1>4. CASE x = a /\ y = a
  BY <1>m, <1>1, <1>2, <1>3, <1>4 DEF EdgeStep
<1>5. CASE x = a /\ y # a
  BY <1>m, <1>1, <1>2, <1>3, <1>5 DEF EdgeStep
<1>6. CASE x # a /\ y = a
  BY <1>m, <1>1, <1>2, <1>3, <1>6 DEF EdgeStep
<1>7. CASE x # a /\ y # a
  BY <1>m, <1>1, <1>2, <1>3, <1>7 DEF EdgeStep
<1> QED BY <1>4, <1>5, <1>6, <1>7

\* The set S of edges becomes T: the new edges N come, the old edges D go.
SetStep(S, N, D, T) ==
  /\ S \subseteq Addrs /\ N \subseteq Addrs /\ D \subseteq S
  /\ N \cap S = {}
  /\ T = (S \cup N) \ D

\* The number of edges after the same step.
LEMMA CountStep ==
  ASSUME NEW S, NEW N, NEW D, NEW T, SetStep(S, N, D, T)
  PROVE  /\ Cardinality(T) = Cardinality(S) + Cardinality(N) - Cardinality(D)
         /\ Cardinality(S) \in Nat /\ Cardinality(N) \in Nat /\ Cardinality(D) \in Nat
         /\ Cardinality(T) \in Nat
<1> USE DEF SetStep
<1>1. IsFiniteSet(S) /\ IsFiniteSet(N) /\ IsFiniteSet(D) /\ IsFiniteSet(S \cup N)
  BY FS_Subset
<1>2. Cardinality(S \cup N) = Cardinality(S) + Cardinality(N) - Cardinality(S \cap N)
  BY <1>1, FS_Union
<1>3. Cardinality(S \cap N) = 0
  <2>1. S \cap N = {} OBVIOUS
  <2> QED BY <2>1, FS_EmptySet
<1>4. Cardinality((S \cup N) \ D) = Cardinality(S \cup N) - Cardinality((S \cup N) \cap D)
  BY Zenon, <1>1, FS_Difference
<1>5. Cardinality((S \cup N) \cap D) = Cardinality(D)
  <2>1. (S \cup N) \cap D = D OBVIOUS
  <2> QED BY <2>1
<1>6. Cardinality((S \cup N) \ D) = Cardinality(T)
  <2>1. (S \cup N) \ D = T OBVIOUS
  <2> QED BY <2>1
<1>7. /\ Cardinality(S) \in Nat /\ Cardinality(N) \in Nat /\ Cardinality(D) \in Nat
      /\ Cardinality((S \cup N) \ D) \in Nat
  BY Zenon, <1>1, FS_CardinalityType, FS_Difference
<1> QED BY <1>2, <1>3, <1>4, <1>5, <1>6, <1>7

----------------------------------------------------------------------------
PrefixSets == SUBSET (Prefixes \cup {OwnPrefix})

LEMMA PrefixesFinite ==
  ASSUME NEW P \in PrefixSets
  PROVE  IsFiniteSet(P) /\ Cardinality(P) \in Nat
<1>1. IsFiniteSet(Prefixes \cup {OwnPrefix}) BY FS_AddElement
<1>2. IsFiniteSet(P) BY <1>1, FS_Subset DEF PrefixSets
<1> QED BY <1>2, FS_CardinalityType

LEMMA EdgesType ==
  ASSUME TypeOK, NEW a \in Addrs
  PROVE  /\ Edges(a) \in SUBSET Addrs
         /\ Cardinality(Edges(a)) \in Nat
         /\ \A b \in Addrs : b \in Edges(a) <=> edge[a][b] # NoEdge
<1>1. Edges(a) \in SUBSET Addrs BY DEF Edges
<1>2. IsFiniteSet(Edges(a)) BY <1>1, FS_Subset
<1> QED BY <1>1, <1>2, FS_CardinalityType DEF Edges

\* olsr_locate_tc_entry gives an entry whose counter is exact.
LEMMA AddedFacts ==
  ASSUME DatabaseConsistent, NEW o \in Addrs
  PROVE  LET at == Added(o)
         IN /\ at.tree = tc_tree \cup {o}
            /\ at.refcount \in [Addrs -> Nat]
            /\ at.prefix \in [Addrs -> PrefixSets]
            /\ \A c \in Addrs \ {o} : /\ at.refcount[c] = refcount[c]
                                      /\ at.prefix[c] = prefix_tree[c]
            /\ at.refcount[o] = 1 + Cardinality(Edges(o)) + Cardinality(at.prefix[o])
<1>0. TypeOK BY DEF DatabaseConsistent
<1>1. CASE o \in tc_tree
  <2>1. /\ Added(o).tree = tc_tree /\ Added(o).refcount = refcount
        /\ Added(o).prefix = prefix_tree
    BY <1>1 DEF Added
  <2>2. refcount[o] = 1 + Cardinality(Edges(o)) + Cardinality(prefix_tree[o])
    BY <1>1 DEF DatabaseConsistent, RefcountExact
  <2>3. tc_tree = tc_tree \cup {o} BY <1>1
  <2> QED BY <1>0, <2>1, <2>2, <2>3 DEF TypeOK, PrefixSets
<1>2. CASE o \notin tc_tree
  <2>1. /\ Added(o).tree = tc_tree \cup {o}
        /\ Added(o).refcount = [refcount EXCEPT ![o] = 2]
        /\ Added(o).prefix = [prefix_tree EXCEPT ![o] = {OwnPrefix}]
    BY <1>2 DEF Added
  <2>2. Cardinality(Edges(o)) = 0
    <3>1. Edges(o) = {} BY <1>2 DEF DatabaseConsistent, OwnedByTree
    <3> QED BY <3>1, FS_EmptySet
  <2>3. Cardinality({OwnPrefix}) = 1 BY FS_Singleton
  <2>4. {OwnPrefix} \in PrefixSets BY DEF PrefixSets
  <2>5. Added(o).prefix[o] = {OwnPrefix} /\ Added(o).refcount[o] = 2
    BY <1>0, <2>1 DEF TypeOK
  <2> QED BY <1>0, <2>1, <2>2, <2>3, <2>4, <2>5 DEF TypeOK, PrefixSets
<1> QED BY <1>1, <1>2

\* A step that changes the edges, prefixes and counter of one entry o in the
\* tree, and no other, keeps the invariant when the new counter is exact.
LEMMA OneEntryStep ==
  ASSUME DatabaseConsistent, TypeOK', NEW o \in Addrs,
         o \in tc_tree', tc_tree' = tc_tree \cup {o},
         Mutual(edge', edge_inv'),
         \A c \in Addrs \ {o} : /\ edge'[c] = edge[c] /\ prefix_tree'[c] = prefix_tree[c]
                                /\ refcount'[c] = refcount[c],
         refcount'[o] = 1 + Cardinality(Edges(o)') + Cardinality(prefix_tree'[o]),
         validity_timer' \subseteq validity_timer \cup {o},
         edge_gc_timer' \subseteq edge_gc_timer \cup {o},
         tc_myself' \notin validity_timer' \cup edge_gc_timer'
  PROVE  DatabaseConsistent'
<1>1. InverseEdgesMutual' BY Zenon DEF InverseEdgesMutual, Mutual
<1>2. \A c \in Addrs \ {o} : Edges(c)' = Edges(c) BY DEF Edges
<1>3. RefcountExact'
  BY <1>2 DEF DatabaseConsistent, RefcountExact
<1>4. OwnedByTree'
  BY <1>2 DEF DatabaseConsistent, OwnedByTree
<1> QED BY <1>1, <1>3, <1>4 DEF DatabaseConsistent

\* Deleting an entry brings its counter to 0 and leaves nothing behind.
LEMMA DeleteStep ==
  ASSUME DatabaseConsistent, NEW o \in Addrs, o # tc_myself, tc_myself' = tc_myself,
         NEW R, NEW P, R = Added(o).refcount, P = Added(o).prefix,
         DeleteEntry(o, edge, edge_inv, R, P)
  PROVE  DatabaseConsistent'
<1>0. TypeOK BY DEF DatabaseConsistent
<1>1. /\ R \in [Addrs -> Nat] /\ P \in [Addrs -> PrefixSets]
      /\ \A c \in Addrs \ {o} : R[c] = refcount[c] /\ P[c] = prefix_tree[c]
      /\ R[o] = 1 + Cardinality(Edges(o)) + Cardinality(P[o])
  BY AddedFacts
<1>2. Cardinality(P[o]) \in Nat BY <1>1, PrefixesFinite
<1>3. Cardinality(Edges(o)) \in Nat BY <1>0, EdgesType
<1>4. {b \in Addrs : edge[o][b] # NoEdge} = Edges(o) BY DEF Edges
<1>5. /\ tc_tree' = tc_tree \ {o}
      /\ hdr' = [hdr EXCEPT ![o] = ZeroHeader]
      /\ edge' = [edge EXCEPT ![o] = [b \in Addrs |-> NoEdge]]
      /\ edge_inv' = DeletedInverse(edge_inv, o, Edges(o))
      /\ prefix_tree' = [P EXCEPT ![o] = {}]
      /\ refcount' = [R EXCEPT ![o] = R[o] - Cardinality(P[o]) - Cardinality(Edges(o)) - 1]
      /\ validity_timer' = validity_timer \ {o}
      /\ edge_gc_timer' = edge_gc_timer \ {o}
  BY <1>1, <1>4, ZenonT(60) DEF DeleteEntry
<1>6. refcount'[o] = 0 /\ \A c \in Addrs \ {o} : refcount'[c] = refcount[c]
  BY <1>1, <1>2, <1>3, <1>5
<1>7. TypeOK'
  <2>1. refcount' \in [Addrs -> Nat]
    BY <1>1, <1>2, <1>3, <1>5
  <2>2. prefix_tree' \in [Addrs -> PrefixSets] BY <1>1, <1>5 DEF PrefixSets
  <2>3. hdr' \in [Addrs -> Headers]
    BY <1>0, <1>5 DEF TypeOK, Headers, ZeroHeader, Seqnos, SEQ_SPACE
  <2>4. edge' \in EdgeMaps BY <1>0, <1>5 DEF TypeOK, EdgeMaps
  <2>5. edge_inv' \subseteq Addrs \X Addrs BY <1>0, <1>5 DEF TypeOK, DeletedInverse
  <2> QED BY <1>0, <1>5, <2>1, <2>2, <2>3, <2>4, <2>5 DEF TypeOK, PrefixSets, EdgeMaps
<1>8. InverseEdgesMutual'
  <2>1. Mutual(edge, edge_inv) BY Zenon DEF DatabaseConsistent, InverseEdgesMutual, Mutual
  <2>2. EdgeStep(edge, edge', o, {}, Edges(o))
    BY <1>0, <1>5, EdgesType DEF EdgeStep, TypeOK
  <2>3. AddedInverse(edge_inv, edge, o, {}) = edge_inv BY DEF AddedInverse
  <2>4. Edges(o) \in SUBSET Addrs /\ \A b \in Edges(o) : edge[o][b] # NoEdge
    BY DEF Edges
  <2>5. Mutual(edge', DeletedInverse(AddedInverse(edge_inv, edge, o, {}), o, Edges(o)))
    BY <2>1, <2>2, <2>4, MutualStep
  <2> QED BY Zenon, <1>5, <2>3, <2>5 DEF InverseEdgesMutual, Mutual
<1>9. \A c \in Addrs \ {o} : Edges(c)' = Edges(c) /\ prefix_tree'[c] = prefix_tree[c]
  BY <1>0, <1>1, <1>5 DEF Edges, TypeOK
<1>10. Edges(o)' = {} /\ prefix_tree'[o] = {}
  BY <1>0, <1>1, <1>5 DEF Edges, TypeOK
<1>11. RefcountExact'
  BY <1>5, <1>6, <1>9 DEF DatabaseConsistent, RefcountExact
<1>12. OwnedByTree'
  BY <1>5, <1>9, <1>10 DEF DatabaseConsistent, OwnedByTree
<1> QED BY <1>7, <1>8, <1>11, <1>12 DEF DatabaseConsistent

\* A step that adds the edges of o to N and deletes those to D, with the new
\* entry's counter R and prefixes P.
LEMMA EdgesStep ==
  ASSUME DatabaseConsistent, TypeOK', NEW o \in Addrs, NEW N \in SUBSET Addrs, NEW D \in SUBSET Edges(o),
         N \cap Edges(o) = {},
         EdgeStep(edge, edge', o, N, D),
         edge_inv' = DeletedInverse(AddedInverse(edge_inv, edge, o, N), o, D),
         tc_tree' = Added(o).tree,
         prefix_tree' = Added(o).prefix,
         refcount' = [Added(o).refcount EXCEPT
                        ![o] = Added(o).refcount[o] + Cardinality(N) - Cardinality(D)],
         validity_timer' \subseteq validity_timer \cup {o},
         edge_gc_timer' \subseteq edge_gc_timer \cup {o},
         tc_myself' \notin validity_timer' \cup edge_gc_timer'
  PROVE  DatabaseConsistent'
<1>0. TypeOK BY DEF DatabaseConsistent
<1> DEFINE at == Added(o)
<1>1. /\ at.tree = tc_tree \cup {o}
      /\ at.refcount \in [Addrs -> Nat]
      /\ \A c \in Addrs \ {o} : at.refcount[c] = refcount[c] /\ at.prefix[c] = prefix_tree[c]
      /\ at.refcount[o] = 1 + Cardinality(Edges(o)) + Cardinality(at.prefix[o])
  BY AddedFacts
<1>2. /\ Edges(o) \in SUBSET Addrs
      /\ \A b \in Addrs : b \in Edges(o) <=> edge[o][b] # NoEdge
  BY <1>0, EdgesType
<1>3. Mutual(edge', edge_inv')
  <2>1. Mutual(edge, edge_inv) BY Zenon DEF DatabaseConsistent, InverseEdgesMutual, Mutual
  <2>2. N \cap D = {} /\ D \in SUBSET Addrs BY <1>2
  <2>3. \A b \in N : edge[o][b] = NoEdge BY <1>2
  <2>4. \A b \in D : edge[o][b] # NoEdge BY <1>2
  <2> QED BY <2>1, <2>2, <2>3, <2>4, MutualStep
<1>4. Edges(o)' = (Edges(o) \cup N) \ D
  BY <1>2 DEF Edges, EdgeStep
<1>5. /\ Cardinality(Edges(o)') = Cardinality(Edges(o)) + Cardinality(N) - Cardinality(D)
      /\ Cardinality(Edges(o)) \in Nat /\ Cardinality(N) \in Nat /\ Cardinality(D) \in Nat
  <2>1. SetStep(Edges(o), N, D, Edges(o)') BY <1>2, <1>4 DEF SetStep
  <2> QED BY <2>1, CountStep
<1>6. prefix_tree'[o] \in PrefixSets BY DEF TypeOK, PrefixSets
<1>7. Cardinality(prefix_tree'[o]) \in Nat BY <1>6, PrefixesFinite
<1>8. refcount'[o] = 1 + Cardinality(Edges(o)') + Cardinality(prefix_tree'[o])
  BY <1>1, <1>5, <1>7
<1>9. \A c \in Addrs \ {o} : /\ edge'[c] = edge[c] /\ prefix_tree'[c] = prefix_tree[c]
                             /\ refcount'[c] = refcount[c]
  BY Zenon, <1>1 DEF EdgeStep
<1>10. o \in tc_tree' /\ tc_tree' = tc_tree \cup {o} BY Zenon, <1>1
<1> QED BY <1>3, <1>8, <1>9, <1>10, OneEntryStep

LEMMA IgnoreStep ==
  ASSUME DatabaseConsistent, NEW o \in Addrs, NEW seq \in SentSeqnos, NEW ansn \in SentAnsns,
         IgnoreTc(o, seq, ansn)
  PROVE  DatabaseConsistent'
<1>1. AfterIgnored(hdr[o], seq, ansn) \in Headers
  <2>1. hdr[o] \in Headers BY DEF DatabaseConsistent, TypeOK
  <2>2. seq \in Seqnos OBVIOUS
  <2>3. AlreadySeen(hdr[o], seq, ansn) /\ hdr[o].msg_seq # seq
          => hdr[o].ignored + 1 \in 0 .. MAX_IGNORED
    BY <2>1 DEF IgnoreTc, Ignored, Headers
  <2> QED BY <2>1, <2>2, <2>3, ZenonT(60) DEF AfterIgnored, Headers
<1>2. UNCHANGED <<tc_myself, tc_tree, edge, edge_inv, prefix_tree, refcount,
                  validity_timer, edge_gc_timer>> BY DEF IgnoreTc
<1>3. hdr' \in [Addrs -> Headers] BY <1>1 DEF IgnoreTc, DatabaseConsistent, TypeOK
<1>4. \A a \in Addrs : Edges(a)' = Edges(a) BY <1>2 DEF Edges
<1> QED BY <1>2, <1>3, <1>4
        DEF DatabaseConsistent, TypeOK, InverseEdgesMutual, RefcountExact, OwnedByTree

\* Insertions and deletions of edges pair no address but those of the table.
LEMMA InverseType ==
  ASSUME NEW inv \in SUBSET (Addrs \X Addrs), NEW E, NEW a \in Addrs,
         NEW N \in SUBSET Addrs, NEW D
  PROVE  DeletedInverse(AddedInverse(inv, E, a, N), a, D) \subseteq Addrs \X Addrs
<1>1. AddedInverse(inv, E, a, N) \subseteq Addrs \X Addrs BY DEF AddedInverse
<1>2. DeletedInverse(AddedInverse(inv, E, a, N), a, D) \subseteq AddedInverse(inv, E, a, N)
  BY DEF DeletedInverse
<1> QED BY <1>1, <1>2

LEMMA AcceptStep ==
  ASSUME DatabaseConsistent, NEW o \in Addrs, NEW seq \in SentSeqnos, NEW ansn \in SentAnsns,
         NEW nbrs \in SUBSET (Addrs \ {o}), NEW border \in {NoBorder} \cup SUBSET Addrs,
         AcceptTc(o, seq, ansn, nbrs, border)
  PROVE  DatabaseConsistent'
<1> DEFINE new == nbrs \ Edges(o)
           old == IF border = NoBorder THEN {} ELSE Revoked(o, ansn, nbrs, border)
           at  == Added(o)
<1>0. TypeOK BY DEF DatabaseConsistent
<1>1. /\ tc_tree' = at.tree
      /\ prefix_tree' = at.prefix
      /\ hdr' = [hdr EXCEPT ![o] =
                   [msg_seq |-> seq, ansn |-> ansn, ignored |-> 0,
                    err_seq |-> 0, err_seq_valid |-> FALSE]]
      /\ edge' = [edge EXCEPT ![o] = [b \in Addrs |->
                   IF b \in nbrs THEN ansn ELSE IF b \in old THEN NoEdge ELSE edge[o][b]]]
      /\ edge_inv' = DeletedInverse(AddedInverse(edge_inv, edge, o, new), o, old)
      /\ refcount' = [at.refcount EXCEPT
                        ![o] = at.refcount[o] + Cardinality(new) - Cardinality(old)]
      /\ validity_timer' = validity_timer \cup {o}
      /\ edge_gc_timer' = IF border = NoBorder THEN edge_gc_timer \cup {o}
                          ELSE edge_gc_timer
      /\ UNCHANGED tc_myself
  BY Zenon, <1>0 DEF AcceptTc, TypeOK
<1>2. /\ at.tree = tc_tree \cup {o}
      /\ at.refcount \in [Addrs -> Nat] /\ at.prefix \in [Addrs -> PrefixSets]
      /\ at.refcount[o] = 1 + Cardinality(Edges(o)) + Cardinality(at.prefix[o])
  BY AddedFacts
<1>3. /\ Edges(o) \in SUBSET Addrs
      /\ \A b \in Addrs : b \in Edges(o) <=> edge[o][b] # NoEdge
  BY <1>0, EdgesType
<1>4. old \in SUBSET Edges(o) /\ old \cap nbrs = {} BY DEF Revoked
<1>5. new \in SUBSET Addrs /\ new \cap Edges(o) = {} OBVIOUS
<1>6. EdgeStep(edge, edge', o, new, old)
  <2>1. \A c \in Addrs \ {o} : edge'[c] = edge[c] BY Zenon, <1>0, <1>1 DEF TypeOK
  <2>2. edge'[o] = [b \in Addrs |->
                   IF b \in nbrs THEN ansn ELSE IF b \in old THEN NoEdge ELSE edge[o][b]]
    BY Zenon, <1>0, <1>1 DEF TypeOK
  <2>3. ansn # NoEdge OBVIOUS
  <2> QED BY <1>3, <1>4, <2>1, <2>2, <2>3 DEF EdgeStep
<1>7. /\ Cardinality(Edges(o)) \in Nat /\ Cardinality(new) \in Nat /\ Cardinality(old) \in Nat
      /\ Cardinality(Edges(o)) + Cardinality(new) - Cardinality(old) \in Nat
  <2> DEFINE T == (Edges(o) \cup new) \ old
  <2>1. SetStep(Edges(o), new, old, T) BY <1>3, <1>4, <1>5 DEF SetStep
  <2> HIDE DEF new, old, T
  <2>2. /\ Cardinality(Edges(o)) \in Nat /\ Cardinality(new) \in Nat /\ Cardinality(old) \in Nat
        /\ Cardinality(T) = Cardinality(Edges(o)) + Cardinality(new) - Cardinality(old)
        /\ Cardinality(T) \in Nat
    BY <2>1, CountStep
  <2> QED BY <2>2
<1>8. TypeOK'
  <2>1. Cardinality(at.prefix[o]) \in Nat BY <1>2, PrefixesFinite
  <2>2. at.refcount[o] + Cardinality(new) - Cardinality(old) \in Nat
    BY <1>2, <1>7, <2>1
  <2>3. refcount' \in [Addrs -> Nat] BY Zenon, <1>1, <1>2, <2>2
  <2>4. hdr' \in [Addrs -> Headers]
    <3>1. [msg_seq |-> seq, ansn |-> ansn, ignored |-> 0,
             err_seq |-> 0, err_seq_valid |-> FALSE] \in Headers
      BY DEF Headers, Seqnos, SEQ_SPACE
    <3> QED BY Zenon, <1>0, <1>1, <3>1 DEF TypeOK
  <2>5. edge' \in EdgeMaps
    <3>1. \A b \in Addrs : (IF b \in nbrs THEN ansn ELSE IF b \in old THEN NoEdge
                            ELSE edge[o][b]) \in Seqnos \cup {NoEdge}
      BY <1>0 DEF TypeOK
    <3> HIDE DEF old
    <3> QED BY Zenon, <1>0, <1>1, <3>1 DEF TypeOK, EdgeMaps
  <2>6. edge_inv' \subseteq Addrs \X Addrs
    <3>1. edge_inv \in SUBSET (Addrs \X Addrs) BY <1>0 DEF TypeOK
    <3> HIDE DEF new, old
    <3> QED BY Zenon, <1>1, <1>5, <3>1, InverseType
  <2>7. prefix_tree' \in [Addrs -> PrefixSets] BY Zenon, <1>1, <1>2
  <2>8. tc_myself' \in tc_tree' /\ tc_tree' \subseteq Addrs
    BY Zenon, <1>0, <1>1, <1>2 DEF TypeOK
  <2>9. validity_timer' \subseteq Addrs /\ edge_gc_timer' \subseteq Addrs
    BY Zenon, <1>0, <1>1 DEF TypeOK
  <2> QED BY <2>3, <2>4, <2>5, <2>6, <2>7, <2>8, <2>9 DEF TypeOK, EdgeMaps, PrefixSets
<1>9. validity_timer' \subseteq validity_timer \cup {o}
      /\ edge_gc_timer' \subseteq edge_gc_timer \cup {o}
      /\ tc_myself' \notin validity_timer' \cup edge_gc_timer'
  BY Zenon, <1>1 DEF DatabaseConsistent, OwnedByTree, AcceptTc, Accepted
<1> HIDE DEF new, old
<1> QED BY Zenon, <1>1, <1>4, <1>5, <1>6, <1>8, <1>9, EdgesStep

LEMMA ShutdownStep ==
  ASSUME DatabaseConsistent, NEW o \in Addrs, NEW seq \in SentSeqnos, NEW ansn \in SentAnsns,
         ShutdownTc(o, seq, ansn)
  PROVE  DatabaseConsistent'
<1>1. /\ o # tc_myself /\ tc_myself' = tc_myself
      /\ DeleteEntry(o, edge, edge_inv, Added(o).refcount, Added(o).prefix)
  BY DEF ShutdownTc, Accepted
<1> QED BY <1>1, DeleteStep

LEMMA ExpireStep ==
  ASSUME DatabaseConsistent, NEW o \in Addrs, olsr_expire_tc_entry(o)
  PROVE  DatabaseConsistent'
<1>1. o \in tc_tree /\ o # tc_myself
  BY DEF DatabaseConsistent, OwnedByTree, olsr_expire_tc_entry
<1>2. refcount = Added(o).refcount /\ prefix_tree = Added(o).prefix
  BY <1>1 DEF Added
<1>3. DeleteEntry(o, edge, edge_inv, refcount, prefix_tree) /\ tc_myself' = tc_myself
  BY DEF olsr_expire_tc_entry
<1> QED BY <1>1, <1>2, <1>3, DeleteStep

LEMMA EdgeGcStep ==
  ASSUME DatabaseConsistent, NEW o \in Addrs, olsr_expire_tc_edge_gc(o)
  PROVE  DatabaseConsistent'
<1> DEFINE old == {b \in Edges(o) : SEQNO_GREATER_THAN(hdr[o].ansn, edge[o][b])}
           none == {}
<1>0. TypeOK BY DEF DatabaseConsistent
<1>1. /\ o \in edge_gc_timer
      /\ edge_gc_timer' = edge_gc_timer \ {o}
      /\ edge' = [edge EXCEPT ![o] = [b \in Addrs |->
                    IF b \in old THEN NoEdge ELSE edge[o][b]]]
      /\ edge_inv' = DeletedInverse(edge_inv, o, old)
      /\ refcount' = [refcount EXCEPT ![o] = refcount[o] - Cardinality(old)]
      /\ UNCHANGED <<tc_myself, tc_tree, hdr, prefix_tree, validity_timer>>
  BY <1>0 DEF olsr_expire_tc_edge_gc, TypeOK
<1>2. o \in tc_tree /\ o # tc_myself BY Zenon, <1>1 DEF DatabaseConsistent, OwnedByTree
<1>3. /\ Added(o).tree = tc_tree /\ Added(o).refcount = refcount
      /\ Added(o).prefix = prefix_tree
  BY <1>2 DEF Added
<1>4. /\ Edges(o) \in SUBSET Addrs
      /\ \A b \in Addrs : b \in Edges(o) <=> edge[o][b] # NoEdge
  BY <1>0, EdgesType
<1>5. old \in SUBSET Edges(o) OBVIOUS
<1>6. EdgeStep(edge, edge', o, none, old)
  <2>1. \A c \in Addrs \ {o} : edge'[c] = edge[c] BY <1>0, <1>1 DEF TypeOK
  <2>2. edge'[o] = [b \in Addrs |-> IF b \in old THEN NoEdge ELSE edge[o][b]]
    BY <1>0, <1>1 DEF TypeOK
  <2> HIDE DEF old
  <2> QED BY <2>1, <2>2 DEF EdgeStep
<1>7. Cardinality(none) = 0 BY FS_EmptySet
<1>8. /\ Cardinality(Edges(o)) \in Nat /\ Cardinality(old) \in Nat
      /\ Cardinality(Edges(o)) - Cardinality(old) \in Nat
  <2> DEFINE T == Edges(o) \ old
  <2>1. SetStep(Edges(o), none, old, T) BY <1>4, <1>5 DEF SetStep
  <2> HIDE DEF none, old, T
  <2> QED BY <1>7, <2>1, CountStep
<1>9. TypeOK'
  <2>1. refcount' \in [Addrs -> Nat]
    <3>1. prefix_tree[o] \in PrefixSets BY <1>0 DEF TypeOK, PrefixSets
    <3>2. Cardinality(prefix_tree[o]) \in Nat BY <3>1, PrefixesFinite
    <3>3. refcount[o] = 1 + Cardinality(Edges(o)) + Cardinality(prefix_tree[o])
      BY <1>2 DEF DatabaseConsistent, RefcountExact
    <3> HIDE DEF old
    <3>4. refcount[o] - Cardinality(old) \in Nat BY <1>8, <3>2, <3>3
    <3> QED BY <1>0, <1>1, <3>4 DEF TypeOK
  <2>2. edge' \in EdgeMaps
    <3> HIDE DEF old
    <3> QED BY <1>0, <1>1 DEF TypeOK, EdgeMaps
  <2>3. edge_inv' \subseteq Addrs \X Addrs BY Zenon, <1>0, <1>1 DEF TypeOK, DeletedInverse
  <2> QED BY <1>0, <1>1, <2>1, <2>2, <2>3 DEF TypeOK, EdgeMaps
<1>10. edge_inv' = DeletedInverse(AddedInverse(edge_inv, edge, o, none), o, old)
  BY Zenon, <1>1 DEF AddedInverse
<1>11. refcount' = [Added(o).refcount EXCEPT
                      ![o] = Added(o).refcount[o] + Cardinality(none) - Cardinality(old)]
  <2>1. refcount[o] \in Nat BY <1>0 DEF TypeOK
  <2> HIDE DEF none, old
  <2>2. refcount[o] + Cardinality(none) - Cardinality(old) = refcount[o] - Cardinality(old)
    BY <1>7, <1>8, <2>1
  <2> QED BY <1>1, <1>3, <2>2, ZenonT(60)
<1>12. /\ none \in SUBSET Addrs /\ none \cap Edges(o) = {}
       /\ validity_timer' \subseteq validity_timer \cup {o}
       /\ edge_gc_timer' \subseteq edge_gc_timer \cup {o}
       /\ tc_myself' \notin validity_timer' \cup edge_gc_timer'
       /\ tc_tree' = Added(o).tree /\ prefix_tree' = Added(o).prefix
  BY Zenon, <1>1, <1>3 DEF DatabaseConsistent, OwnedByTree
<1> HIDE DEF none, old
<1> QED BY Zenon, <1>5, <1>6, <1>9, <1>10, <1>11, <1>12, EdgesStep

LEMMA OwnEdgesStep ==
  ASSUME DatabaseConsistent, NEW up \in SUBSET (Addrs \ {tc_myself}),
         NEW down \in SUBSET (Addrs \ {tc_myself}), up \cap down = {},
         UpdateOwnEdges(up, down)
  PROVE  DatabaseConsistent'
<1> DEFINE o == tc_myself
           new == up \ Edges(o)
           old == down \cap Edges(o)
<1>0. TypeOK BY DEF DatabaseConsistent
<1>1. /\ edge' = [edge EXCEPT ![o] = [b \in Addrs |->
                   IF b \in new THEN 0 ELSE IF b \in old THEN NoEdge ELSE edge[o][b]]]
      /\ edge_inv' = DeletedInverse(AddedInverse(edge_inv, edge, o, new), o, old)
      /\ refcount' = [refcount EXCEPT
                        ![o] = refcount[o] + Cardinality(new) - Cardinality(old)]
      /\ UNCHANGED <<tc_myself, tc_tree, hdr, prefix_tree, validity_timer, edge_gc_timer>>
  BY <1>0 DEF UpdateOwnEdges, TypeOK
<1>2. o \in tc_tree /\ o \in Addrs BY <1>0 DEF TypeOK
<1>3. /\ Added(o).tree = tc_tree /\ Added(o).refcount = refcount
      /\ Added(o).prefix = prefix_tree
  BY <1>2 DEF Added
<1>4. /\ Edges(o) \in SUBSET Addrs
      /\ \A b \in Addrs : b \in Edges(o) <=> edge[o][b] # NoEdge
  BY <1>0, <1>2, EdgesType
<1>5. /\ old \in SUBSET Edges(o) /\ new \in SUBSET Addrs
      /\ new \cap Edges(o) = {} /\ new \cap old = {}
  OBVIOUS
<1>6. 0 \in Seqnos /\ 0 # NoEdge BY DEF Seqnos, SEQ_SPACE
<1>7. EdgeStep(edge, edge', o, new, old)
  <2> HIDE DEF o, new, old
  <2>1. \A c \in Addrs \ {o} : edge'[c] = edge[c] BY Zenon, <1>0, <1>1 DEF TypeOK
  <2>2. edge'[o] = [b \in Addrs |->
                   IF b \in new THEN 0 ELSE IF b \in old THEN NoEdge ELSE edge[o][b]]
    BY Zenon, <1>0, <1>1, <1>2 DEF TypeOK
  <2> QED BY <1>6, <2>1, <2>2 DEF EdgeStep
<1>8. /\ Cardinality(Edges(o)) \in Nat /\ Cardinality(new) \in Nat /\ Cardinality(old) \in Nat
      /\ Cardinality(Edges(o)) + Cardinality(new) - Cardinality(old) \in Nat
  <2> DEFINE T == (Edges(o) \cup new) \ old
  <2>1. SetStep(Edges(o), new, old, T) BY <1>4, <1>5 DEF SetStep
  <2> HIDE DEF new, old, T
  <2>2. /\ Cardinality(Edges(o)) \in Nat /\ Cardinality(new) \in Nat /\ Cardinality(old) \in Nat
        /\ Cardinality(T) = Cardinality(Edges(o)) + Cardinality(new) - Cardinality(old)
        /\ Cardinality(T) \in Nat
    BY <2>1, CountStep
  <2> QED BY <2>2
<1>9. TypeOK'
  <2> HIDE DEF o, new, old
  <2>1. refcount' \in [Addrs -> Nat]
    <3>1. prefix_tree[o] \in PrefixSets BY <1>0, <1>2 DEF TypeOK, PrefixSets
    <3>2. Cardinality(prefix_tree[o]) \in Nat BY <3>1, PrefixesFinite
    <3>3. refcount[o] = 1 + Cardinality(Edges(o)) + Cardinality(prefix_tree[o])
      BY <1>2 DEF DatabaseConsistent, RefcountExact
    <3>4. refcount[o] + Cardinality(new) - Cardinality(old) \in Nat BY <1>8, <3>2, <3>3
    <3> QED BY <1>0, <1>1, <3>4, ZenonT(60) DEF TypeOK
  <2>2. edge' \in EdgeMaps BY Zenon, <1>0, <1>1, <1>2, <1>6 DEF TypeOK, EdgeMaps
  <2>3. edge_inv' \subseteq Addrs \X Addrs
    BY <1>0, <1>1, <1>2, <1>5 DEF TypeOK, DeletedInverse, AddedInverse
  <2> QED BY Zenon, <1>0, <1>1, <2>1, <2>2, <2>3 DEF TypeOK, EdgeMaps
<1>10. /\ validity_timer' \subseteq validity_timer \cup {o}
       /\ edge_gc_timer' \subseteq edge_gc_timer \cup {o}
       /\ tc_myself' \notin validity_timer' \cup edge_gc_timer'
       /\ tc_tree' = Added(o).tree /\ prefix_tree' = Added(o).prefix
       /\ refcount' = [Added(o).refcount EXCEPT
                         ![o] = Added(o).refcount[o] + Cardinality(new) - Cardinality(old)]
  BY Zenon, <1>1, <1>3 DEF DatabaseConsistent, OwnedByTree
<1> HIDE DEF o, new, old
<1> QED BY <1>1, <1>2, <1>5, <1>7, <1>9, <1>10, EdgesStep, ZenonT(60)

LEMMA InsertStep ==
  ASSUME DatabaseConsistent, NEW o \in Addrs \ {tc_myself}, NEW p \in Prefixes,
         olsr_insert_routing_table(o, p)
  PROVE  DatabaseConsistent'
<1> DEFINE at == Added(o)
<1>0. TypeOK BY DEF DatabaseConsistent
<1>1. /\ at.tree = tc_tree \cup {o}
      /\ at.refcount \in [Addrs -> Nat] /\ at.prefix \in [Addrs -> PrefixSets]
      /\ \A c \in Addrs \ {o} : at.refcount[c] = refcount[c] /\ at.prefix[c] = prefix_tree[c]
      /\ at.refcount[o] = 1 + Cardinality(Edges(o)) + Cardinality(at.prefix[o])
  BY AddedFacts
<1>2. /\ p \notin at.prefix[o]
      /\ tc_tree' = at.tree
      /\ prefix_tree' = [at.prefix EXCEPT ![o] = at.prefix[o] \cup {p}]
      /\ refcount' = [at.refcount EXCEPT ![o] = at.refcount[o] + 1]
      /\ UNCHANGED <<tc_myself, hdr, edge, edge_inv, validity_timer, edge_gc_timer>>
  BY DEF olsr_insert_routing_table
<1> HIDE DEF at
<1>3. /\ Cardinality(at.prefix[o] \cup {p}) = Cardinality(at.prefix[o]) + 1
      /\ Cardinality(at.prefix[o]) \in Nat
  BY <1>1, <1>2, PrefixesFinite, FS_AddElement, ZenonT(60)
<1>4. Edges(o)' = Edges(o) /\ Cardinality(Edges(o)) \in Nat
  BY <1>0, <1>2, EdgesType DEF Edges
<1>5. /\ prefix_tree'[o] = at.prefix[o] \cup {p}
      /\ refcount'[o] = at.refcount[o] + 1
      /\ prefix_tree' \in [Addrs -> PrefixSets] /\ refcount' \in [Addrs -> Nat]
      /\ \A c \in Addrs \ {o} : /\ prefix_tree'[c] = prefix_tree[c]
                                /\ refcount'[c] = refcount[c]
  BY <1>1, <1>2 DEF PrefixSets
<1>6. refcount'[o] = 1 + Cardinality(Edges(o)') + Cardinality(prefix_tree'[o])
  BY <1>1, <1>3, <1>4, <1>5
<1>7. TypeOK' BY Zenon, <1>0, <1>1, <1>2, <1>5 DEF TypeOK, PrefixSets
<1>8. Mutual(edge', edge_inv') BY Zenon, <1>2 DEF DatabaseConsistent, InverseEdgesMutual, Mutual
<1>9. /\ o \in tc_tree' /\ tc_tree' = tc_tree \cup {o}
      /\ tc_myself' \notin validity_timer' \cup edge_gc_timer'
  BY <1>1, <1>2 DEF DatabaseConsistent, OwnedByTree
<1> QED BY Zenon, <1>2, <1>5, <1>6, <1>7, <1>8, <1>9, OneEntryStep

LEMMA DeletePrefixStep ==
  ASSUME DatabaseConsistent, NEW o \in Addrs \ {tc_myself}, NEW p \in Prefixes,
         olsr_delete_routing_table(o, p)
  PROVE  DatabaseConsistent'
<1>0. TypeOK BY DEF DatabaseConsistent
<1>1. /\ o \in tc_tree /\ p \in prefix_tree[o]
      /\ prefix_tree' = [prefix_tree EXCEPT ![o] = prefix_tree[o] \ {p}]
      /\ refcount' = [refcount EXCEPT ![o] = refcount[o] - 1]
      /\ UNCHANGED <<tc_myself, tc_tree, hdr, edge, edge_inv, validity_timer, edge_gc_timer>>
  BY DEF olsr_delete_routing_table
<1>2. prefix_tree[o] \in PrefixSets BY <1>0 DEF TypeOK, PrefixSets
<1>3. /\ Cardinality(prefix_tree[o] \ {p}) = Cardinality(prefix_tree[o]) - 1
      /\ Cardinality(prefix_tree[o]) \in Nat
  BY <1>1, <1>2, PrefixesFinite, FS_RemoveElement, ZenonT(60)
<1>4. Edges(o)' = Edges(o) /\ Cardinality(Edges(o)) \in Nat
  BY Zenon, <1>0, <1>1, EdgesType DEF Edges
<1>5. refcount[o] = 1 + Cardinality(Edges(o)) + Cardinality(prefix_tree[o])
  BY Zenon, <1>1 DEF DatabaseConsistent, RefcountExact
<1>6. /\ prefix_tree'[o] = prefix_tree[o] \ {p}
      /\ refcount'[o] = refcount[o] - 1
      /\ \A c \in Addrs \ {o} : /\ prefix_tree'[c] = prefix_tree[c]
                                /\ refcount'[c] = refcount[c]
  BY <1>0, <1>1 DEF TypeOK
<1>7. refcount'[o] = 1 + Cardinality(Edges(o)') + Cardinality(prefix_tree'[o])
  BY <1>3, <1>4, <1>5, <1>6
<1>8. TypeOK'
  <2>1. refcount[o] - 1 \in Nat BY <1>3, <1>4, <1>5
  <2> QED BY <1>0, <1>1, <2>1 DEF TypeOK
<1>9. Mutual(edge', edge_inv') BY Zenon, <1>1 DEF DatabaseConsistent, InverseEdgesMutual, Mutual
<1>10. /\ o \in tc_tree' /\ tc_tree' = tc_tree \cup {o}
       /\ tc_myself' \notin validity_timer' \cup edge_gc_timer'
  BY <1>1 DEF DatabaseConsistent, OwnedByTree
<1> QED BY <1>1, <1>6, <1>7, <1>8, <1>9, <1>10, OneEntryStep

LEMMA ChangeMyselfStep ==
  ASSUME DatabaseConsistent, NEW a \in Addrs, olsr_change_myself_tc(a)
  PROVE  DatabaseConsistent'
<1>0. TypeOK BY DEF DatabaseConsistent
<1>m. PICK m \in Addrs : m = tc_myself BY <1>0 DEF TypeOK
<1> DEFINE D == Edges(m)
           none == {}
<1>1. /\ a \notin tc_tree
      /\ tc_myself' = a
      /\ tc_tree' = (tc_tree \ {m}) \cup {a}
      /\ edge' = [edge EXCEPT ![m] = [b \in Addrs |-> NoEdge]]
      /\ edge_inv' = DeletedInverse(edge_inv, m, D)
      /\ prefix_tree' = [prefix_tree EXCEPT ![m] = {}, ![a] = {OwnPrefix}]
      /\ refcount' = [refcount EXCEPT
           ![m] = refcount[m] - Cardinality(prefix_tree[m]) - Cardinality(D) - 1, ![a] = 2]
      /\ validity_timer' = validity_timer \ {m}
      /\ edge_gc_timer' = edge_gc_timer \ {m}
      /\ hdr' = [hdr EXCEPT ![m] = ZeroHeader]
  BY <1>0, <1>m DEF olsr_change_myself_tc, TypeOK
<1>2. m \in tc_tree /\ a # m BY <1>0, <1>m, <1>1 DEF TypeOK
<1>3. /\ D \in SUBSET Addrs /\ Cardinality(D) \in Nat
      /\ \A b \in Addrs : b \in D <=> edge[m][b] # NoEdge
  BY <1>0, <1>2, EdgesType
<1>4. prefix_tree[m] \in PrefixSets BY <1>0, <1>2 DEF TypeOK, PrefixSets
<1>5. Cardinality(prefix_tree[m]) \in Nat BY <1>4, PrefixesFinite
<1>6. refcount[m] = 1 + Cardinality(D) + Cardinality(prefix_tree[m])
  BY <1>2 DEF DatabaseConsistent, RefcountExact
<1> HIDE DEF D
<1>7. refcount[m] - Cardinality(prefix_tree[m]) - Cardinality(D) - 1 = 0
  BY <1>3, <1>5, <1>6
<1>8. /\ refcount' \in [Addrs -> Nat]
      /\ refcount'[m] = 0 /\ refcount'[a] = 2
      /\ \A c \in Addrs \ {a, m} : refcount'[c] = refcount[c]
  BY <1>0, <1>1, <1>2, <1>7 DEF TypeOK
<1>9. /\ prefix_tree' \in [Addrs -> PrefixSets]
      /\ prefix_tree'[m] = {} /\ prefix_tree'[a] = {OwnPrefix}
      /\ \A c \in Addrs \ {a, m} : prefix_tree'[c] = prefix_tree[c]
  BY <1>0, <1>1, <1>2 DEF TypeOK, PrefixSets
<1>10. TypeOK'
  <2>1. hdr' \in [Addrs -> Headers]
    <3>1. ZeroHeader \in Headers BY DEF Headers, ZeroHeader, Seqnos, SEQ_SPACE
    <3> QED BY <1>0, <1>1, <3>1 DEF TypeOK
  <2>2. edge' \in EdgeMaps BY <1>0, <1>1 DEF TypeOK, EdgeMaps
  <2>3. edge_inv' \subseteq Addrs \X Addrs BY Zenon, <1>0, <1>1 DEF TypeOK, DeletedInverse
  <2> QED BY <1>0, <1>1, <1>8, <1>9, <2>1, <2>2, <2>3, ZenonT(60) DEF TypeOK, EdgeMaps, PrefixSets
<1>11. /\ Edges(m)' = {} /\ Edges(a)' = {}
       /\ \A c \in Addrs \ {m} : Edges(c)' = Edges(c)
  <2>1. edge'[m] = [b \in Addrs |-> NoEdge] BY <1>0, <1>1, <1>2 DEF TypeOK
  <2>2. {b \in Addrs : edge'[m][b] # NoEdge} = {} BY <2>1
  <2>4. \A c \in Addrs \ {m} : edge'[c] = edge[c] BY <1>0, <1>1 DEF TypeOK
  <2>5. \A c \in Addrs \ {m} : Edges(c)' = Edges(c) BY <2>4 DEF Edges
  <2>6. Edges(a) = {} BY <1>1 DEF DatabaseConsistent, OwnedByTree
  <2> QED BY <1>2, <2>2, <2>5, <2>6 DEF Edges
<1>12. InverseEdgesMutual'
  <2>1. Mutual(edge, edge_inv) BY Zenon DEF DatabaseConsistent, InverseEdgesMutual, Mutual
  <2>2. EdgeStep(edge, edge', m, none, D)
    BY <1>0, <1>1, <1>2, <1>3 DEF EdgeStep, TypeOK
  <2>3. AddedInverse(edge_inv, edge, m, none) = edge_inv BY DEF AddedInverse
  <2>4. \A b \in D : edge[m][b] # NoEdge BY <1>3
  <2>5. none \in SUBSET Addrs /\ none \cap D = {} /\ \A b \in none : edge[m][b] = NoEdge
    OBVIOUS
  <2> HIDE DEF none
  <2>6. Mutual(edge', DeletedInverse(AddedInverse(edge_inv, edge, m, none), m, D))
    BY Zenon, <1>2, <1>3, <2>1, <2>2, <2>4, <2>5, MutualStep
  <2> QED BY Zenon, <1>1, <2>3, <2>6 DEF InverseEdgesMutual, Mutual
<1>13. RefcountExact'
  <2>1. Cardinality(Edges(a)') = 0 BY <1>11, FS_EmptySet
  <2>2. Cardinality(prefix_tree'[a]) = 1
    <3>1. Cardinality({OwnPrefix}) = 1 BY FS_Singleton
    <3> QED BY <1>9, <3>1
  <2>3. refcount'[a] = 1 + Cardinality(Edges(a)') + Cardinality(prefix_tree'[a])
    BY <1>8, <2>1, <2>2
  <2>4. \A c \in Addrs \ {a, m} : c \in tc_tree' <=> c \in tc_tree BY <1>1
  <2>5. m \notin tc_tree' /\ a \in tc_tree' BY <1>1, <1>2
  <2>6. ASSUME NEW c \in Addrs
        PROVE  refcount'[c] = IF c \in tc_tree'
                 THEN 1 + Cardinality(Edges(c)') + Cardinality(prefix_tree'[c]) ELSE 0
    <3>1. CASE c = m BY <1>8, <2>5, <3>1
    <3>2. CASE c = a BY <2>3, <2>5, <3>2
    <3>3. CASE c \notin {a, m}
      <4>1. /\ refcount'[c] = refcount[c] /\ prefix_tree'[c] = prefix_tree[c]
            /\ Edges(c)' = Edges(c) /\ (c \in tc_tree' <=> c \in tc_tree)
        BY Zenon, <1>8, <1>9, <1>11, <2>4, <3>3
      <4>2. refcount[c] = IF c \in tc_tree
                 THEN 1 + Cardinality(Edges(c)) + Cardinality(prefix_tree[c]) ELSE 0
        BY DEF DatabaseConsistent, RefcountExact
      <4> QED BY <4>1, <4>2
    <3> QED BY <3>1, <3>2, <3>3
  <2> QED BY Zenon, <2>6 DEF RefcountExact
<1>14. OwnedByTree'
  <2>1. a \notin validity_timer \cup edge_gc_timer
    BY <1>1 DEF DatabaseConsistent, OwnedByTree
  <2> QED BY <1>1, <1>2, <1>9, <1>11, <2>1 DEF DatabaseConsistent, OwnedByTree
<1> QED BY <1>10, <1>12, <1>13, <1>14 DEF DatabaseConsistent

LEMMA InitInv == Init => DatabaseConsistent
<1> SUFFICES ASSUME Init PROVE DatabaseConsistent OBVIOUS
<1> USE DEF Init
<1>1. TypeOK BY DEF TypeOK, Headers, ZeroHeader, Seqnos, SEQ_SPACE
<1>2. InverseEdgesMutual BY DEF InverseEdgesMutual
<1>3. \A c \in Addrs : Edges(c) = {} BY DEF Edges
<1>4. OwnedByTree BY <1>3 DEF OwnedByTree
<1>5. RefcountExact
  <2>1. \A c \in Addrs : Cardinality(Edges(c)) = 0 BY Zenon, <1>3, FS_EmptySet
  <2>2. Cardinality(prefix_tree[tc_myself]) = 1
    <3>1. Cardinality({OwnPrefix}) = 1 BY FS_Singleton, ZenonT(60)
    <3>2. prefix_tree[tc_myself] = {OwnPrefix} OBVIOUS
    <3> QED BY <3>1, <3>2
  <2> QED BY <2>1, <2>2 DEF RefcountExact
<1> QED BY <1>1, <1>2, <1>4, <1>5 DEF DatabaseConsistent

LEMMA NextInv == DatabaseConsistent /\ [Next]_vars => DatabaseConsistent'
<1> SUFFICES ASSUME DatabaseConsistent, [Next]_vars PROVE DatabaseConsistent' OBVIOUS
<1>1. ASSUME NEW o \in Addrs, NEW seq \in SentSeqnos, NEW ansn \in SentAnsns,
             IgnoreTc(o, seq, ansn)
      PROVE  DatabaseConsistent'
  BY <1>1, IgnoreStep
<1>2. ASSUME NEW o \in Addrs, NEW seq \in SentSeqnos, NEW ansn \in SentAnsns,
             ShutdownTc(o, seq, ansn)
      PROVE  DatabaseConsistent'
  BY <1>2, ShutdownStep
<1>3. ASSUME NEW o \in Addrs, NEW seq \in SentSeqnos, NEW ansn \in SentAnsns,
             NEW nbrs \in SUBSET (Addrs \ {o}),
             NEW border \in {NoBorder} \cup SUBSET Addrs,
             AcceptTc(o, seq, ansn, nbrs, border)
      PROVE  DatabaseConsistent'
  BY <1>3, AcceptStep
<1>4. ASSUME NEW o \in Addrs, olsr_expire_tc_entry(o) PROVE DatabaseConsistent'
  BY <1>4, ExpireStep
<1>5. ASSUME NEW o \in Addrs, olsr_expire_tc_edge_gc(o) PROVE DatabaseConsistent'
  BY <1>5, EdgeGcStep
<1>6. ASSUME NEW up \in SUBSET (Addrs \ {tc_myself}),
             NEW down \in SUBSET (Addrs \ {tc_myself}), up \cap down = {},
             UpdateOwnEdges(up, down)
      PROVE  DatabaseConsistent'
  BY <1>6, OwnEdgesStep
<1>7. ASSUME NEW o \in Addrs \ {tc_myself}, NEW p \in Prefixes,
             olsr_insert_routing_table(o, p)
      PROVE  DatabaseConsistent'
  BY <1>7, InsertStep
<1>8. ASSUME NEW o \in Addrs \ {tc_myself}, NEW p \in Prefixes,
             olsr_delete_routing_table(o, p)
      PROVE  DatabaseConsistent'
  BY <1>8, DeletePrefixStep
<1>9. ASSUME NEW a \in Addrs, olsr_change_myself_tc(a) PROVE DatabaseConsistent'
  BY <1>9, ChangeMyselfStep
<1>10. CASE UNCHANGED vars
  <2>1. UNCHANGED <<tc_myself, tc_tree, hdr, edge, edge_inv, prefix_tree, refcount,
                    validity_timer, edge_gc_timer>> BY <1>10 DEF vars
  <2>2. \A c \in Addrs : Edges(c)' = Edges(c) BY <2>1 DEF Edges
  <2> QED BY <2>1, <2>2
          DEF DatabaseConsistent, TypeOK, InverseEdgesMutual, RefcountExact, OwnedByTree
<1> QED BY <1>1, <1>2, <1>3, <1>4, <1>5, <1>6, <1>7, <1>8, <1>9, <1>10 DEF Next

\* The conjunction of the four properties is inductive.
THEOREM Invariance == Spec => []DatabaseConsistent
BY InitInv, NextInv, PTL DEF Spec

\* No message header, edge or counter ever leaves its range.
THEOREM TypeCorrect == Spec => []TypeOK
<1>1. DatabaseConsistent => TypeOK BY DEF DatabaseConsistent
<1> QED BY <1>1, Invariance, PTL

\* Two edge_inv pointers join every pair of opposite edges, and no pointer
\* survives the edge it points to.
THEOREM InverseExact == Spec => []InverseEdgesMutual
<1>1. DatabaseConsistent => InverseEdgesMutual BY DEF DatabaseConsistent
<1> QED BY <1>1, Invariance, PTL

\* Every tc_entry is freed with its last reference.
THEOREM CountersExact == Spec => []RefcountExact
<1>1. DatabaseConsistent => RefcountExact BY DEF DatabaseConsistent
<1> QED BY <1>1, Invariance, PTL

\* No timer, edge or rt_path outlives its tc_entry.
THEOREM NothingOutlives == Spec => []OwnedByTree
<1>1. DatabaseConsistent => OwnedByTree BY DEF DatabaseConsistent
<1> QED BY <1>1, Invariance, PTL
=============================================================================
