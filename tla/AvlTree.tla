------------------------------ MODULE AvlTree ------------------------------
(***************************************************************************)
(* The balanced tree of src/common/avl.c that holds every table of the     *)
(* daemon: nodes linked as a tree by parent, left and right, and as a list *)
(* in key order by next and prev.  Nodes with equal keys form a run of the *)
(* list whose first one, the leader, is the only one in the tree.          *)
(*                                                                         *)
(* The tree is a record; t.left[n] is n->left and NIL the null pointer.    *)
(* The fields of a node outside the tree, which avl_insert sets before it  *)
(* reads them, are kept at their initial values.                           *)
(*                                                                         *)
(* Definitions named X_Word are mutated forms of X.                        *)
(***************************************************************************)
EXTENDS Integers, Sequences, FiniteSets, SequencesExt, FiniteSetsExt

CONSTANT AV_CONFIGS  \* a sequence of [keys: the key of each node, dup: AVL_DUP,
                     \* ordered: bound, the nodes enter in their order]

VARIABLES
  av_cfg,
  av_tree,
  av_ref      \* the nodes that were put in, as the list should hold them

av_vars == <<av_cfg, av_tree, av_ref>>

AvKeys == AV_CONFIGS[av_cfg].keys
AvNodes == 1..Len(AvKeys)
NIL == 0
AvNone == [n \in AvNodes |-> NIL]

avl_init ==
  [root |-> NIL, first |-> NIL, last |-> NIL, count |-> 0,
   parent |-> AvNone, left |-> AvNone, right |-> AvNone, next |-> AvNone, prev |-> AvNone,
   balance |-> [n \in AvNodes |-> 0], leader |-> [n \in AvNodes |-> FALSE]]

\* p->x = v, nothing when p is null.
AvPut(f, p, v) == IF p = NIL THEN f ELSE [f EXCEPT ![p] = v]

\* Where old hung below p, or at the root, new hangs now.
AvReplace(t, p, old, new) ==
  [t EXCEPT !.root = IF p = NIL THEN new ELSE @,
            !.left = IF p # NIL /\ @[p] = old THEN [@ EXCEPT ![p] = new] ELSE @,
            !.right = IF p # NIL /\ t.left[p] # old THEN [@ EXCEPT ![p] = new] ELSE @]

----------------------------------------------------------------------------
RECURSIVE avl_find_rec(_, _, _), post_insert(_, _), avl_post_delete(_, _)
RECURSIVE avl_local_min(_, _), avl_delete_worker(_, _), AvLast(_, _)

avl_find_rec(t, n, key) ==
  IF key < AvKeys[n] /\ t.left[n] # NIL THEN avl_find_rec(t, t.left[n], key)
  ELSE IF key > AvKeys[n] /\ t.right[n] # NIL THEN avl_find_rec(t, t.right[n], key)
  ELSE n

avl_find(t, key) ==
  IF t.root = NIL THEN NIL
  ELSE LET n == avl_find_rec(t, t.root, key) IN IF AvKeys[n] = key THEN n ELSE NIL

avl_rotate_right(t, n) ==
  LET c == t.left[n]
      p == t.parent[n]
      inner == t.right[c]
      bn == t.balance[n] + 1 - Min({t.balance[c], 0})
      hung == AvReplace(t, p, n, c)
  IN [hung EXCEPT
        !.parent = AvPut([@ EXCEPT ![c] = p, ![n] = c], inner, n),
        !.left[n] = inner, !.right[c] = n,
        !.balance = [@ EXCEPT ![n] = bn, ![c] = @ + 1 + Max({bn, 0})]]

avl_rotate_left(t, n) ==
  LET c == t.right[n]
      p == t.parent[n]
      inner == t.left[c]
      bn == t.balance[n] - (1 + Max({t.balance[c], 0}))
      hung == AvReplace(t, p, n, c)
  IN [hung EXCEPT
        !.parent = AvPut([@ EXCEPT ![c] = p, ![n] = c], inner, n),
        !.right[n] = inner, !.left[c] = n,
        !.balance = [@ EXCEPT ![n] = bn, ![c] = @ - (1 - Min({bn, 0}))]]

\* The child on the side d, -1 for the left one, is lifted above n.
AvLift(t, n, d) == IF d = -1 THEN avl_rotate_right(t, n) ELSE avl_rotate_left(t, n)

\* n has grown by one level.
post_insert(t, n) ==
  LET p == t.parent[n]
      d == IF n = t.left[p] THEN -1 ELSE 1
      b == t.balance[p] + d
      u == [t EXCEPT !.balance[p] = b]
  IN IF p = NIL THEN t
     ELSE IF b = 0 THEN u
     ELSE IF b = d THEN post_insert(u, p)
     ELSE IF u.balance[n] = d THEN AvLift(u, p, d)
     ELSE AvLift(AvLift(u, n, -d), p, d)

----------------------------------------------------------------------------
\* The list.

avl_insert_before(t, pos, n) ==
  LET q == t.prev[pos]
  IN [t EXCEPT !.next = [AvPut(@, q, n) EXCEPT ![n] = pos],
               !.prev = [@ EXCEPT ![n] = q, ![pos] = n],
               !.first = IF q = NIL THEN n ELSE @, !.count = @ + 1]

avl_insert_after(t, pos, n) ==
  LET q == t.next[pos]
  IN [t EXCEPT !.prev = [AvPut(@, q, n) EXCEPT ![n] = pos],
               !.next = [@ EXCEPT ![n] = q, ![pos] = n],
               !.last = IF q = NIL THEN n ELSE @, !.count = @ + 1]

avl_remove(t, n) ==
  [t EXCEPT !.next = AvPut(@, t.prev[n], t.next[n]),
            !.prev = AvPut(@, t.next[n], t.prev[n]),
            !.first = IF t.prev[n] = NIL THEN t.next[n] ELSE @,
            !.last = IF t.next[n] = NIL THEN t.prev[n] ELSE @,
            !.count = @ - 1]

\* The last node of the run that n leads.
AvLast(t, n) ==
  IF t.next[n] # NIL /\ ~t.leader[t.next[n]] THEN AvLast(t, t.next[n]) ELSE n

AvHangLeft(t, node, new) ==
  [avl_insert_before(t, node, new) EXCEPT
     !.parent[new] = node, !.left[node] = new, !.balance[node] = @ - 1]

AvHangRight(t, node, new) ==
  [avl_insert_after(t, AvLast(t, node), new) EXCEPT
     !.parent[new] = node, !.right[node] = new, !.balance[node] = @ + 1]

avl_insert(t, new) ==
  LET u == [t EXCEPT !.leader[new] = TRUE]
      node == avl_find_rec(u, u.root, AvKeys[new])
  IN IF t.root = NIL THEN [u EXCEPT !.root = new, !.first = new, !.last = new, !.count = 1]
     ELSE IF AvKeys[new] = AvKeys[node]
     THEN IF AV_CONFIGS[av_cfg].dup THEN avl_insert_after(t, AvLast(t, node), new) ELSE t
     ELSE IF u.balance[node] = 1 THEN AvHangLeft(u, node, new)
     ELSE IF u.balance[node] = -1 THEN AvHangRight(u, node, new)
     ELSE IF AvKeys[new] < AvKeys[node] THEN post_insert(AvHangLeft(u, node, new), node)
     ELSE post_insert(AvHangRight(u, node, new), node)

----------------------------------------------------------------------------
\* The subtree of p on the side -d has lost a level.
AvShrunk(t, p, d) ==
  LET b == t.balance[p] + d
      u == [t EXCEPT !.balance[p] = b]
      c == IF d = 1 THEN u.right[p] ELSE u.left[p]
      v == AvLift(IF u.balance[c] = -d THEN AvLift(u, c, -d) ELSE u, p, d)
  IN IF b = 0 THEN avl_post_delete(u, p)
     ELSE IF b = d THEN u
     ELSE IF u.balance[c] = 0 THEN v
     ELSE avl_post_delete(v, v.parent[p])

avl_post_delete(t, n) ==
  LET p == t.parent[n]
  IN IF p = NIL THEN t ELSE AvShrunk(t, p, IF n = t.left[p] THEN 1 ELSE -1)

avl_local_min(t, n) == IF t.left[n] = NIL THEN n ELSE avl_local_min(t, t.left[n])

\* Another node takes the place of n in the tree.
AvTakePlace(t, n, by) ==
  LET u == AvReplace(t, t.parent[n], n, by)
  IN [u EXCEPT !.parent = AvPut(AvPut([@ EXCEPT ![by] = t.parent[n]], t.left[n], by), t.right[n], by),
               !.left[by] = t.left[n], !.right[by] = t.right[n],
               !.balance[by] = t.balance[n]]

avl_delete_worker(t, n) ==
  LET p == t.parent[n]
      l == t.left[n]
      r == t.right[n]
      only == IF l = NIL THEN r ELSE l
      least == avl_local_min(t, r)
  IN IF l = NIL /\ r = NIL
     THEN IF p = NIL THEN [t EXCEPT !.root = NIL]
          ELSE AvShrunk(AvReplace(t, p, n, NIL), p, IF t.left[p] = n THEN 1 ELSE -1)
     ELSE IF l = NIL \/ r = NIL
     THEN avl_post_delete([AvReplace(t, p, n, only) EXCEPT !.parent[only] = p], only)
     ELSE AvTakePlace(avl_delete_worker(t, least), n, least)

avl_delete(t, n) ==
  LET next == t.next[n]
      u == IF ~t.leader[n] THEN t
           ELSE IF next # NIL /\ ~t.leader[next]
           THEN [AvTakePlace(t, n, next) EXCEPT !.leader[next] = TRUE]
           ELSE avl_delete_worker(t, n)
  IN avl_remove(u, n)

\* The fields of a node that has left the tree are not read again.
AvForget(t, n) ==
  [t EXCEPT !.parent[n] = NIL, !.left[n] = NIL, !.right[n] = NIL, !.next[n] = NIL,
            !.prev[n] = NIL, !.balance[n] = 0, !.leader[n] = FALSE]

----------------------------------------------------------------------------
AvInitFor(c) ==
  /\ av_cfg = c
  /\ av_tree = avl_init
  /\ av_ref = <<>>

AvInit == \E c \in 1..Len(AV_CONFIGS) : AvInitFor(c)

\* What a sorted list does with a new node: equal keys stay in order of arrival.
AvRefInsert(n) ==
  LET at == Cardinality({i \in 1..Len(av_ref) : AvKeys[av_ref[i]] <= AvKeys[n]})
      known == \E i \in 1..Len(av_ref) : AvKeys[av_ref[i]] = AvKeys[n]
  IN IF known /\ ~AV_CONFIGS[av_cfg].dup THEN av_ref ELSE InsertAt(av_ref, at + 1, n)

AvInsert ==
  \E n \in AvNodes \ ToSet(av_ref) :
    /\ AV_CONFIGS[av_cfg].ordered => ToSet(av_ref) = 1..(n - 1)
    /\ av_tree' = avl_insert(av_tree, n)
    /\ av_ref' = AvRefInsert(n)
    /\ UNCHANGED av_cfg

AvDelete ==
  \E n \in ToSet(av_ref) :
    /\ av_tree' = AvForget(avl_delete(av_tree, n), n)
    /\ av_ref' = SelectSeq(av_ref, LAMBDA x : x # n)
    /\ UNCHANGED av_cfg

AvNext == AvInsert \/ AvDelete

AvSpec == AvInit /\ [][AvNext]_av_vars

----------------------------------------------------------------------------
\* avl_walk_first and avl_walk_next: the list holds exactly the nodes that were put in
\* and not taken out, in the order of their keys and of their arrival.
AvWalk ==
  LET n == Len(av_ref)
  IN /\ av_tree.count = n
     /\ av_tree.first = IF n = 0 THEN NIL ELSE av_ref[1]
     /\ av_tree.last = IF n = 0 THEN NIL ELSE av_ref[n]
     /\ \A i \in 1..n :
          /\ av_tree.next[av_ref[i]] = IF i = n THEN NIL ELSE av_ref[i + 1]
          /\ av_tree.prev[av_ref[i]] = IF i = 1 THEN NIL ELSE av_ref[i - 1]

RECURSIVE AvHeight(_), AvBalancedBelow(_)
AvHeight(n) ==
  IF n = NIL THEN 0 ELSE 1 + Max({AvHeight(av_tree.left[n]), AvHeight(av_tree.right[n])})

AvBalancedBelow(n) ==
  n # NIL =>
    /\ av_tree.balance[n] = AvHeight(av_tree.right[n]) - AvHeight(av_tree.left[n])
    /\ av_tree.balance[n] \in -1..1
    /\ AvBalancedBelow(av_tree.left[n]) /\ AvBalancedBelow(av_tree.right[n])

\* post_insert and avl_post_delete: after every operation no two subtrees of a node
\* differ by more than one level and every balance says by how much they do.
AvBalanced == AvBalancedBelow(av_tree.root)

\* avl_find: every key in the tree is found, at the node that came first, and no other
\* key; the descent meets only linked nodes.
AvFound ==
  \A k \in ToSet(AvKeys) :
    avl_find(av_tree, k) =
      LET same == SelectSeq(av_ref, LAMBDA n : AvKeys[n] = k)
      IN IF same = <<>> THEN NIL ELSE same[1]

\* avl_insert and avl_delete: after every operation the list, the balances and the
\* descents agree with the nodes that are in the tree.
AvWellFormed == AvWalk /\ AvBalanced /\ AvFound
=============================================================================
