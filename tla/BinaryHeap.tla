------------------------------ MODULE BinaryHeap ------------------------------
(***************************************************************************)
(* The binary heap of common/heap.c: nodes that live inside the tc_entries, *)
(* linked by parent, left and right pointers, and a last_node pointer from  *)
(* which the place of an insertion is found by climbing and descending.     *)
(* The heap is a record; the pointers are functions from nodes to nodes, so *)
(* heap["left"][n] is n->left.  It is used the way olsr_spf_run_full does:  *)
(* within one run a vertex enters the heap at most once.                    *)
(*                                                                          *)
(* Definitions named after the next one with a suffix are mutated forms.    *)
(***************************************************************************)
EXTENDS Integers, FiniteSets

CONSTANTS
  MaxNodes,       \* the vertices are 1 .. MaxNodes
  Keys,           \* path costs
  StarNodes,      \* in a star, whose leaves enter before one leaves and are
  StarKeys        \* not improved, there are more vertices and fewer costs

HeapNodes == 1 .. StarNodes
HEAP_NULL == 0

VARIABLES
  star,           \* the topology is a star
  heap,
  key,            \* node -> its key while it is queued, else 0
  fresh,          \* the vertices that have not been queued in this run
  extracted       \* what the last heap_extract_min returned

heapVars == <<star, heap, key, fresh, extracted>>

Unlinked == [n \in HeapNodes |-> HEAP_NULL]

heap_init == [count |-> 0, root_node |-> HEAP_NULL, last_node |-> HEAP_NULL,
              parent |-> Unlinked, left |-> Unlinked, right |-> Unlinked]

HeapInitFor(s) ==
  /\ star = s
  /\ heap = heap_init
  /\ key = [n \in HeapNodes |-> 0]
  /\ fresh = IF s THEN HeapNodes ELSE 1 .. MaxNodes
  /\ extracted = HEAP_NULL

HeapInit == \E s \in BOOLEAN : HeapInitFor(s)
----------------------------------------------------------------------------
RECURSIVE Leftmost(_, _), Rightmost(_, _), ClimbFrom(_, _, _)

Leftmost(h, n) == IF h.left[n] = HEAP_NULL THEN n ELSE Leftmost(h, h.left[n])

Rightmost(h, n) == IF h.right[n] = HEAP_NULL THEN n ELSE Rightmost(h, h.right[n])

\* Climb from n as long as it is the child of its parent on this side.
ClimbFrom(h, n, side) ==
  IF h[side][h.parent[n]] = n THEN ClimbFrom(h, h.parent[n], side) ELSE n

\* heap_perfect_log2(N) = 0
PowerOfTwo(N) == \E l \in 0 .. N : N = 2^l

heap_find_parent_insert_nodeSibling(h) ==
  IF PowerOfTwo(h.count + 1) THEN Leftmost(h, h.root_node)
  ELSE IF h.count % 2 = 1
  THEN Leftmost(h, h.right[h.parent[h.parent[h.last_node]]])
  ELSE h.parent[h.last_node]

heap_find_parent_insert_node(h) ==
  LET N == h.count + 1
      aux == h.parent[ClimbFrom(h, h.last_node, "right")]
  IN IF PowerOfTwo(N) THEN Leftmost(h, h.root_node)
     ELSE IF N % 2 = 0
     THEN IF h.right[aux] = HEAP_NULL THEN aux ELSE Leftmost(h, h.right[aux])
     ELSE h.parent[h.last_node]

heap_find_last_node(h) ==
  LET N == h.count + 1
      aux == h.parent[ClimbFrom(h, h.last_node, "left")]
  IN IF PowerOfTwo(N) THEN Rightmost(h, h.root_node)
     ELSE IF N % 2 = 0 THEN Rightmost(h, h.left[aux])
     ELSE h.last_node

\* The pointers after node n and its child on this side have changed places.
Exchange(h, n, side) ==
  LET c == h[side][n]
      p == h.parent[n]
      sibling == IF side = "left" THEN h.right[n] ELSE h.left[n]
      Child(f) == [x \in HeapNodes |->
                     CASE x = n -> h[f][c]
                       [] x = c -> IF f = side THEN n ELSE sibling
                       [] x = p -> IF h[f][p] = n THEN c ELSE h[f][p]
                       [] OTHER -> h[f][x]]
  IN [h EXCEPT
        !.left = Child("left"),
        !.right = Child("right"),
        !.parent = [x \in HeapNodes |->
                      CASE x = n -> c
                        [] x = c -> p
                        [] x = sibling -> c
                        [] x \in {h.left[c], h.right[c]} -> n
                        [] OTHER -> h.parent[x]],
        !.root_node = IF p = HEAP_NULL THEN c ELSE h.root_node]

\* heap_swap_left and heap_swap_right
heap_swap(h, n, side) ==
  [Exchange(h, n, side) EXCEPT
     !.last_node = IF h.last_node = h[side][n] THEN n ELSE h.last_node]

SideOf(h, n) == IF h.left[h.parent[n]] = n THEN "left" ELSE "right"

RECURSIVE SiftUp(_, _, _), heap_increse_key(_, _, _)

\* The loop of heap_decrease_key.
SiftUp(h, k, n) ==
  LET p == h.parent[n]
  IN IF p # HEAP_NULL /\ k[p] > k[n] THEN SiftUp(Exchange(h, p, SideOf(h, n)), k, n) ELSE h

heap_decrease_keyOnce(h, k, n) ==
  LET p == h.parent[n]
  IN IF p # HEAP_NULL /\ k[p] > k[n] THEN heap_swap(h, p, SideOf(h, n)) ELSE h

heap_decrease_key(h, k, n) ==
  LET p == h.parent[n]
  IN IF p # HEAP_NULL /\ k[p] > k[n] /\ h.last_node = n
     THEN SiftUp([h EXCEPT !.last_node = p], k, n)
     ELSE SiftUp(h, k, n)

\* Sift down along the smaller child, the right one of two equal ones.
heap_increse_key(h, k, n) ==
  LET l == h.left[n]
      r == h.right[n]
      Worse(c) == c # HEAP_NULL /\ k[n] > k[c]
  IN IF Worse(l) /\ (Worse(r) => k[l] < k[r])
     THEN heap_increse_key(heap_swap(h, n, "left"), k, n)
     ELSE IF Worse(r)
     THEN heap_increse_key(heap_swap(h, n, "right"), k, n)
     ELSE h

heap_insert(h, k, n) ==
  IF h.count = 0
  THEN [h EXCEPT !.count = 1, !.root_node = n, !.last_node = n]
  ELSE LET p == heap_find_parent_insert_node(h)
           side == IF h.left[p] = HEAP_NULL THEN "left" ELSE "right"
       IN heap_decrease_key([h EXCEPT ![side][p] = n, !.parent[n] = p,
                                      !.count = h.count + 1, !.last_node = n], k, n)

\* heap_init_node
Unlink(h, n) == [h EXCEPT !.parent[n] = HEAP_NULL, !.left[n] = HEAP_NULL, !.right[n] = HEAP_NULL]

\* The last node is cut off, the new last node found, and the old one put in
\* the place of the root and sifted down.
MoveLastToRoot(h, k) ==
  LET min == h.root_node
      new == h.last_node
      p   == h.parent[new]
      cut == [h EXCEPT ![SideOf(h, new)][p] = HEAP_NULL]
      found == IF h.left[p] = new
               THEN [cut EXCEPT !.last_node = heap_find_last_node([cut EXCEPT !.last_node = p])]
               ELSE [cut EXCEPT !.last_node = h.left[p]]
      l == found.left[min]
      r == found.right[min]
      moved == [found EXCEPT
                  !.left[new] = l, !.right[new] = r, !.root_node = new,
                  !.parent = [x \in HeapNodes |->
                                CASE x = new -> HEAP_NULL
                                  [] x \in {l, r} -> new
                                  [] OTHER -> found.parent[x]]]
  IN heap_increse_key(moved, k, new)

\* The heap after heap_extract_min of a heap that is not empty.
heap_extract_min(h, k) ==
  LET smaller == [h EXCEPT !.count = h.count - 1]
      last == h.last_node
  IN Unlink(CASE smaller.count = 0 -> [smaller EXCEPT !.root_node = HEAP_NULL, !.last_node = HEAP_NULL]
              [] smaller.count = 1 -> [smaller EXCEPT !.root_node = last, !.parent[last] = HEAP_NULL]
              [] OTHER -> MoveLastToRoot(smaller, k),
            h.root_node)
----------------------------------------------------------------------------
Queued == {n \in HeapNodes \ fresh : n = heap.root_node \/ heap.parent[n] # HEAP_NULL}

\* olsr_spf_add_cand_set.  The vertices differ in nothing but their address,
\* so the next one is the first fresh one.
Insert(n, c) ==
  /\ n \in fresh /\ \A x \in fresh : n <= x
  /\ star => c \in StarKeys /\ Queued \cup fresh = HeapNodes
  /\ key' = [key EXCEPT ![n] = c]
  /\ heap' = heap_insert(Unlink(heap, n), key', n)
  /\ fresh' = fresh \ {n}
  /\ UNCHANGED <<star, extracted>>

\* olsr_spf_decrease_key
DecreaseKey(n, c) ==
  /\ ~star
  /\ n \in Queued /\ c < key[n]
  /\ key' = [key EXCEPT ![n] = c]
  /\ heap' = heap_decrease_key(heap, key', n)
  /\ UNCHANGED <<star, fresh, extracted>>

\* olsr_spf_extract_best
ExtractMin ==
  /\ extracted' = heap.root_node
  /\ heap' = IF heap.root_node = HEAP_NULL THEN heap ELSE heap_extract_min(heap, key)
  /\ key' = [n \in HeapNodes |-> IF n = heap.root_node THEN 0 ELSE key[n]]
  /\ UNCHANGED <<star, fresh>>

HeapNext ==
  \/ \E n \in HeapNodes, c \in Keys : Insert(n, c) \/ DecreaseKey(n, c)
  \/ ExtractMin

HeapSpec == HeapInit /\ [][HeapNext]_heapVars
----------------------------------------------------------------------------
\* The pointers stay inside the nodes of the run, and a vertex that was queued
\* has one of the path costs for its key.
HeapTypeOK ==
  /\ heap.count \in 0 .. (IF star THEN StarNodes ELSE MaxNodes)
  /\ {heap.root_node, heap.last_node, extracted} \subseteq HeapNodes \cup {HEAP_NULL}
  /\ \A f \in {"parent", "left", "right"} : heap[f] \in [HeapNodes -> HeapNodes \cup {HEAP_NULL}]
  /\ fresh \subseteq HeapNodes
  /\ DOMAIN key = HeapNodes
  /\ \A n \in HeapNodes : key[n] \in IF n \in Queued THEN Keys ELSE {0}

RECURSIVE At(_)

\* The node at a position of the tree, counted level by level from 1, or HEAP_NULL.
At(i) ==
  IF i = 1 THEN heap.root_node
  ELSE LET p == At(i \div 2)
       IN IF p = HEAP_NULL THEN HEAP_NULL ELSE IF i % 2 = 0 THEN heap.left[p] ELSE heap.right[p]

\* The tree is complete and last_node is its last node: the positions
\* 1 .. count hold distinct nodes and no others do, and a node's parent
\* pointer agrees with its parent's child pointers.  The climb from last_node
\* finds the place of an insertion only in such a tree.
CompleteTree ==
  /\ {i \in 1 .. 2 * heap.count + 1 : At(i) # HEAP_NULL} = 1 .. heap.count
  /\ Cardinality({At(i) : i \in 1 .. heap.count}) = heap.count
  /\ \A i \in 1 .. heap.count :
       heap.parent[At(i)] = (IF i = 1 THEN HEAP_NULL ELSE At(i \div 2))
  /\ heap.last_node = (IF heap.count = 0 THEN HEAP_NULL ELSE At(heap.count))

\* A node that is not in the heap has no pointers left (heap_init_node): a
\* tc_entry that is deleted later is not linked into anything.
NoPointersLeft ==
  \A n \in HeapNodes \ {At(i) : i \in 1 .. heap.count} :
    heap.parent[n] = HEAP_NULL /\ heap.left[n] = HEAP_NULL /\ heap.right[n] = HEAP_NULL

\* The pointers always make one complete tree of exactly the queued nodes.
HeapSound == HeapTypeOK /\ CompleteTree /\ NoPointersLeft

\* The queue that the heap stands for.
PQ == INSTANCE PriorityQueue WITH
        Nodes <- HeapNodes, NULL <- HEAP_NULL,
        queue <- [n \in {At(i) : i \in 1 .. heap.count} |-> key[n]]

\* The heap implements the priority queue: no vertex is lost or queued twice,
\* and what is extracted is the cheapest.
ImplementsQueue == PQ!Spec
=============================================================================
