---------------------------- MODULE PriorityQueue ----------------------------
(***************************************************************************)
(* What olsr_spf.c expects of its candidate set, be it the binary heap or   *)
(* the AVL tree: a map from vertices to costs from which the cheapest       *)
(* vertex, and any one of several, is taken.                                *)
(***************************************************************************)
EXTENDS Integers, Functions

CONSTANTS Nodes, Keys, NULL

VARIABLES
  queue,        \* the queued nodes -> their keys
  extracted     \* what the last extraction returned

vars == <<queue, extracted>>

Init == queue = << >> /\ extracted = NULL

Insert(n) ==
  /\ n \in DOMAIN queue' \ DOMAIN queue
  /\ \E k \in Keys :
       queue' = [x \in DOMAIN queue \cup {n} |-> IF x = n THEN k ELSE queue[x]]
  /\ UNCHANGED extracted

DecreaseKey(n) ==
  /\ \E k \in Keys : k < queue[n] /\ queue' = [queue EXCEPT ![n] = k]
  /\ UNCHANGED extracted

ExtractMin ==
  \/ \E n \in DOMAIN queue :
       /\ \A x \in DOMAIN queue : queue[n] <= queue[x]
       /\ extracted' = n
       /\ queue' = Restrict(queue, DOMAIN queue \ {n})
  \/ DOMAIN queue = {} /\ extracted' = NULL /\ UNCHANGED queue

Next ==
  \/ \E n \in Nodes : Insert(n)
  \/ \E n \in DOMAIN queue : DecreaseKey(n)
  \/ ExtractMin

Spec == Init /\ [][Next]_vars
=============================================================================
