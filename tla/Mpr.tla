--------------------------------- MODULE Mpr ---------------------------------
(***************************************************************************)
(* The selection of multipoint relays of RFC 3626 (mpr.c), which olsrd uses *)
(* when link quality is off.  The neighbours are the numbers of their       *)
(* places in the walk over the neighbour table, on which the counters of    *)
(* olsr_calculate_two_hop_neighbors depend.  Every pass of the loops of     *)
(* olsr_calculate_mpr is a step.                                            *)
(*                                                                          *)
(* Definitions named after the next one with a suffix are mutated forms.    *)
(***************************************************************************)
EXTENDS Integers, FiniteSets, FiniteSetsExt

CONSTANTS
  MprNeighbors,              \* 1 .. N in the order of the walk
  TwoHop,                 \* two-hop neighbours; those in Neighbors are both
  WILL_NEVER, WILL_ALWAYS,
  mpr_coverage,
  Asymmetric,             \* the neighbours whose link may be asymmetric
  Willings,               \* the willingnesses that occur
  OldRelays               \* the sets of relays that an earlier calculation left

ASSUME MprAssumption ==
  /\ MprNeighbors \subseteq Nat \ {0}
  /\ WILL_NEVER = 0 /\ WILL_ALWAYS \in Nat \ {0, 1}
  /\ Asymmetric \subseteq MprNeighbors
  /\ Willings \subseteq WILL_NEVER .. WILL_ALWAYS
  /\ mpr_coverage \in Nat \ {0}
  /\ OldRelays \subseteq SUBSET MprNeighbors

VARIABLES
  status, willingness,
  reach,                  \* neighbour -> its neighbor_2_list
  is_mpr, was_mpr,        \* the neighbours with the flag
  nocov,                  \* neighbor_2_nocov
  covered,                \* two-hop neighbour -> mpr_covered_count
  two_hop_count, two_hop_covered_count,
  i,                      \* the willingness that is looked at
  mpr_pc,
  signalled,              \* the calculation called signal_link_changes
  before                  \* the relays before the calculation

input == <<status, willingness, reach>>
counters == <<nocov, covered, two_hop_count, two_hop_covered_count>>
mprVars == <<input, is_mpr, was_mpr, counters, i, mpr_pc, signalled, before>>

Willingness == WILL_NEVER .. WILL_ALWAYS

MprInitFor(s, w, r, old) ==
  /\ status = s /\ willingness = w /\ reach = r
  /\ is_mpr = old /\ was_mpr = {} /\ before = old
  /\ nocov = [n \in MprNeighbors |-> 0] /\ covered = [t \in TwoHop |-> 0]
  /\ two_hop_count = 0 /\ two_hop_covered_count = 0
  /\ i = 0 /\ mpr_pc = "idle" /\ signalled = FALSE

\* Any neighbourhood: links, willingness, two-hop neighbours, former relays.
MprInit ==
  \E s \in [MprNeighbors -> {"SYM", "NOT_SYM"}], w \in [MprNeighbors -> Willings],
     r \in [MprNeighbors -> SUBSET TwoHop], old \in OldRelays :
    /\ \A n \in MprNeighbors : (n \in Asymmetric \/ s[n] = "SYM") /\ n \notin r[n]
    /\ MprInitFor(s, w, r, old)
----------------------------------------------------------------------------
Sym == {n \in MprNeighbors : status[n] = "SYM"}

\* The two-hop neighbours behind n that are not symmetric neighbours.
Strict(n) == reach[n] \ Sym

UpTo(n) == {m \in Sym : m <= n}

olsr_chosen_mprTwice(n, s) ==
  LET cov == [t \in TwoHop |-> s.covered[t] + IF t \in Strict(n) THEN 1 ELSE 0]
  IN [is_mpr  |-> s.is_mpr \cup {n},
      covered |-> cov,
      count   |-> s.count + 2 * Cardinality(Strict(n)),
      nocov   |-> s.nocov]

\* The counters after n became a relay.
olsr_chosen_mpr(n, s) ==
  LET cov == [t \in TwoHop |-> s.covered[t] + IF t \in Strict(n) THEN 1 ELSE 0]
      full == {t \in Strict(n) : cov[t] >= mpr_coverage}
  IN [is_mpr  |-> s.is_mpr \cup {n},
      covered |-> cov,
      count   |-> s.count + Cardinality(full),
      nocov   |-> [m \in MprNeighbors |->
                     s.nocov[m] - IF m \in Sym THEN Cardinality(full \cap reach[m]) ELSE 0]]

Chosen(ns, s) == FoldSet(olsr_chosen_mpr, s, ns)

Now == [is_mpr |-> is_mpr, covered |-> covered, count |-> two_hop_covered_count, nocov |-> nocov]

Becomes(s) ==
  /\ is_mpr' = s.is_mpr /\ covered' = s.covered
  /\ two_hop_covered_count' = s.count /\ nocov' = s.nocov

\* neighbor_2_nocov as olsr_calculate_two_hop_neighbors sets it: the sum over
\* the neighbours so far, because the counters are not reset in the walk.
Nocov(n) ==
  IF n \in Sym THEN MapThenSumSet(LAMBDA m : Cardinality(Strict(m)), UpTo(n))
  ELSE Cardinality(UNION {Strict(m) : m \in UpTo(n)})

olsr_calculate_two_hop_neighbors ==
  MapThenSumSet(LAMBDA n : Cardinality(UNION {Strict(m) : m \in UpTo(n)}), Sym)

\* olsr_clear_mprs, the counters, and the relays with WILL_ALWAYS.
StartCalculation ==
  /\ mpr_pc = "idle"
  /\ was_mpr' = was_mpr \cup is_mpr
  /\ two_hop_count' = olsr_calculate_two_hop_neighbors
  /\ Becomes(Chosen({n \in Sym : willingness[n] = WILL_ALWAYS},
                    [is_mpr |-> {}, covered |-> [t \in TwoHop |-> 0], count |-> 0,
                     nocov |-> [n \in MprNeighbors |-> Nocov(n)]]))
  /\ i' = WILL_ALWAYS - 1
  /\ mpr_pc' = "links"
  /\ UNCHANGED <<input, signalled, before>>

\* The neighbours with willingness i that are the only ones to reach some
\* two-hop neighbour.
olsr_find_2_hop_neighbors_with_1_link ==
  {n \in Sym : willingness[n] = i /\
     \E t \in Strict(n) : \A m \in MprNeighbors \ {n} : t \notin reach[m]}

OneLink ==
  /\ mpr_pc = "links" /\ i > WILL_NEVER
  /\ LET s == Chosen(olsr_find_2_hop_neighbors_with_1_link \ is_mpr, Now)
     IN /\ Becomes(s)
        /\ mpr_pc' = IF s.count >= two_hop_count THEN "optimize" ELSE "maximum"
  /\ UNCHANGED <<input, was_mpr, two_hop_count, i, signalled, before>>

\* The first neighbour in the walk with the largest counter.
olsr_find_maximum_covered ==
  LET cands == {n \in MprNeighbors \ is_mpr : willingness[n] = i /\ nocov[n] > 0}
  IN {n \in cands : \A m \in cands : nocov[m] < nocov[n] \/ (nocov[m] = nocov[n] /\ n <= m)}

MaximumCovered ==
  /\ mpr_pc = "maximum"
  /\ \E n \in olsr_find_maximum_covered :
       LET s == olsr_chosen_mpr(n, Now)
       IN /\ Becomes(s)
          /\ mpr_pc' = IF s.count >= two_hop_count THEN "optimize" ELSE "maximum"
  /\ UNCHANGED <<input, was_mpr, two_hop_count, i, signalled, before>>

NextWillingness ==
  /\ mpr_pc = "maximum" /\ olsr_find_maximum_covered = {}
  /\ i' = i - 1
  /\ mpr_pc' = IF i' = WILL_NEVER THEN "optimize" ELSE "links"
  /\ UNCHANGED <<input, is_mpr, was_mpr, counters, signalled, before>>

\* The relays that are kept.  The counters are not updated as relays go.
olsr_optimize_mpr_set ==
  {n \in is_mpr : \/ willingness[n] = WILL_ALWAYS
                  \/ \E t \in Strict(n) : covered[t] <= mpr_coverage}

\* The optimization and olsr_check_mpr_changes, for a tc_redundancy above 0.
Optimize ==
  /\ mpr_pc = "optimize"
  /\ is_mpr' = olsr_optimize_mpr_set
  /\ signalled' = (was_mpr \ is_mpr' # {})
  /\ was_mpr' = {}
  /\ mpr_pc' = "done"
  /\ UNCHANGED <<input, counters, i, before>>

MprNext == StartCalculation \/ OneLink \/ MaximumCovered \/ NextWillingness \/ Optimize

MprSpec == MprInit /\ [][MprNext]_mprVars
----------------------------------------------------------------------------
\* The types; neighbor_2_nocov is signed and may fall below 0.  Neighbours that
\* announce WILL_NEVER are never relays.
MprTypeOK ==
  /\ status \in [MprNeighbors -> {"SYM", "NOT_SYM"}] /\ willingness \in [MprNeighbors -> Willingness]
  /\ was_mpr \subseteq MprNeighbors /\ is_mpr \subseteq MprNeighbors
  /\ mpr_pc # "idle" => \A n \in is_mpr : willingness[n] > WILL_NEVER
  /\ nocov \in [MprNeighbors -> Int]
  /\ i \in Willingness

\* The neighbours that may relay to t.
Eligible(t) == {n \in Sym : willingness[n] > WILL_NEVER /\ t \in Strict(n)}

Enough(t) ==
  Cardinality(Eligible(t) \cap is_mpr) >= Min({mpr_coverage, Cardinality(Eligible(t))})

\* The loops of olsr_calculate_mpr end with mpr_coverage relays for every
\* two-hop neighbour that has so many, although the counters that decide
\* when to end count some neighbours more than once; this may fail only
\* where a neighbour without a symmetric link was chosen.
CoveredBefore ==
  mpr_pc = "optimize" /\ is_mpr \subseteq Sym => \A t \in TwoHop : Enough(t)

\* So do the relays that olsr_optimize_mpr_set leaves ("removing all entries
\* where all 2 hop neighbors actually is covered by enough MPRs already").
Covered ==
  mpr_pc = "done" => \A t \in TwoHop : Enough(t)

\* A relay that is no longer one makes olsr_check_mpr_changes report a change.
RemovalReported ==
  mpr_pc = "done" => (before \ is_mpr # {} => signalled)

\* The selection leaves enough relays and reports the ones it drops.
RelaysSuffice == MprTypeOK /\ CoveredBefore /\ RemovalReported
=============================================================================
