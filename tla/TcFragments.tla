----------------------------- MODULE TcFragments -----------------------------
(***************************************************************************)
(* A TC message that does not fit in one packet: serialize_lq_tc cuts the   *)
(* sorted list of neighbours and tells with two border flags which range of *)
(* the address space a fragment speaks for; olsr_input_tc computes the      *)
(* border addresses back and deletes the edges between them that the        *)
(* fragment does not list.                                                  *)
(*                                                                          *)
(* An address is a number of two bytes of BYTE_BITS bits, first byte most   *)
(* significant (network order).  avl_comp_default compares IPv6 addresses   *)
(* in this order, and IPv4 addresses as native integers.                    *)
(*                                                                          *)
(* Definitions named after the next one with a suffix are mutated forms.    *)
(***************************************************************************)
EXTENDS Integers, FiniteSets, Sequences, FiniteSetsExt

LOCAL INSTANCE SequencesExt

CONSTANTS
  BYTE_BITS,
  MaxNeighbours,       \* length of the neighbour list
  Capacities           \* numbers of neighbours that fit in a packet

BYTE == 2 ^ BYTE_BITS
UNBOUNDED == 255      \* the border flag 0xff: no border on this side
ALL_ONES == BYTE * BYTE - 1
Addresses == 1 .. ALL_ONES - 1        \* without the all-zero and the broadcast one

VARIABLES
  little_endian,  \* IPv4 addresses on a little-endian machine
  list,           \* what the sender advertises, in the order it is queued
  capacity,
  stale,          \* edges the receiver has from an older TC, now revoked
  next,           \* index of the next fragment on the wire
  lost,           \* a fragment was lost, or overtaken and then ignored
  edges           \* address -> "none", "old" or "new" ANSN

fragVars == <<little_endian, list, capacity, stale, next, lost, edges>>

\* The integer that avl_comp_default compares.
Key(a) == IF little_endian THEN (a % BYTE) * BYTE + a \div BYTE ELSE a

----------------------------------------------------------------------------
\* The position, from 1, of the most significant bit in which two addresses
\* differ, in network order.
calculate_border_flag(lower, higher) ==
  IF lower = higher THEN 0
  ELSE 1 + CHOOSE k \in 0 .. 2 * BYTE_BITS - 1 :
             /\ lower \div 2^k # higher \div 2^k
             /\ lower \div 2^(k + 1) = higher \div 2^(k + 1)

Fragments == (Len(list) + capacity - 1) \div capacity

List(i) == SubSeq(list, (i - 1) * capacity + 1,
                  Min({i * capacity, Len(list)}))

\* The upper flag of fragment i, which is the lower flag of the next one.
BorderFlag(i) ==
  IF i \in {0, Fragments} THEN UNBOUNDED
  ELSE calculate_border_flag(Last(List(i)), Head(List(i + 1)))

olsr_calculate_tc_borderKeepsBit(flag, a, unbounded) ==
  IF flag = UNBOUNDED THEN unbounded ELSE (a \div 2^(flag - 1)) * 2^(flag - 1)

\* The border address: the bits below the flagged one are cleared, the
\* flagged one is set.
olsr_calculate_tc_border(flag, a, unbounded) ==
  IF flag = UNBOUNDED THEN unbounded
  ELSE (2 * (a \div 2^flag) + 1) * 2^(flag - 1)

\* The addresses that olsr_delete_revoked_tc_edges visits for fragment i.
BorderRange(i) ==
  LET low == olsr_calculate_tc_border(BorderFlag(i - 1), Head(List(i)), 0)
      up  == olsr_calculate_tc_border(BorderFlag(i), Last(List(i)), ALL_ONES)
  IN {a \in Addresses : Key(low) <= Key(a) /\ Key(a) < Key(up)}

----------------------------------------------------------------------------
\* The neighbours are queued in the order of avl_comp_default.
create_lq_tc(nbrs) == SetToSortSeq(nbrs, LAMBDA a, b : Key(a) < Key(b))

\* A sender with the neighbours nbrs, a receiver that holds the edges s of
\* nodes no longer listed and an edge to every listed one.
FragInitFor(endian, nbrs, c, s) ==
  /\ little_endian = endian
  /\ list = create_lq_tc(nbrs)
  /\ capacity = c
  /\ stale = s
  /\ next = 1
  /\ lost = FALSE
  /\ edges = [a \in Addresses |->
                IF a \in s \cup nbrs THEN "old" ELSE "none"]

FragInit ==
  \E nbrs \in UNION {kSubset(k, Addresses) : k \in 1 .. MaxNeighbours} :
    \E endian \in BOOLEAN, c \in Capacities,
       s \in {{}} \cup {{a} : a \in Addresses \ nbrs} :
      FragInitFor(endian, nbrs, c, s)

\* A fragment is processed: its neighbours are updated, then the old edges in
\* its range deleted.
ReceiveFragment ==
  /\ next <= Fragments
  /\ next' = next + 1
  /\ LET listed == ToSet(List(next))
         range  == BorderRange(next)
     IN edges' = [a \in Addresses |->
       CASE a \in listed -> "new"
         [] a \in range \ listed /\ edges[a] = "old" -> "none"
         [] OTHER -> edges[a]]
  /\ UNCHANGED <<little_endian, list, capacity, stale, lost>>

\* A fragment that is lost, or arrives after a later one and is ignored.
LoseFragment ==
  /\ next <= Fragments
  /\ next' = next + 1
  /\ lost' = TRUE
  /\ UNCHANGED <<little_endian, list, capacity, stale, edges>>

FragNext == ReceiveFragment \/ LoseFragment

FragSpec == FragInit /\ [][FragNext]_fragVars
----------------------------------------------------------------------------
\* The fragments and the edges of the receiver stay in their domains; a flag
\* on the wire is never 0, which olsr_calculate_tc_border takes for "no
\* borders" when both are.
FragTypeOK ==
  /\ ToSet(list) \subseteq Addresses /\ stale \subseteq Addresses \ ToSet(list)
  /\ capacity \in Capacities /\ lost \in BOOLEAN
  /\ little_endian \in BOOLEAN
  /\ next \in 1 .. Fragments + 1
  /\ next <= Fragments => BorderFlag(next) \in 1 .. 2 * BYTE_BITS \cup {UNBOUNDED}
  /\ edges \in [Addresses -> {"none", "old", "new"}]

\* Once all fragments have arrived the revoked edges are gone: the ranges of
\* the fragments leave no gap (olsr_delete_revoked_tc_edges deletes "all
\* destinations that are inside the borders but not updated in the last tc").
RevokedEdgesGone ==
  next > Fragments /\ ~lost => \A a \in stale : edges[a] = "none"

\* No fragment deletes an edge that another fragment of the same message
\* lists, whatever is lost: routes over such edges do not flap.  This is so
\* where addresses compare in network order; the native integers of a
\* little-endian machine are not in the order of the border addresses.
ListedEdgesStay ==
  ~little_endian => \A a \in ToSet(list) : edges[a] # "none"

\* The border ranges of the fragments tile the address space: every revoked
\* edge lies in the range of a fragment and no listed edge in the range of
\* another one (calculate_border_flag against olsr_calculate_tc_border).
FragmentsTile == FragTypeOK /\ RevokedEdgesGone /\ ListedEdgesStay
=============================================================================
