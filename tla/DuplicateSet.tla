---------------------------- MODULE DuplicateSet ----------------------------
(***************************************************************************)
(* The duplicate set of src/duplicate_set.c: one entry per originator, with *)
(* the newest sequence number seen and a bit per sequence number of the     *)
(* WINDOW numbers that end with it.  olsr_forward_message asks it whether a *)
(* flooded message was already forwarded.                                   *)
(*                                                                          *)
(* The bit array is the set of the offsets whose bit is 1: bit i stands for *)
(* the sequence number seqnr - i.  A left shift by diff adds diff to every  *)
(* offset and loses those that leave the word.                              *)
(*                                                                          *)
(* A definition placed before another one and named after it with a suffix  *)
(* (ShiftArrayLost for ShiftArray) is a mutated form of it: the code with a  *)
(* plausible mistake, kept to show which property notices the mistake.      *)
(***************************************************************************)
EXTENDS OlsrClock

CONSTANTS
  Originators,         \* the originator addresses of the messages received
  DUP_HALF_SEQ,        \* 2^15: sequence numbers are uint16_t
  WINDOW,              \* 32, the width of the array
  DUP_MAX_TOO_LOW,     \* 16
  DUPLICATE_VTIME,     \* 120000 ms
  StartTime,           \* the value of now_times at the first step
  MaxClock,            \* bound: milliseconds a behaviour may last
  NoEntry              \* avl_find returned NULL

ASSUME DuplicateSetAssumption ==
  /\ DUP_HALF_SEQ \in Nat /\ WINDOW \in Nat \ {0} /\ WINDOW <= DUP_HALF_SEQ
  /\ DUP_MAX_TOO_LOW \in Nat /\ DUP_MAX_TOO_LOW >= 2
  /\ DUPLICATE_VTIME \in Nat \ {0} /\ DUPLICATE_VTIME < HALF_TIME
  /\ StartTime \in Times /\ MaxClock \in Nat

VARIABLES
  duplicate_set,   \* originator -> entry or NoEntry
  clock,           \* real time elapsed; now_times is derived from it
  forwarded,       \* history: originator -> seqnos answered "no duplicate"
                   \* since the entry exists and still inside its window
  creator,         \* history: originator -> {the seqno that created the
                   \* entry} while it is inside the window
  repeated,        \* history: originator -> seqnos of forwarded that were
                   \* answered "no duplicate" a second time
  heard            \* history: originator -> clock of its last message

dupVars == <<duplicate_set, clock, forwarded, creator, repeated, heard>>

DUP_SEQ_SPACE == 2 * DUP_HALF_SEQ
DupSeqnos == 0 .. DUP_SEQ_SPACE - 1
Offsets == 0 .. WINDOW - 1

Entries == [seqnr : DupSeqnos, array : SUBSET Offsets,
            too_low_counter : 0 .. DUP_MAX_TOO_LOW, valid_until : Times]

ASSUME NoEntryAssumption == NoEntry \notin Entries

now_times == (StartTime + clock) % TIME_SPACE

----------------------------------------------------------------------------
\* olsr_seqno_diff: the signed distance from seqno2 to seqno1.
olsr_seqno_diff(seqno1, seqno2) ==
  LET diff == seqno1 - seqno2
  IN IF diff > DUP_HALF_SEQ THEN diff - DUP_SEQ_SPACE
     ELSE IF diff < -DUP_HALF_SEQ THEN diff + DUP_SEQ_SPACE
     ELSE diff

\* olsr_create_duplicate_entry, and the valid_until its only caller stores.
\* The array starts empty: the creating message is not recorded in it.
olsr_create_duplicate_entry(s, valid_until) ==
  [seqnr |-> s, array |-> {}, too_low_counter |-> 0,
   valid_until |-> valid_until]

UpdateTimestampNever(e, valid_until) == e

\* "update timestamp": a plain comparison of two wrapping instants.
UpdateTimestamp(e, valid_until) ==
  IF valid_until > e.valid_until
  THEN [e EXCEPT !.valid_until = valid_until] ELSE e

ShiftArrayOneShort(array, diff) == {i \in Offsets : i - diff + 1 \in array}
\* entry->array <<= diff, or 0 when diff is not smaller than the word.
ShiftArray(array, diff) == {i \in Offsets : i - diff \in array}

\* The rest of olsr_message_is_duplicate once the entry exists: the answer
\* and the entry it leaves.
IsDuplicate(e, s) ==
  LET diff == olsr_seqno_diff(s, e.seqnr)
      entry(seqnr, array, too_low_counter) ==
        [seqnr |-> seqnr, array |-> array,
         too_low_counter |-> too_low_counter, valid_until |-> e.valid_until]
  IN IF diff <= -WINDOW
     THEN IF e.too_low_counter + 1 > DUP_MAX_TOO_LOW
          THEN [dup |-> FALSE, entry |-> entry(s, {0}, 0)]
          ELSE [dup |-> TRUE,
                entry |-> entry(e.seqnr, e.array, e.too_low_counter + 1)]
     ELSE IF diff <= 0
     THEN IF -diff \in e.array
          THEN [dup |-> TRUE, entry |-> entry(e.seqnr, e.array, 0)]
          ELSE [dup |-> FALSE,
                entry |-> entry(e.seqnr, e.array \cup {-diff}, 0)]
     ELSE [dup |-> FALSE,
           entry |-> entry(s, ShiftArray(e.array, diff) \cup {0}, 0)]

\* olsr_message_is_duplicate.
olsr_message_is_duplicate(e, s) ==
  LET valid_until == olsr_getTimestamp(now_times, DUPLICATE_VTIME)
  IN IF e = NoEntry
     THEN [dup |-> FALSE, entry |-> olsr_create_duplicate_entry(s, valid_until)]
     ELSE IsDuplicate(UpdateTimestamp(e, valid_until), s)
----------------------------------------------------------------------------
(* History variables: what an observer of the answers knows about the      *)
(* sequence numbers that the entry's window covers.                        *)

InWindow(e, s) == -olsr_seqno_diff(s, e.seqnr) \in Offsets

\* The sequence numbers whose bit is set.
Recorded(e) ==
  {s \in DupSeqnos : InWindow(e, s) /\ -olsr_seqno_diff(s, e.seqnr) \in e.array}

Observe(o, s, answer) ==
  LET inside(T) == {t \in T : InWindow(answer.entry, t)}
  IN /\ forwarded' = [forwarded EXCEPT
           ![o] = inside(IF answer.dup THEN @ ELSE @ \cup {s})]
     /\ repeated' = [repeated EXCEPT
           ![o] = inside(IF ~answer.dup /\ s \in forwarded[o]
                         THEN @ \cup {s} ELSE @)]
     /\ creator' = [creator EXCEPT
           ![o] = IF duplicate_set[o] = NoEntry THEN {s} ELSE inside(@)]
     /\ heard' = [heard EXCEPT ![o] = clock]

----------------------------------------------------------------------------
DupInit ==
  /\ duplicate_set = [o \in Originators |-> NoEntry]
  /\ clock = 0
  /\ forwarded = [o \in Originators |-> {}]
  /\ creator = [o \in Originators |-> {}]
  /\ repeated = [o \in Originators |-> {}]
  /\ heard = [o \in Originators |-> 0]

\* A message of originator o with sequence number s reaches the forwarding
\* test.  The network may repeat, reorder or lose messages, and a node that
\* restarts may send any number, so s is arbitrary.
Receive(o, s) ==
  LET answer == olsr_message_is_duplicate(duplicate_set[o], s)
  IN /\ duplicate_set' = [duplicate_set EXCEPT ![o] = answer.entry]
     /\ Observe(o, s, answer)
     /\ UNCHANGED clock

\* The entries the periodic timer callback deletes.
Expired(o) ==
  /\ duplicate_set[o] # NoEntry
  /\ olsr_isTimedOut(now_times, duplicate_set[o].valid_until)

\* olsr_cleanup_duplicate_entry, run by a periodic timer.
olsr_cleanup_duplicate_entry ==
  LET cleared(f, v) ==
        [o \in Originators |-> IF Expired(o) THEN v ELSE f[o]]
  IN /\ duplicate_set' = cleared(duplicate_set, NoEntry)
     /\ forwarded' = cleared(forwarded, {})
     /\ creator' = cleared(creator, {})
     /\ repeated' = cleared(repeated, {})
     /\ UNCHANGED <<clock, heard>>

\* olsr_cleanup_duplicates: o announced that it shuts down, so its next
\* messages may start with a lower number.
olsr_cleanup_duplicates(o) ==
  /\ duplicate_set[o] # NoEntry
  /\ duplicate_set' =
       [duplicate_set EXCEPT ![o].too_low_counter = DUP_MAX_TOO_LOW - 2]
  /\ UNCHANGED <<clock, forwarded, creator, repeated, heard>>

Tick ==
  /\ clock < MaxClock
  /\ clock' = clock + 1
  /\ UNCHANGED <<duplicate_set, forwarded, creator, repeated, heard>>

DupNext ==
  \/ \E o \in Originators, s \in DupSeqnos : Receive(o, s)
  \/ olsr_cleanup_duplicate_entry
  \/ \E o \in Originators : olsr_cleanup_duplicates(o)
  \/ Tick

DupSpec == DupInit /\ [][DupNext]_dupVars

----------------------------------------------------------------------------
\* Every entry has the field widths of struct dup_entry, and the counter
\* never exceeds DUP_MAX_TOO_LOW.
DupTypeOK ==
  /\ duplicate_set \in [Originators -> Entries \cup {NoEntry}]
  /\ clock \in 0 .. MaxClock
  /\ forwarded \in [Originators -> SUBSET DupSeqnos]
  /\ creator \in [Originators -> SUBSET DupSeqnos]
  /\ repeated \in [Originators -> SUBSET DupSeqnos]
  /\ heard \in [Originators -> 0 .. MaxClock]

\* The array is an exact memory of the window: a bit is set only for a
\* number that was let through, and the only number let through whose bit
\* may be missing is the one that created the entry.  Shifts, restarts and
\* wraps of the 16-bit numbers must keep this aligned.
ArrayMatchesForwarded ==
  \A o \in Originators :
    LET e == duplicate_set[o]
    IN IF e = NoEntry THEN forwarded[o] = {}
       ELSE /\ Recorded(e) \subseteq forwarded[o]
            /\ forwarded[o] \ Recorded(e) \subseteq creator[o]

\* While its number is inside the window a message is let through at most
\* once, but for the message that created the entry: that one may pass a
\* second time, and is recorded then, so it never passes a third time.
OnlyCreatorRepeats ==
  \A o \in Originators :
    /\ repeated[o] \subseteq creator[o]
    /\ duplicate_set[o] # NoEntry => repeated[o] \subseteq Recorded(duplicate_set[o])

\* The window remembers exactly what was let through, for as long as the entry lives,
\* and nothing without an entry; this is also the inductive invariant of the proofs.
WindowExact ==
  /\ DupTypeOK
  /\ ArrayMatchesForwarded
  /\ OnlyCreatorRepeats
  /\ \A o \in Originators : duplicate_set[o] = NoEntry => repeated[o] = {}

\* A number that the window covers, or a newer one, that was never let
\* through is let through: a late message is not mistaken for a duplicate.
NoFreshMessageBlocked ==
  [][\A o \in Originators, s \in DupSeqnos :
       /\ Receive(o, s)
       /\ duplicate_set[o] # NoEntry
       /\ olsr_seqno_diff(s, duplicate_set[o].seqnr) > -WINDOW
       /\ s \notin forwarded[o]
       => s \in forwarded'[o]]_dupVars

\* The cleanup forgets an originator only DUPLICATE_VTIME after its last
\* message ("update timestamp", src/duplicate_set.c:153).
ForgottenOnlyWhenSilent ==
  [][\A o \in Originators :
       duplicate_set[o] # NoEntry /\ duplicate_set'[o] = NoEntry
         => clock - heard[o] >= DUPLICATE_VTIME]_dupVars

\* What a step may do to the memory of duplicates: it neither blocks a fresh message nor
\* forgets a node that is still heard.
MemoryKept == NoFreshMessageBlocked /\ ForgottenOnlyWhenSilent
=============================================================================
