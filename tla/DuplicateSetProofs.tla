-------------------------- MODULE DuplicateSetProofs --------------------------
(***************************************************************************)
(* Proofs about DuplicateSet for every number of originators, every window, *)
(* every size of the sequence numbers and of the clock.                     *)
(***************************************************************************)
EXTENDS DuplicateSet, TLAPS

USE HalfTimeAssumption, DuplicateSetAssumption, NoEntryAssumption

\* The uint32_t arithmetic of the clock stays in range.
LEMMA ModRange ==
  ASSUME NEW x \in Nat
  PROVE  x % TIME_SPACE \in Times
BY DEF TIME_SPACE, Times

\* One wrap of a sum of two instants is a subtraction.
LEMMA ModWrap ==
  ASSUME NEW x \in 0 .. 2 * TIME_SPACE - 1
  PROVE  x % TIME_SPACE = IF x < TIME_SPACE THEN x ELSE x - TIME_SPACE
BY DEF TIME_SPACE

LEMMA NowType ==
  ASSUME DupTypeOK
  PROVE  now_times \in Times
BY ModRange DEF now_times, DupTypeOK, Times, TIME_SPACE

\* olsr_seqno_diff is a signed distance of at most half the number space.
LEMMA DiffType ==
  ASSUME NEW s \in DupSeqnos, NEW t \in DupSeqnos
  PROVE  /\ olsr_seqno_diff(s, t) \in Int
         /\ -DUP_HALF_SEQ <= olsr_seqno_diff(s, t)
         /\ olsr_seqno_diff(s, t) <= DUP_HALF_SEQ
         /\ olsr_seqno_diff(s, s) = 0
BY DEF olsr_seqno_diff, DupSeqnos, DUP_SEQ_SPACE

\* Moving the newest number forward by diff moves a number that both windows
\* cover by diff bits, and nothing enters the window from outside.
LEMMA DiffShift ==
  ASSUME NEW s \in DupSeqnos, NEW n \in DupSeqnos, NEW t \in DupSeqnos,
         olsr_seqno_diff(n, s) > 0,
         -olsr_seqno_diff(t, n) \in Offsets
  PROVE  \/ t = n
         \/ -olsr_seqno_diff(t, s) = -olsr_seqno_diff(t, n) - olsr_seqno_diff(n, s)
         \/ /\ -olsr_seqno_diff(t, n) - olsr_seqno_diff(n, s) \notin Offsets
            /\ -olsr_seqno_diff(t, s) \notin Offsets
BY DEF olsr_seqno_diff, DupSeqnos, DUP_SEQ_SPACE, Offsets

LEMMA RecordedDef ==
  ASSUME NEW e \in Entries, NEW t \in DupSeqnos
  PROVE  t \in Recorded(e) <=> -olsr_seqno_diff(t, e.seqnr) \in e.array
BY DEF Recorded, InWindow, Entries

\* IsDuplicate keeps the field widths.
LEMMA IsDuplicateType ==
  ASSUME NEW e \in Entries, NEW s \in DupSeqnos
  PROVE  /\ IsDuplicate(e, s).entry \in Entries
         /\ IsDuplicate(e, s).dup \in BOOLEAN
<1> DEFINE diff == olsr_seqno_diff(s, e.seqnr)
<1>0. diff \in Int BY DiffType DEF Entries
<1> HIDE DEF diff
<1>1. CASE diff <= -WINDOW
  BY <1>0, <1>1 DEF IsDuplicate, diff, Entries, Offsets
<1>2. CASE -WINDOW < diff /\ diff <= 0
  <2>1. -diff \in Offsets BY <1>0, <1>2 DEF Offsets
  <2> QED BY <1>0, <1>2, <2>1 DEF IsDuplicate, diff, Entries
<1>3. CASE diff > 0
  <2>1. ShiftArray(e.array, diff) \cup {0} \in SUBSET Offsets
    BY DEF ShiftArray, Offsets
  <2> QED BY <1>0, <1>3, <2>1 DEF IsDuplicate, diff, Entries
<1> QED BY <1>0, <1>1, <1>2, <1>3

\* What one call does to the set of recorded numbers: a bit that appears is
\* the bit of the message let through, a message let through is recorded, a
\* recorded number stays recorded while the window covers it, a recorded
\* number is blocked, and a number the window covers is blocked only when it
\* is recorded.
LEMMA RecordedStep ==
  ASSUME NEW e \in Entries, NEW s \in DupSeqnos
  PROVE  LET r == IsDuplicate(e, s)
         IN /\ \A t \in Recorded(r.entry) : t \in Recorded(e) \/ (t = s /\ ~r.dup)
            /\ ~r.dup => s \in Recorded(r.entry)
            /\ \A t \in Recorded(e) : InWindow(r.entry, t) => t \in Recorded(r.entry)
            /\ s \in Recorded(e) => r.dup
            /\ r.dup /\ olsr_seqno_diff(s, e.seqnr) > -WINDOW => s \in Recorded(e)
<1> DEFINE diff == olsr_seqno_diff(s, e.seqnr)
           r == IsDuplicate(e, s)
           bit(t) == -olsr_seqno_diff(t, r.entry.seqnr)
<1>0. /\ diff \in Int /\ e.seqnr \in DupSeqnos /\ e.array \in SUBSET Offsets
      /\ -DUP_HALF_SEQ <= diff /\ diff <= DUP_HALF_SEQ
  BY DiffType DEF Entries
<1>t. r.entry \in Entries BY IsDuplicateType
<1>b. \A t \in DupSeqnos : t \in Recorded(e) <=> -olsr_seqno_diff(t, e.seqnr) \in e.array
  BY RecordedDef
<1>c. \A t \in DupSeqnos : t \in Recorded(r.entry) <=> bit(t) \in r.entry.array
  BY <1>t, RecordedDef
<1>d. Recorded(e) \subseteq DupSeqnos /\ Recorded(r.entry) \subseteq DupSeqnos
  BY DEF Recorded
<1>1. CASE diff <= -WINDOW /\ e.too_low_counter + 1 > DUP_MAX_TOO_LOW
  <2>1. r.dup = FALSE /\ r.entry.seqnr = s /\ r.entry.array = {0}
    BY <1>1 DEF IsDuplicate, Entries
  <2>2. \A t \in DupSeqnos : bit(t) = 0 => t = s
    BY <2>1 DEF olsr_seqno_diff, DupSeqnos, DUP_SEQ_SPACE
  <2>3. \A t \in DupSeqnos : bit(t) \in Offsets => -olsr_seqno_diff(t, e.seqnr) \notin Offsets
    BY <1>0, <1>1, <2>1 DEF olsr_seqno_diff, DupSeqnos, DUP_SEQ_SPACE, Offsets
  <2>4. bit(s) = 0 BY <2>1, DiffType
  <2>5. s \notin Recorded(e)
    BY <1>0, <1>1, <1>b DEF Offsets
  <2> QED BY <1>0, <1>b, <1>c, <1>d, <2>1, <2>2, <2>3, <2>4, <2>5 DEF InWindow
<1>2. CASE diff <= -WINDOW /\ ~(e.too_low_counter + 1 > DUP_MAX_TOO_LOW)
  <2>1. r.dup = TRUE /\ r.entry.seqnr = e.seqnr /\ r.entry.array = e.array
    BY <1>2 DEF IsDuplicate, Entries
  <2> QED BY <1>0, <1>2, <1>b, <1>c, <1>d, <2>1
<1>3. CASE -WINDOW < diff /\ diff <= 0
  <2>1. /\ r.dup <=> -diff \in e.array
        /\ r.entry.seqnr = e.seqnr
        /\ r.entry.array = e.array \cup {-diff}
    BY <1>0, <1>3 DEF IsDuplicate, Entries
  <2>2. \A t \in DupSeqnos : bit(t) = -diff => t = s
    BY <1>0, <1>3, <2>1 DEF olsr_seqno_diff, DupSeqnos, DUP_SEQ_SPACE
  <2>3. bit(s) = -diff BY <2>1
  <2> QED BY <1>0, <1>b, <1>c, <1>d, <2>1, <2>2, <2>3
<1>4. CASE diff > 0
  <2>1. /\ r.dup = FALSE /\ r.entry.seqnr = s
        /\ r.entry.array = ShiftArray(e.array, diff) \cup {0}
    BY <1>0, <1>4 DEF IsDuplicate, Entries
  <2>2. bit(s) = 0 BY <2>1, DiffType
  <2>3. \A t \in DupSeqnos : bit(t) \in Offsets =>
          \/ t = s
          \/ -olsr_seqno_diff(t, e.seqnr) = bit(t) - diff
          \/ bit(t) - diff \notin Offsets /\ -olsr_seqno_diff(t, e.seqnr) \notin Offsets
    BY <1>0, <1>4, <2>1, DiffShift
  <2>4. \A t \in DupSeqnos : t \in Recorded(r.entry) => t = s \/ t \in Recorded(e)
    <3>1. \A t \in DupSeqnos : bit(t) = 0 => t = s
      BY <2>1 DEF olsr_seqno_diff, DupSeqnos, DUP_SEQ_SPACE
    <3> QED BY <1>0, <1>b, <1>c, <2>1, <2>3, <3>1 DEF ShiftArray, Offsets
  <2>5. \A t \in Recorded(e) : InWindow(r.entry, t) => t \in Recorded(r.entry)
    BY <1>0, <1>b, <1>c, <1>d, <2>1, <2>2, <2>3 DEF ShiftArray, InWindow
  <2>6. s \notin Recorded(e)
    BY <1>0, <1>4, <1>b DEF Offsets
  <2> QED BY <1>c, <1>d, <2>1, <2>2, <2>4, <2>5, <2>6
<1> QED BY <1>0, <1>1, <1>2, <1>3, <1>4

\* The answer of olsr_message_is_duplicate with or without an entry.
LEMMA AnswerType ==
  ASSUME DupTypeOK, NEW o \in Originators, NEW s \in DupSeqnos
  PROVE  /\ olsr_message_is_duplicate(duplicate_set[o], s).entry \in Entries
         /\ olsr_message_is_duplicate(duplicate_set[o], s).dup \in BOOLEAN
<1> DEFINE v == olsr_getTimestamp(now_times, DUPLICATE_VTIME)
           e == duplicate_set[o]
<1>1. v \in Times
  BY NowType, ModRange DEF olsr_getTimestamp, Times, TIME_SPACE
<1>2. e \in Entries \cup {NoEntry} BY DEF DupTypeOK
<1> HIDE DEF v, e
<1>3. CASE e = NoEntry
  BY <1>1, <1>3 DEF olsr_message_is_duplicate, olsr_create_duplicate_entry,
                    Entries, Offsets, v, e
<1>4. CASE e # NoEntry
  <2>1. UpdateTimestamp(e, v) \in Entries
    BY <1>1, <1>2, <1>4 DEF UpdateTimestamp, Entries
  <2> QED BY <1>4, <2>1, IsDuplicateType DEF olsr_message_is_duplicate, v, e
<1> QED BY <1>3, <1>4

\* A refreshed entry records the same numbers.
LEMMA RefreshedRecords ==
  ASSUME NEW e \in Entries, NEW v \in Times
  PROVE  /\ UpdateTimestamp(e, v) \in Entries
         /\ UpdateTimestamp(e, v).seqnr = e.seqnr
         /\ Recorded(UpdateTimestamp(e, v)) = Recorded(e)
<1>1. /\ UpdateTimestamp(e, v) \in Entries
      /\ UpdateTimestamp(e, v).seqnr = e.seqnr
      /\ UpdateTimestamp(e, v).array = e.array
  BY DEF UpdateTimestamp, Entries
<1> QED BY <1>1 DEF Recorded, InWindow

\* A message keeps the type invariant.
LEMMA ReceiveType ==
  ASSUME DupTypeOK, NEW o \in Originators, NEW s \in DupSeqnos, Receive(o, s)
  PROVE  DupTypeOK'
<1>1. duplicate_set' \in [Originators -> Entries \cup {NoEntry}]
  BY AnswerType DEF DupTypeOK, Receive
<1>2. clock' \in 0 .. MaxClock BY DEF DupTypeOK, Receive
<1>3. heard' \in [Originators -> 0 .. MaxClock] BY DEF DupTypeOK, Receive, Observe
<1>4. forwarded' \in [Originators -> SUBSET DupSeqnos] BY DEF DupTypeOK, Receive, Observe
<1>5. creator' \in [Originators -> SUBSET DupSeqnos] BY DEF DupTypeOK, Receive, Observe
<1>6. repeated' \in [Originators -> SUBSET DupSeqnos] BY DEF DupTypeOK, Receive, Observe
<1> QED BY <1>1, <1>2, <1>3, <1>4, <1>5, <1>6 DEF DupTypeOK

\* A message keeps the inductive invariant.
LEMMA ReceiveIInv ==
  ASSUME WindowExact, NEW o \in Originators, NEW s \in DupSeqnos, Receive(o, s)
  PROVE  WindowExact'
<1> DEFINE v == olsr_getTimestamp(now_times, DUPLICATE_VTIME)
           d == duplicate_set[o]
           e == UpdateTimestamp(d, v)
           a == olsr_message_is_duplicate(d, s)
<1>0. DupTypeOK BY DEF WindowExact
<1>1. DupTypeOK' BY <1>0, ReceiveType
<1>2. /\ duplicate_set'[o] = a.entry
      /\ \A p \in Originators \ {o} :
           /\ duplicate_set'[p] = duplicate_set[p] /\ forwarded'[p] = forwarded[p]
           /\ creator'[p] = creator[p] /\ repeated'[p] = repeated[p]
  BY <1>0 DEF DupTypeOK, Receive, Observe
<1>3. a.entry \in Entries /\ a.entry # NoEntry BY <1>0, AnswerType
<1>v. v \in Times
  BY <1>0, NowType, ModRange DEF olsr_getTimestamp, Times, TIME_SPACE
<1>f. forwarded'[o] = {t \in (IF a.dup THEN forwarded[o] ELSE forwarded[o] \cup {s}) :
                         InWindow(a.entry, t)}
  BY <1>0 DEF DupTypeOK, Receive, Observe
<1>r. repeated'[o] = {t \in (IF ~a.dup /\ s \in forwarded[o]
                             THEN repeated[o] \cup {s} ELSE repeated[o]) :
                         InWindow(a.entry, t)}
  BY <1>0 DEF DupTypeOK, Receive, Observe
<1>c. creator'[o] = IF d = NoEntry THEN {s}
                    ELSE {t \in creator[o] : InWindow(a.entry, t)}
  BY <1>0 DEF DupTypeOK, Receive, Observe
<1>w. \A t \in Recorded(a.entry) : t \in DupSeqnos /\ InWindow(a.entry, t)
  BY DEF Recorded
<1>4. CASE d = NoEntry
  <2>1. a.dup = FALSE /\ a.entry.array = {} /\ a.entry.seqnr = s
    BY <1>4 DEF olsr_message_is_duplicate, olsr_create_duplicate_entry
  <2>2. Recorded(a.entry) = {} BY <2>1 DEF Recorded
  <2>3. forwarded[o] = {} /\ repeated[o] = {}
    BY <1>4 DEF WindowExact, ArrayMatchesForwarded
  <2>4. forwarded'[o] \subseteq {s} /\ repeated'[o] = {} /\ creator'[o] = {s}
    BY <1>4, <1>f, <1>r, <1>c, <2>1, <2>3
  <2> QED BY <1>1, <1>2, <1>3, <2>2, <2>4 DEF WindowExact, ArrayMatchesForwarded, OnlyCreatorRepeats
<1>5. CASE d # NoEntry
  <2>1. d \in Entries BY <1>0, <1>5 DEF DupTypeOK
  <2>2. e \in Entries /\ Recorded(e) = Recorded(d)
    BY <1>v, <2>1, RefreshedRecords
  <2>3. a = IsDuplicate(e, s) BY <1>5 DEF olsr_message_is_duplicate
  <2>4. /\ Recorded(d) \subseteq forwarded[o]
        /\ forwarded[o] \ Recorded(d) \subseteq creator[o]
        /\ repeated[o] \subseteq creator[o]
        /\ repeated[o] \subseteq Recorded(d)
    BY <1>5 DEF WindowExact, ArrayMatchesForwarded, OnlyCreatorRepeats
  <2> HIDE DEF a, d, e
  <2>5. /\ \A t \in Recorded(a.entry) : t \in Recorded(d) \/ (t = s /\ ~a.dup)
        /\ ~a.dup => s \in Recorded(a.entry)
        /\ \A t \in Recorded(d) : InWindow(a.entry, t) => t \in Recorded(a.entry)
        /\ s \in Recorded(d) => a.dup
    BY <2>2, <2>3, RecordedStep
  <2>6. Recorded(a.entry) \subseteq forwarded'[o]
    BY <1>f, <1>w, <2>4, <2>5
  <2>7. forwarded'[o] \ Recorded(a.entry) \subseteq creator'[o]
    BY <1>5, <1>f, <1>c, <2>4, <2>5
  <2>8. repeated'[o] \subseteq creator'[o]
    BY <1>5, <1>r, <1>c, <2>4, <2>5
  <2>9. repeated'[o] \subseteq Recorded(a.entry)
    BY <1>r, <2>4, <2>5
  <2> QED BY <1>1, <1>2, <1>3, <2>6, <2>7, <2>8, <2>9
          DEF WindowExact, ArrayMatchesForwarded, OnlyCreatorRepeats
<1> QED BY <1>4, <1>5

\* The cleanup keeps the inductive invariant: it drops an entry together with
\* all that was remembered about it.
LEMMA CleanupIInv ==
  ASSUME WindowExact, olsr_cleanup_duplicate_entry
  PROVE  WindowExact'
<1>0. DupTypeOK BY DEF WindowExact
<1>1. DupTypeOK' BY <1>0 DEF DupTypeOK, olsr_cleanup_duplicate_entry
<1>2. ASSUME NEW o \in Originators
      PROVE  \/ /\ duplicate_set'[o] = duplicate_set[o] /\ forwarded'[o] = forwarded[o]
                /\ creator'[o] = creator[o] /\ repeated'[o] = repeated[o]
             \/ /\ duplicate_set'[o] = NoEntry /\ forwarded'[o] = {}
                /\ creator'[o] = {} /\ repeated'[o] = {}
  BY <1>0, <1>2 DEF DupTypeOK, olsr_cleanup_duplicate_entry
<1> QED BY <1>1, <1>2 DEF WindowExact, ArrayMatchesForwarded, OnlyCreatorRepeats

\* The shutdown notice of o only changes its counter.
LEMMA NoticeIInv ==
  ASSUME WindowExact, NEW o \in Originators, olsr_cleanup_duplicates(o)
  PROVE  WindowExact'
<1>0. DupTypeOK BY DEF WindowExact
<1>1. duplicate_set[o] \in Entries BY <1>0 DEF DupTypeOK, olsr_cleanup_duplicates
<1>2. /\ duplicate_set'[o] \in Entries
      /\ duplicate_set'[o].seqnr = duplicate_set[o].seqnr
      /\ duplicate_set'[o].array = duplicate_set[o].array
  BY <1>0, <1>1 DEF DupTypeOK, olsr_cleanup_duplicates, Entries
<1>3. \A p \in Originators \ {o} : duplicate_set'[p] = duplicate_set[p]
  BY <1>0 DEF DupTypeOK, olsr_cleanup_duplicates
<1>4. UNCHANGED <<clock, forwarded, creator, repeated, heard>>
  BY DEF olsr_cleanup_duplicates
<1>5. DupTypeOK'
  <2>1. DOMAIN duplicate_set' = Originators /\ duplicate_set' = [p \in Originators |-> duplicate_set'[p]]
    BY Zenon, <1>0 DEF DupTypeOK, olsr_cleanup_duplicates
  <2>2. duplicate_set' \in [Originators -> Entries \cup {NoEntry}]
    BY <1>0, <1>2, <1>3, <2>1 DEF DupTypeOK
  <2> QED BY <1>0, <1>4, <2>2 DEF DupTypeOK
<1>6. Recorded(duplicate_set'[o]) = Recorded(duplicate_set[o])
  BY <1>2 DEF Recorded, InWindow
<1> QED BY <1>1, <1>2, <1>3, <1>4, <1>5, <1>6
        DEF WindowExact, ArrayMatchesForwarded, OnlyCreatorRepeats

\* WindowExact is an invariant of the duplicate set.
THEOREM Invariance == DupSpec => []WindowExact
<1>1. DupInit => WindowExact
  BY DEF DupInit, WindowExact, DupTypeOK, ArrayMatchesForwarded, OnlyCreatorRepeats
<1>2. WindowExact /\ [DupNext]_dupVars => WindowExact'
  <2> SUFFICES ASSUME WindowExact, [DupNext]_dupVars PROVE WindowExact'
    OBVIOUS
  <2>1. ASSUME NEW o \in Originators, NEW s \in DupSeqnos, Receive(o, s) PROVE WindowExact'
    BY <2>1, ReceiveIInv
  <2>2. CASE olsr_cleanup_duplicate_entry
    BY <2>2, CleanupIInv
  <2>3. ASSUME NEW o \in Originators, olsr_cleanup_duplicates(o) PROVE WindowExact'
    BY <2>3, NoticeIInv
  <2>4. CASE Tick
    BY <2>4 DEF Tick, WindowExact, DupTypeOK, ArrayMatchesForwarded, OnlyCreatorRepeats
  <2>5. CASE UNCHANGED dupVars
    BY <2>5 DEF dupVars, WindowExact, DupTypeOK, ArrayMatchesForwarded, OnlyCreatorRepeats
  <2> QED BY <2>1, <2>2, <2>3, <2>4, <2>5 DEF DupNext
<1> QED BY <1>1, <1>2, PTL DEF DupSpec

\* The entries keep the field widths of struct dup_entry: the restart counter
\* never passes DUP_MAX_TOO_LOW and no bit leaves the word.
THEOREM TypeCorrect == DupSpec => []DupTypeOK
<1>1. WindowExact => DupTypeOK BY DEF WindowExact
<1> QED BY <1>1, Invariance, PTL

\* The bit array of src/duplicate_set.c is an exact memory of the messages
\* let through, but for the one that created the entry.
THEOREM ArrayExact == DupSpec => []ArrayMatchesForwarded
<1>1. WindowExact => ArrayMatchesForwarded BY DEF WindowExact
<1> QED BY <1>1, Invariance, PTL

\* A remembered message other than the creator of the entry is forwarded at
\* most once, and the creator at most twice.
THEOREM AtMostOnce == DupSpec => []OnlyCreatorRepeats
<1>1. WindowExact => OnlyCreatorRepeats BY DEF WindowExact
<1> QED BY <1>1, Invariance, PTL

\* olsr_message_is_duplicate blocks no message that is new to the window.
THEOREM FreshPasses == DupSpec => NoFreshMessageBlocked
<1> DEFINE Fresh == \A o \in Originators, s \in DupSeqnos :
             /\ Receive(o, s)
             /\ duplicate_set[o] # NoEntry
             /\ olsr_seqno_diff(s, duplicate_set[o].seqnr) > -WINDOW
             /\ s \notin forwarded[o]
             => s \in forwarded'[o]
<1>1. WindowExact => Fresh
  <2> SUFFICES ASSUME WindowExact, NEW o \in Originators, NEW s \in DupSeqnos,
                      Receive(o, s), duplicate_set[o] # NoEntry,
                      olsr_seqno_diff(s, duplicate_set[o].seqnr) > -WINDOW,
                      s \notin forwarded[o]
               PROVE  s \in forwarded'[o]
    OBVIOUS
  <2> DEFINE v == olsr_getTimestamp(now_times, DUPLICATE_VTIME)
             d == duplicate_set[o]
             e == UpdateTimestamp(d, v)
             a == olsr_message_is_duplicate(d, s)
  <2>0. DupTypeOK BY DEF WindowExact
  <2>1. v \in Times
    BY <2>0, NowType, ModRange DEF olsr_getTimestamp, Times, TIME_SPACE
  <2>2. d \in Entries BY <2>0 DEF DupTypeOK
  <2>3. e \in Entries /\ e.seqnr = d.seqnr /\ Recorded(e) = Recorded(d)
    BY <2>1, <2>2, RefreshedRecords
  <2>4. a = IsDuplicate(e, s) BY DEF olsr_message_is_duplicate
  <2>5. s \notin Recorded(d) BY DEF WindowExact, ArrayMatchesForwarded
  <2>6. ~a.dup /\ s \in Recorded(a.entry)
    BY <2>3, <2>4, <2>5, RecordedStep
  <2>7. InWindow(a.entry, s) BY <2>6 DEF Recorded
  <2>8. forwarded'[o] = {t \in (IF a.dup THEN forwarded[o] ELSE forwarded[o] \cup {s}) :
                           InWindow(a.entry, t)}
    BY <2>0 DEF DupTypeOK, Receive, Observe
  <2> QED BY <2>6, <2>7, <2>8
<1>2. WindowExact /\ [DupNext]_dupVars => [Fresh]_dupVars BY <1>1
<1> QED BY <1>2, Invariance, PTL DEF DupSpec, NoFreshMessageBlocked

----------------------------------------------------------------------------
\* The clock does not wrap during the behaviour.
NoWrap == StartTime + MaxClock + DUPLICATE_VTIME < TIME_SPACE

\* While the clock does not wrap, the deadline of an entry is DUPLICATE_VTIME
\* after the last message.
Timely ==
  \A o \in Originators :
    /\ heard[o] <= clock
    /\ duplicate_set[o] # NoEntry =>
         duplicate_set[o].valid_until = StartTime + heard[o] + DUPLICATE_VTIME

LEMMA NowNoWrap ==
  ASSUME DupTypeOK, NoWrap
  PROVE  /\ now_times = StartTime + clock
         /\ olsr_getTimestamp(now_times, DUPLICATE_VTIME)
              = StartTime + clock + DUPLICATE_VTIME
<1>1. now_times = StartTime + clock
  BY ModWrap DEF DupTypeOK, NoWrap, now_times, Times, TIME_SPACE
<1> QED BY <1>1, ModWrap DEF DupTypeOK, NoWrap, olsr_getTimestamp, Times, TIME_SPACE

LEMMA TimelyInv ==
  ASSUME NoWrap
  PROVE  DupSpec => []Timely
<1>1. DupInit => Timely BY DEF DupInit, Timely
<1>2. WindowExact /\ Timely /\ [DupNext]_dupVars => Timely'
  <2> SUFFICES ASSUME WindowExact, Timely, [DupNext]_dupVars PROVE Timely'
    OBVIOUS
  <2>0. DupTypeOK BY DEF WindowExact
  <2>1. ASSUME NEW o \in Originators, NEW s \in DupSeqnos, Receive(o, s) PROVE Timely'
    <3> DEFINE v == olsr_getTimestamp(now_times, DUPLICATE_VTIME)
               d == duplicate_set[o]
               a == olsr_message_is_duplicate(d, s)
    <3>1. v = StartTime + clock + DUPLICATE_VTIME BY <2>0, NowNoWrap
    <3>2. /\ duplicate_set'[o] = a.entry /\ heard'[o] = clock /\ clock' = clock
          /\ \A p \in Originators \ {o} :
               duplicate_set'[p] = duplicate_set[p] /\ heard'[p] = heard[p]
      BY <2>0, <2>1 DEF DupTypeOK, Receive, Observe
    <3>3. a.entry.valid_until = v
      <4>1. CASE d = NoEntry
        BY <4>1 DEF olsr_message_is_duplicate, olsr_create_duplicate_entry
      <4>2. CASE d # NoEntry
        <5>1. d \in Entries BY <2>0, <4>2 DEF DupTypeOK
        <5>2. d.valid_until = StartTime + heard[o] + DUPLICATE_VTIME /\ heard[o] <= clock
          BY <4>2 DEF Timely
        <5>3. UpdateTimestamp(d, v).valid_until = v
          BY <2>0, <3>1, <5>1, <5>2 DEF UpdateTimestamp, Entries, DupTypeOK, Times
        <5>4. a = IsDuplicate(UpdateTimestamp(d, v), s)
          BY <4>2 DEF olsr_message_is_duplicate
        <5> QED BY <5>3, <5>4 DEF IsDuplicate
      <4> QED BY <4>1, <4>2
    <3>4. clock \in 0 .. MaxClock BY <2>0 DEF DupTypeOK
    <3> HIDE DEF v, a
    <3> QED BY <3>1, <3>2, <3>3, <3>4 DEF Timely
  <2>2. CASE olsr_cleanup_duplicate_entry
    BY <2>0, <2>2 DEF olsr_cleanup_duplicate_entry, Timely, DupTypeOK
  <2>3. ASSUME NEW o \in Originators, olsr_cleanup_duplicates(o) PROVE Timely'
    <3>1. duplicate_set[o] \in Entries BY <2>0, <2>3 DEF DupTypeOK, olsr_cleanup_duplicates
    <3>2. /\ duplicate_set'[o].valid_until = duplicate_set[o].valid_until
          /\ \A p \in Originators \ {o} : duplicate_set'[p] = duplicate_set[p]
          /\ UNCHANGED <<clock, heard>>
      BY <2>0, <2>3, <3>1 DEF DupTypeOK, olsr_cleanup_duplicates, Entries
    <3> QED BY <2>3, <3>1, <3>2 DEF Timely, olsr_cleanup_duplicates
  <2>4. CASE Tick
    BY <2>0, <2>4 DEF Tick, Timely, DupTypeOK
  <2>5. CASE UNCHANGED dupVars
    BY <2>5 DEF dupVars, Timely
  <2> QED BY <2>1, <2>2, <2>3, <2>4, <2>5 DEF DupNext
<1> QED BY <1>1, <1>2, Invariance, PTL DEF DupSpec

\* While the 32-bit clock does not wrap, olsr_cleanup_duplicate_entry forgets
\* an originator only DUPLICATE_VTIME after its last message.
THEOREM ForgetsOnlySilent ==
  ASSUME NoWrap
  PROVE  DupSpec => ForgottenOnlyWhenSilent
<1> DEFINE Silent == \A o \in Originators :
             duplicate_set[o] # NoEntry /\ duplicate_set'[o] = NoEntry
               => clock - heard[o] >= DUPLICATE_VTIME
<1>1. WindowExact /\ Timely /\ DupNext => Silent
  <2> SUFFICES ASSUME WindowExact, Timely, DupNext, NEW o \in Originators,
                      duplicate_set[o] # NoEntry, duplicate_set'[o] = NoEntry
               PROVE  clock - heard[o] >= DUPLICATE_VTIME
    OBVIOUS
  <2>0. DupTypeOK BY DEF WindowExact
  <2>1. ASSUME NEW p \in Originators, NEW s \in DupSeqnos, Receive(p, s) PROVE FALSE
    BY <2>0, <2>1, AnswerType DEF Receive, DupTypeOK
  <2>2. ASSUME NEW p \in Originators, olsr_cleanup_duplicates(p) PROVE FALSE
    <3>1. duplicate_set[p] \in Entries BY <2>0, <2>2 DEF DupTypeOK, olsr_cleanup_duplicates
    <3>2. duplicate_set'[p] \in Entries
      BY <2>0, <2>2, <3>1 DEF DupTypeOK, olsr_cleanup_duplicates, Entries
    <3>3. o # p => duplicate_set'[o] = duplicate_set[o]
      BY <2>0, <2>2 DEF DupTypeOK, olsr_cleanup_duplicates
    <3> QED BY <3>2, <3>3
  <2>3. CASE olsr_cleanup_duplicate_entry
    <3>1. olsr_isTimedOut(now_times, duplicate_set[o].valid_until)
      BY <2>0, <2>3 DEF olsr_cleanup_duplicate_entry, Expired, DupTypeOK
    <3>2. now_times = StartTime + clock BY <2>0, NowNoWrap
    <3>3. duplicate_set[o].valid_until = StartTime + heard[o] + DUPLICATE_VTIME
      BY DEF Timely
    <3> QED BY <2>0, <3>1, <3>2, <3>3
            DEF olsr_isTimedOut, DupTypeOK, Times, TIME_SPACE, NoWrap, Timely
  <2>4. CASE Tick BY <2>4 DEF Tick
  <2> QED BY <2>1, <2>2, <2>3, <2>4 DEF DupNext
<1>2. WindowExact /\ Timely /\ [DupNext]_dupVars => [Silent]_dupVars BY <1>1
<1> QED BY <1>2, Invariance, TimelyInv, PTL DEF DupSpec, ForgottenOnlyWhenSilent

\* While the clock does not wrap, both: no fresh message is blocked and no node that is
\* still heard is forgotten.
THEOREM MemoryIsKept ==
  ASSUME NoWrap
  PROVE  DupSpec => MemoryKept
BY FreshPasses, ForgetsOnlySilent DEF MemoryKept
=============================================================================
