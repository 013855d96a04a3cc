---------------------------- MODULE HnaSetProofs ----------------------------
(***************************************************************************)
(* Proofs about the prefixes of the topology: for every set of originators, *)
(* networks and aliases, and whatever prefixes they share, no path outlives *)
(* the announcement it was made for, no live network loses its path unseen, *)
(* and the SPF is told when the paths change.                               *)
(*                                                                          *)
(* The handlers are compositions of operators on a record of the tables, so *)
(* the invariant is stated of such a record (Sound) and each operator is    *)
(* shown to keep it.                                                        *)
(***************************************************************************)
EXTENDS HnaSet, TLAPS

Paths == HnaOriginators \X HnaPrefixes

Tables == [tc : SUBSET HnaOriginators, rtp : SUBSET Paths, hna : SUBSET HnaOriginators,
           nets : SUBSET Paths, main : [Aliases -> HnaOriginators \cup {NOMAIN}],
           changed : BOOLEAN, cut : SUBSET Paths, shared : SUBSET Paths]

\* A path of the tables s and what it was made for.
Sourced(s, r) == \/ r[2] = Host(r[1]) \/ r \in s.nets
                 \/ r[2] \in Aliases /\ s.main[r[2]] = r[1]
                 \/ r \in s.shared

Sound(s) ==
  /\ s \in Tables
  /\ s.rtp \subseteq s.tc \X HnaPrefixes /\ s.cut \subseteq s.nets /\ s.shared \subseteq s.rtp
  /\ s.hna = {n[1] : n \in s.nets}
  /\ \A r \in s.rtp : Sourced(s, r)
  /\ \A n \in s.nets : n \in s.rtp \/ n \in s.cut

\* From s to t the paths changed only with the flag, and the flag was not taken back.
Seen(s, t) == s.changed \/ t.rtp # s.rtp => t.changed

LEMMA SeenTransitive ==
  ASSUME NEW s, NEW t, NEW u, Seen(s, t), Seen(t, u)
  PROVE  Seen(s, u)
BY DEF Seen

LEMMA PairsArePaths ==
  ASSUME NEW o \in HnaOriginators, NEW ps, ps \subseteq HnaPrefixes
  PROVE  {<<o, p>> : p \in ps} \in SUBSET Paths
BY DEF Paths

LEMMA SoundIsInvariant ==
  hna_heard \subseteq hna_tc /\ Sound(HnaNow) <=> RoutesMatchAnnouncements
<1>1. HnaNow \in Tables <=>
        /\ hna_tc \subseteq HnaOriginators /\ rtp \subseteq Paths /\ hna \subseteq HnaOriginators
        /\ hna_nets \subseteq Paths /\ hna_main \in [Aliases -> HnaOriginators \cup {NOMAIN}]
        /\ hna_changed \in BOOLEAN /\ hna_cut \subseteq Paths /\ hna_shared \subseteq Paths
  BY DEF HnaNow, Tables
<1>2. /\ HnaNow.tc = hna_tc /\ HnaNow.rtp = rtp /\ HnaNow.hna = hna /\ HnaNow.nets = hna_nets
      /\ HnaNow.main = hna_main /\ HnaNow.cut = hna_cut /\ HnaNow.shared = hna_shared
  BY DEF HnaNow
<1> QED
  BY <1>1, <1>2 DEF Sound, Sourced, Paths, RoutesMatchAnnouncements, HnaTypeOK, GatewaysHaveNets,
                    RoutesHaveSource, NetsHaveRoutes

----------------------------------------------------------------------------
\* What olsr_insert_routing_table makes of the tables s.
Insertion(s, t, o, ps) ==
  /\ t \in Tables
  /\ t.hna = s.hna /\ t.nets = s.nets /\ t.main = s.main /\ t.cut = s.cut /\ t.shared = s.shared
  /\ s.tc \subseteq t.tc /\ s.rtp \subseteq t.rtp
  /\ \A p \in ps : <<o, p>> \in t.rtp
  /\ \A r \in t.rtp \ s.rtp : /\ r[1] = o /\ o \in t.tc
                              /\ r[2] \in HnaPrefixes /\ r = <<o, r[2]>>
                              /\ r[2] \in ps \/ r[2] = Host(o)
  /\ Seen(s, t)

LEMMA Inserted ==
  ASSUME NEW s \in Tables, NEW o \in HnaOriginators, NEW ps \in SUBSET HnaPrefixes
  PROVE  Insertion(s, hna_insert_routing_table(s, o, ps), o, ps)
<1> DEFINE new == {<<o, p>> : p \in ps} \cup IF ps = {} \/ o \in s.tc THEN {} ELSE {<<o, Host(o)>>}
           t == hna_insert_routing_table(s, o, ps)
<1>1. Host(o) \in HnaPrefixes BY DEF HnaPrefixes
<1>2. /\ new \subseteq Paths /\ \A r \in new : r[1] = o /\ r[2] \in HnaPrefixes /\ r = <<o, r[2]>>
      /\ \A r \in new : r[2] \in ps \/ r[2] = Host(o)
      /\ \A p \in ps : <<o, p>> \in new
  BY <1>1 DEF Paths
<1>3. /\ {r[1] : r \in new} \subseteq {o} /\ new # {} => o \in {r[1] : r \in new}
  BY <1>2
<1>4. ps # {} => new # {} BY Zenon, <1>2
<1>5. t = [s EXCEPT !.tc = @ \cup {r[1] : r \in new}, !.rtp = @ \cup new,
                    !.changed = @ \/ ~(new \subseteq s.rtp)]
  BY DEF hna_insert_routing_table
<1> HIDE DEF new, t
<1>6. /\ t.tc = s.tc \cup {r[1] : r \in new} /\ t.rtp = s.rtp \cup new
      /\ t.changed = (s.changed \/ ~(new \subseteq s.rtp))
      /\ t.hna = s.hna /\ t.nets = s.nets /\ t.main = s.main /\ t.cut = s.cut
      /\ t.shared = s.shared
  BY <1>5 DEF Tables
<1>7. t \in Tables
  BY ZenonT(60), <1>2, <1>3, <1>5 DEF Tables
<1>8. Seen(s, t)
  BY Zenon, <1>6 DEF Seen
<1>9. \A r \in t.rtp \ s.rtp : r \in new BY <1>6
<1> QED BY <1>2, <1>3, <1>4, <1>6, <1>7, <1>8, <1>9 DEF t, Insertion

\* What olsr_delete_routing_table does to the tables.
LEMMA Deleted ==
  ASSUME NEW s \in Tables, NEW rs \in SUBSET Paths
  PROVE  LET t == hna_delete_routing_table(s, rs)
         IN /\ t \in Tables
            /\ t.tc = s.tc /\ t.hna = s.hna /\ t.nets = s.nets /\ t.main = s.main
            /\ t.rtp = s.rtp \ rs /\ t.shared = s.shared \ rs /\ t.cut = s.cut \cup (rs \cap s.nets)
            /\ t.changed <=> s.changed \/ rs \cap s.rtp # {}
            /\ Seen(s, t)
<1> DEFINE t == hna_delete_routing_table(s, rs)
<1>1. t = [s EXCEPT !.rtp = @ \ rs, !.cut = @ \cup (rs \cap s.nets), !.shared = @ \ rs,
                    !.changed = @ \/ rs \cap s.rtp # {}]
  BY DEF hna_delete_routing_table
<1> HIDE DEF t
<1>2. /\ t.tc = s.tc /\ t.hna = s.hna /\ t.nets = s.nets /\ t.main = s.main
      /\ t.rtp = s.rtp \ rs /\ t.shared = s.shared \ rs /\ t.cut = s.cut \cup (rs \cap s.nets)
      /\ t.changed = (s.changed \/ rs \cap s.rtp # {})
  BY <1>1 DEF Tables
<1>3. t \in Tables BY Zenon, <1>1 DEF Tables
<1> QED BY Zenon, <1>2, <1>3 DEF Seen, t

----------------------------------------------------------------------------
\* Deleting networks takes their paths, and the gateways that are left without any.
LEMMA NetsDeleted ==
  ASSUME NEW s, Sound(s), NEW ns \in SUBSET Paths, ns \subseteq s.nets
  PROVE  LET t == olsr_delete_hna_net_entry(s, ns) IN Sound(t) /\ Seen(s, t) /\ t.tc = s.tc
<1> DEFINE d == hna_delete_routing_table(s, ns)
           t == olsr_delete_hna_net_entry(s, ns)
           left == {o \in d.hna : (\A n \in ns : n[1] # o) \/ \E n \in s.nets \ ns : n[1] = o}
<1>1. s \in Tables BY DEF Sound
<1>2. /\ d \in Tables
      /\ d.tc = s.tc /\ d.hna = s.hna /\ d.nets = s.nets /\ d.main = s.main
      /\ d.rtp = s.rtp \ ns /\ d.shared = s.shared \ ns /\ d.cut = s.cut \cup (ns \cap s.nets)
      /\ Seen(s, d)
  BY <1>1, Deleted
<1>3. t = [d EXCEPT !.nets = @ \ ns, !.cut = @ \ ns, !.hna = left]
  BY DEF olsr_delete_hna_net_entry
<1> HIDE DEF d, t
<1>4. /\ t.tc = d.tc /\ t.hna = left /\ t.nets = d.nets \ ns /\ t.main = d.main
      /\ t.rtp = d.rtp /\ t.shared = d.shared /\ t.cut = d.cut \ ns /\ t.changed = d.changed
  BY <1>2, <1>3 DEF Tables
<1>5. t \in Tables BY Zenon, <1>2, <1>3 DEF Tables
<1>6. left = {n[1] : n \in s.nets \ ns}
  BY <1>2 DEF Sound
<1> HIDE DEF left
<1>7. t.rtp = s.rtp \ ns /\ t.nets = s.nets \ ns /\ t.shared = s.shared \ ns /\ t.main = s.main
  BY <1>2, <1>4
<1>8. t.cut = s.cut \ ns BY <1>2, <1>4
<1>9. \A r \in t.rtp : Sourced(t, r)
  BY <1>7 DEF Sound, Sourced
<1>10. Sound(t)
  BY <1>2, <1>4, <1>5, <1>6, <1>7, <1>8, <1>9 DEF Sound
<1>11. Seen(s, t) BY <1>2, <1>4 DEF Seen
<1> QED BY <1>2, <1>4, <1>10, <1>11 DEF t

\* Aliases of o are unregistered with their paths, whether o or nobody else listed them.
LEMMA AliasesDropped ==
  ASSUME NEW s, Sound(s), NEW o \in HnaOriginators, NEW as \in SUBSET Aliases,
         \A a \in as : s.main[a] = o
  PROVE  LET t == DropAliases(s, o, as) IN Sound(t) /\ Seen(s, t) /\ t.tc = s.tc
<1> DEFINE rs == {<<o, a>> : a \in as}
           d == hna_delete_routing_table(s, rs)
           t == DropAliases(s, o, as)
           main == [a \in Aliases |-> IF a \in as THEN NOMAIN ELSE d.main[a]]
<1>0. Aliases \subseteq HnaPrefixes BY DEF HnaPrefixes
<1>1. s \in Tables /\ rs \in SUBSET Paths BY Zenon, <1>0, PairsArePaths DEF Sound
<1>2. /\ d \in Tables
      /\ d.tc = s.tc /\ d.hna = s.hna /\ d.nets = s.nets /\ d.main = s.main
      /\ d.rtp = s.rtp \ rs /\ d.shared = s.shared \ rs /\ d.cut = s.cut \cup (rs \cap s.nets)
      /\ Seen(s, d)
  BY ZenonT(60), <1>1, Deleted
<1>3. t = [d EXCEPT !.main = main]
  BY DEF DropAliases
<1>r. \A r \in s.rtp : r \notin rs => ~(r[1] = o /\ r[2] \in as)
  <2> SUFFICES ASSUME NEW r \in s.rtp, r[1] = o, r[2] \in as PROVE r \in rs BY Zenon
  <2>1. r \in Paths BY <1>1 DEF Tables
  <2>2. r = <<r[1], r[2]>> BY <2>1 DEF Paths
  <2> QED BY Zenon, <2>2
<1> HIDE DEF d, t, rs
<1>m. main \in [Aliases -> HnaOriginators \cup {NOMAIN}] BY Zenon, <1>2 DEF Tables
<1>4. /\ t.tc = d.tc /\ t.hna = d.hna /\ t.nets = d.nets /\ t.main = main
      /\ t.rtp = d.rtp /\ t.shared = d.shared /\ t.cut = d.cut /\ t.changed = d.changed
  BY <1>2, <1>3 DEF Tables
<1>5. t \in Tables BY Zenon, <1>m, <1>2, <1>3 DEF Tables
<1>6. \A r \in t.rtp : Sourced(t, r)
  <2> SUFFICES ASSUME NEW r \in t.rtp PROVE Sourced(t, r) OBVIOUS
  <2>1. r \in s.rtp /\ r \notin rs BY <1>2, <1>4
  <2>2. Sourced(s, r) BY <2>1 DEF Sound
  <2>3. ~(r[1] = o /\ r[2] \in as) BY Zenon, <2>1, <1>r
  <2>4. CASE r[2] = Host(r[1]) \/ r \in s.nets \/ r \in s.shared
    BY Zenon, <2>1, <2>4, <1>2, <1>4 DEF Sourced
  <2>5. CASE r[2] \in Aliases /\ s.main[r[2]] = r[1]
    <3>1. r[2] \notin as BY Zenon, <2>3, <2>5
    <3>2. t.main[r[2]] = r[1] BY <3>1, <2>5, <1>2, <1>4
    <3> QED BY <3>2, <2>5 DEF Sourced
  <2> QED BY <2>2, <2>4, <2>5 DEF Sourced
<1> HIDE DEF main
<1>7. \A n \in t.nets : n \in t.rtp \/ n \in t.cut
  BY <1>2, <1>4 DEF Sound
<1>8. Sound(t)
  BY <1>2, <1>4, <1>5, <1>6, <1>7 DEF Sound
<1>9. Seen(s, t) BY <1>2, <1>4 DEF Seen
<1> QED BY <1>2, <1>4, <1>8, <1>9 DEF t

\* The tc_entry goes, and with it every path of the originator.  The flag is set if the
\* originator had the path to itself.
LEMMA TcDeleted ==
  ASSUME NEW s, Sound(s), NEW o \in HnaOriginators
  PROVE  LET t == olsr_delete_tc_entry(s, o)
         IN /\ Sound(t) /\ t.tc = s.tc \ {o}
            /\ <<o, Host(o)>> \in s.rtp => Seen(s, t)
            /\ s.changed => t.changed
<1> DEFINE rs == {<<o, Host(o)>>}
           d == hna_delete_routing_table(s, rs)
           t == olsr_delete_tc_entry(s, o)
<1>1. s \in Tables /\ rs \in SUBSET Paths BY DEF Sound, Paths, HnaPrefixes
<1>2. /\ d \in Tables
      /\ d.tc = s.tc /\ d.hna = s.hna /\ d.nets = s.nets /\ d.main = s.main
      /\ d.rtp = s.rtp \ rs /\ d.shared = s.shared \ rs /\ d.cut = s.cut \cup (rs \cap s.nets)
      /\ d.changed <=> s.changed \/ rs \cap s.rtp # {}
  BY <1>1, Deleted
<1>3. t = [d EXCEPT !.tc = @ \ {o}, !.rtp = {r \in @ : r[1] # o}, !.shared = {r \in @ : r[1] # o},
                    !.cut = @ \cup {n \in s.nets : n[1] = o}]
  BY DEF olsr_delete_tc_entry
<1>r. \A r \in rs : r[1] = o OBVIOUS
<1>h. <<o, Host(o)>> \in s.rtp => rs \cap s.rtp # {} OBVIOUS
<1> HIDE DEF d, t, rs
<1>4. /\ t.tc = d.tc \ {o} /\ t.hna = d.hna /\ t.nets = d.nets /\ t.main = d.main
      /\ t.rtp = {r \in d.rtp : r[1] # o} /\ t.shared = {r \in d.shared : r[1] # o}
      /\ t.cut = d.cut \cup {n \in s.nets : n[1] = o} /\ t.changed = d.changed
  BY <1>2, <1>3 DEF Tables
<1>5. t \in Tables BY Zenon, <1>1, <1>2, <1>3 DEF Tables
<1>6. t.rtp = {r \in s.rtp : r[1] # o} /\ t.shared = {r \in s.shared : r[1] # o}
  BY <1>r, <1>2, <1>4
<1>7. t.rtp \subseteq t.tc \X HnaPrefixes
  BY <1>2, <1>4, <1>6 DEF Sound
<1>8. \A r \in t.rtp : Sourced(t, r)
  BY <1>2, <1>4, <1>6 DEF Sound, Sourced
<1>9. \A n \in t.nets : n \in t.rtp \/ n \in t.cut
  BY <1>2, <1>4, <1>6 DEF Sound
<1>10. Sound(t)
  BY <1>2, <1>4, <1>5, <1>6, <1>7, <1>8, <1>9 DEF Sound
<1>11. <<o, Host(o)>> \in s.rtp => Seen(s, t)
  BY <1>2, <1>4, <1>h DEF Seen
<1> QED BY <1>2, <1>4, <1>10, <1>11 DEF t

----------------------------------------------------------------------------
\* olsr_input_hna: the networks of one message are entered with their paths.
LEMMA HnaEntered ==
  ASSUME NEW s, Sound(s), NEW o \in HnaOriginators, NEW ps \in SUBSET HnaPrefixes
  PROVE  LET t == olsr_update_hna_entry(s, o, ps) IN Sound(t) /\ Seen(s, t) /\ s.tc \subseteq t.tc
<1> DEFINE ns == {<<o, p>> : p \in ps}
           a == olsr_add_hna_net(s, ns)
           i == hna_insert_routing_table(a, o, ps)
           t == olsr_update_hna_entry(s, o, ps)
<1>1. s \in Tables /\ ns \in SUBSET Paths BY PairsArePaths DEF Sound
<1>2. \A n \in ns : n[1] = o OBVIOUS
<1>3. a = [s EXCEPT !.hna = @ \cup {n[1] : n \in ns}, !.nets = @ \cup ns,
                    !.changed = @ \/ ~(ns \subseteq s.nets)]
  BY DEF olsr_add_hna_net
<1>4. \A p \in ps : <<o, p>> \in i.rtp => \A n \in ns : n = <<o, p>> => n \in i.rtp OBVIOUS
<1>5. t = [i EXCEPT !.cut = @ \ ns] BY DEF olsr_update_hna_entry
<1>n. (\A p \in ps : <<o, p>> \in i.rtp) => ns \subseteq i.rtp OBVIOUS
<1>p. \A r : r = <<o, r[2]>> /\ r[2] \in ps => r \in ns OBVIOUS
<1> HIDE DEF ns, a, t
<1>6. /\ a.tc = s.tc /\ a.rtp = s.rtp /\ a.hna = s.hna \cup {n[1] : n \in ns}
      /\ a.nets = s.nets \cup ns /\ a.main = s.main /\ a.cut = s.cut /\ a.shared = s.shared
      /\ s.changed => a.changed
  BY <1>1, <1>3 DEF Tables
<1>7. a \in Tables BY ZenonT(60), <1>1, <1>2, <1>3 DEF Tables
<1>8. Insertion(a, i, o, ps) BY <1>7, Inserted
<1> USE DEF Insertion
<1>9. ns \subseteq i.rtp BY <1>8, <1>n
<1> HIDE DEF i
<1>10. /\ t.tc = i.tc /\ t.rtp = i.rtp /\ t.hna = i.hna /\ t.nets = i.nets /\ t.main = i.main
       /\ t.cut = i.cut \ ns /\ t.shared = i.shared /\ t.changed = i.changed
  BY <1>5, <1>8 DEF Tables
<1>11. t \in Tables BY <1>5, <1>8 DEF Tables
<1>12. t.hna = {n[1] : n \in t.nets}
  BY <1>6, <1>8, <1>10 DEF Sound
<1>13. \A r \in t.rtp : Sourced(t, r)
  <2> SUFFICES ASSUME NEW r \in t.rtp PROVE Sourced(t, r) OBVIOUS
  <2>1. CASE r \in s.rtp
    BY <2>1, <1>6, <1>8, <1>10 DEF Sound, Sourced
  <2>2. CASE r \notin s.rtp
    <3>1. /\ r[1] = o /\ r = <<o, r[2]>> /\ (r[2] \in ps \/ r[2] = Host(o))
      BY <2>2, <1>6, <1>8, <1>10
    <3>2. r[2] \in ps => r \in t.nets BY <3>1, <1>p, <1>6, <1>8, <1>10
    <3> QED BY <3>1, <3>2 DEF Sourced
  <2> QED BY <2>1, <2>2
<1>14. t.rtp \subseteq t.tc \X HnaPrefixes
  <2> SUFFICES ASSUME NEW r \in t.rtp PROVE r \in t.tc \X HnaPrefixes OBVIOUS
  <2>1. CASE r \in s.rtp
    BY <2>1, <1>6, <1>8, <1>10 DEF Sound
  <2>2. CASE r \notin s.rtp
    BY <2>2, <1>6, <1>8, <1>10
  <2> QED BY <2>1, <2>2
<1>15. \A n \in t.nets : n \in t.rtp \/ n \in t.cut
  BY <1>6, <1>8, <1>9, <1>10 DEF Sound
<1>16. t.cut \subseteq t.nets /\ t.shared \subseteq t.rtp
  BY <1>6, <1>8, <1>10 DEF Sound
<1>17. Sound(t) BY <1>11, <1>12, <1>13, <1>14, <1>15, <1>16 DEF Sound
<1>18. Seen(s, t) BY <1>6, <1>8, <1>10 DEF Seen
<1> QED BY <1>6, <1>8, <1>10, <1>17, <1>18 DEF t

\* olsr_input_mid: the aliases of one message get paths, and a main address if they had
\* none.
LEMMA AliasesEntered ==
  ASSUME NEW s, Sound(s), NEW o \in HnaOriginators, NEW as \in SUBSET Aliases
  PROVE  LET t == MidAlias(s, o, as) IN Sound(t) /\ Seen(s, t) /\ s.tc \subseteq t.tc
<1> DEFINE i == hna_insert_routing_table(s, o, as)
<1>0. as \in SUBSET HnaPrefixes BY Zenon DEF HnaPrefixes
<1>s. s \in Tables BY DEF Sound
<1>1. Insertion(s, i, o, as) BY Zenon, <1>s, <1>0, Inserted
<1> USE DEF Insertion
<1> DEFINE t == MidAlias(s, o, as)
           main == [a \in Aliases |-> IF a \in as /\ i.main[a] = NOMAIN THEN o ELSE i.main[a]]
           more == {<<o, a>> : a \in {b \in as : s.main[b] \notin {o, NOMAIN}}}
<1>2. t = [i EXCEPT !.main = main, !.shared = @ \cup more] BY DEF MidAlias
<1>3. more \subseteq i.rtp BY Zenon, <1>1
<1>4. main \in [Aliases -> HnaOriginators \cup {NOMAIN}] BY Zenon, <1>1 DEF Tables
<1>p. \A r : r = <<o, r[2]>> /\ r[2] \in as /\ s.main[r[2]] \notin {o, NOMAIN} => r \in more BY Zenon
<1> HIDE DEF i, t, more
<1>5. /\ t.tc = i.tc /\ t.rtp = i.rtp /\ t.hna = i.hna /\ t.nets = i.nets /\ t.main = main
      /\ t.cut = i.cut /\ t.shared = i.shared \cup more /\ t.changed = i.changed
  BY <1>1, <1>2 DEF Tables
<1>6. t \in Tables
  <2>1. more \subseteq Paths BY <1>1, <1>3 DEF Tables
  <2> QED BY Zenon, <2>1, <1>1, <1>2, <1>4 DEF Tables
<1>7. \A a \in Aliases : s.main[a] # NOMAIN => main[a] = s.main[a]
  BY <1>1
<1>8. \A a \in as : s.main[a] = NOMAIN => main[a] = o
  BY Zenon, <1>1
<1> HIDE DEF main
<1>9. \A r \in t.rtp : Sourced(t, r)
  <2> SUFFICES ASSUME NEW r \in t.rtp PROVE Sourced(t, r) OBVIOUS
  <2>1. CASE r \in s.rtp
    <3>1. Sourced(s, r) BY <2>1 DEF Sound
    <3>2. r \in Paths BY <2>1 DEF Sound, Tables
    <3>3. r[1] # NOMAIN BY <3>2, HnaAssumption DEF Paths, HnaAssumption
    <3> QED BY <3>1, <3>3, <1>1, <1>5, <1>7 DEF Sourced
  <2>2. CASE r \notin s.rtp
    <3>1. /\ r[1] = o /\ r = <<o, r[2]>> /\ (r[2] \in as \/ r[2] = Host(o))
      BY Zenon, <2>2, <1>1, <1>5
    <3>2. CASE r[2] \in as
      <4>1. CASE s.main[r[2]] = NOMAIN BY Zenon, <3>1, <3>2, <4>1, <1>5, <1>8 DEF Sourced
      <4>2. CASE s.main[r[2]] = o
        <5>1. o # NOMAIN BY HnaAssumption DEF HnaAssumption
        <5> QED BY Zenon, <3>1, <3>2, <4>2, <5>1, <1>5, <1>7 DEF Sourced
      <4>3. CASE s.main[r[2]] \notin {o, NOMAIN} BY Zenon, <3>1, <3>2, <4>3, <1>p, <1>5 DEF Sourced
      <4> QED BY <4>1, <4>2, <4>3
    <3> QED BY Zenon, <3>1, <3>2 DEF Sourced
  <2> QED BY <2>1, <2>2
<1>10. t.rtp \subseteq t.tc \X HnaPrefixes
  <2> SUFFICES ASSUME NEW r \in t.rtp PROVE r \in t.tc \X HnaPrefixes OBVIOUS
  <2>1. CASE r \in s.rtp
    BY <2>1, <1>1, <1>5 DEF Sound
  <2>2. CASE r \notin s.rtp
    <3>1. r[1] = o /\ o \in t.tc /\ r[2] \in HnaPrefixes /\ r = <<o, r[2]>> BY Zenon, <2>2, <1>1, <1>5
    <3> QED BY <3>1
  <2> QED BY <2>1, <2>2
<1>11. /\ \A n \in t.nets : n \in t.rtp \/ n \in t.cut
       /\ t.cut \subseteq t.nets /\ t.shared \subseteq t.rtp /\ t.hna = {n[1] : n \in t.nets}
  BY <1>1, <1>3, <1>5 DEF Sound
<1>12. Sound(t) BY <1>6, <1>9, <1>10, <1>11 DEF Sound
<1>13. Seen(s, t) BY <1>1, <1>5 DEF Seen
<1> QED BY <1>1, <1>5, <1>12, <1>13 DEF t

----------------------------------------------------------------------------
LEMMA HnaInitSound == HnaInit => RoutesMatchAnnouncements
BY Zenon DEF HnaInit, RoutesMatchAnnouncements, HnaTypeOK, GatewaysHaveNets, RoutesHaveSource, NetsHaveRoutes

\* A handler that leaves sound tables, and no validity timer without a tc_entry, keeps
\* the invariant.
LEMMA Becoming ==
  ASSUME NEW t, Sound(t), HnaBecome(t), hna_heard' \subseteq t.tc
  PROVE  RoutesMatchAnnouncements'
<1>1. HnaNow' = t
  BY DEF HnaNow, HnaBecome, Sound, Tables
<1>2. Sound(HnaNow)' BY <1>1 DEF Sound, Sourced, Tables, Paths, HnaPrefixes
<1>3. (hna_heard \subseteq hna_tc)' BY DEF HnaBecome
<1>4. (hna_heard \subseteq hna_tc /\ Sound(HnaNow) <=> RoutesMatchAnnouncements)'
  BY SoundIsInvariant, PTL
<1> QED BY <1>2, <1>3, <1>4

\* What a step does to the paths, as the SPF sees it.
PathsSeen ==
  rtp' # rtp => hna_changed' \/ \E o \in hna_tc \ hna_tc' : <<o, Host(o)>> \notin rtp

LEMMA BecomingSeen ==
  ASSUME NEW t, HnaBecome(t), Seen(HnaNow, t)
  PROVE  PathsSeen
BY DEF HnaBecome, Seen, HnaNow, PathsSeen

\* olsr_cleanup_mid, olsr_cleanup_hna and olsr_delete_tc_entry for an empty TC.
LEMMA EmptyTcSound ==
  ASSUME NEW s, Sound(s), NEW o \in HnaOriginators
  PROVE  LET t == olsr_delete_tc_entry(olsr_cleanup_hna(olsr_delete_mid_entry(s, o), o), o)
         IN Sound(t) /\ t.tc = s.tc \ {o} /\ (<<o, Host(o)>> \in s.rtp => Seen(s, t))
<1> DEFINE m == olsr_delete_mid_entry(s, o)
           h == olsr_cleanup_hna(m, o)
           t == olsr_delete_tc_entry(h, o)
<1>1. Sound(m) /\ Seen(s, m) /\ m.tc = s.tc
  BY AliasesDropped DEF olsr_delete_mid_entry
<1> HIDE DEF m
<1>2. {n \in m.nets : n[1] = o} \in SUBSET Paths BY <1>1 DEF Sound, Tables
<1>3. Sound(h) /\ Seen(m, h) /\ h.tc = s.tc
  BY <1>1, <1>2, NetsDeleted DEF olsr_cleanup_hna
<1> HIDE DEF h
<1>4. /\ Sound(t) /\ t.tc = s.tc \ {o} /\ (<<o, Host(o)>> \in h.rtp => Seen(h, t))
      /\ h.changed => t.changed
  BY <1>3, TcDeleted
<1> HIDE DEF t
<1>5. <<o, Host(o)>> \in s.rtp => Seen(s, t)
  <2> SUFFICES ASSUME <<o, Host(o)>> \in s.rtp PROVE Seen(s, t) OBVIOUS
  <2>1. Seen(s, h) BY <1>1, <1>3, SeenTransitive
  <2>2. CASE <<o, Host(o)>> \in h.rtp BY <2>1, <2>2, <1>4, SeenTransitive
  <2>3. CASE <<o, Host(o)>> \notin h.rtp
    <3>1. h.changed BY <2>1, <2>3 DEF Seen
    <3> QED BY <3>1, <1>4 DEF Seen
  <2> QED BY <2>2, <2>3
<1> QED BY <1>4, <1>5 DEF t, h, m

\* Every handler and timer keeps the invariant, and shows the SPF what it does.
LEMMA HnaNextSound ==
  RoutesMatchAnnouncements /\ [HnaNext]_hna_vars =>
    RoutesMatchAnnouncements' /\ (PathsSeen \/ UNCHANGED hna_vars)
<1> SUFFICES ASSUME RoutesMatchAnnouncements, [HnaNext]_hna_vars
             PROVE  RoutesMatchAnnouncements' /\ (PathsSeen \/ UNCHANGED hna_vars)
  OBVIOUS
<1>0. hna_heard \subseteq hna_tc /\ Sound(HnaNow) BY SoundIsInvariant
<1>n. /\ HnaNow.tc = hna_tc /\ HnaNow.rtp = rtp /\ HnaNow.main = hna_main /\ HnaNow.nets = hna_nets
  BY DEF HnaNow
<1>1. ASSUME NEW o \in HnaOriginators, olsr_input_tc(o)
      PROVE  RoutesMatchAnnouncements' /\ PathsSeen
  <2> USE HnaAssumption DEF HnaAssumption
  <2>1. /\ hna_tc' = hna_tc \cup {o} /\ hna_heard' = hna_heard \cup {o}
        /\ rtp' = IF o \in hna_tc THEN rtp ELSE rtp \cup {<<o, Host(o)>>}
        /\ hna_changed' = (hna_changed \/ o \notin hna_tc)
        /\ UNCHANGED <<hna, hna_nets, hna_main, hna_cut, hna_shared>>
    BY <1>1 DEF olsr_input_tc, HnaBecome, HnaNow
  <2>2. Host(o) \in HnaPrefixes BY DEF HnaPrefixes
  <2>3. HnaTypeOK' BY <2>1, <2>2 DEF RoutesMatchAnnouncements, HnaTypeOK, HnaPrefixes
  <2>4. RoutesHaveSource' BY <2>1 DEF RoutesMatchAnnouncements, RoutesHaveSource
  <2>5. GatewaysHaveNets' /\ NetsHaveRoutes'
    BY <2>1 DEF RoutesMatchAnnouncements, GatewaysHaveNets, NetsHaveRoutes
  <2>6. PathsSeen BY Zenon, <2>1 DEF PathsSeen
  <2> QED BY <2>3, <2>4, <2>5, <2>6 DEF RoutesMatchAnnouncements
<1>2. ASSUME NEW o \in HnaOriginators, HnaEmptyTc(o)
      PROVE  RoutesMatchAnnouncements' /\ PathsSeen
  <2> DEFINE t == olsr_delete_tc_entry(olsr_cleanup_hna(olsr_delete_mid_entry(HnaNow, o), o), o)
  <2>1. /\ Sound(t) /\ t.tc = hna_tc \ {o}
        /\ <<o, Host(o)>> \in rtp => Seen(HnaNow, t)
    BY <1>0, <1>n, EmptyTcSound
  <2>2. HnaBecome(t) /\ hna_heard' = hna_heard \ {o} /\ o \in hna_tc
    BY <1>2 DEF HnaEmptyTc
  <2> HIDE DEF t
  <2>3. hna_heard' \subseteq t.tc BY <2>1, <2>2, <1>0
  <2>4. RoutesMatchAnnouncements' BY <2>1, <2>2, <2>3, Becoming
  <2>5. CASE <<o, Host(o)>> \in rtp BY <2>1, <2>2, <2>5, BecomingSeen, <2>4
  <2>6. CASE <<o, Host(o)>> \notin rtp
    <3>1. hna_tc' = hna_tc \ {o} BY <2>1, <2>2 DEF HnaBecome
    <3> QED BY <3>1, <2>2, <2>4, <2>6 DEF PathsSeen
  <2> QED BY <2>5, <2>6
<1>3. ASSUME NEW o \in HnaOriginators, olsr_expire_tc_entry(o)
      PROVE  RoutesMatchAnnouncements' /\ PathsSeen
  <2> DEFINE t == olsr_delete_tc_entry(HnaNow, o)
  <2>1. /\ Sound(t) /\ t.tc = hna_tc \ {o}
        /\ <<o, Host(o)>> \in rtp => Seen(HnaNow, t)
    BY <1>0, <1>n, TcDeleted
  <2>2. HnaBecome(t) /\ hna_heard' = hna_heard \ {o} /\ o \in hna_heard
    BY <1>3 DEF olsr_expire_tc_entry
  <2> HIDE DEF t
  <2>3. hna_heard' \subseteq t.tc /\ o \in hna_tc BY <2>1, <2>2, <1>0
  <2>4. RoutesMatchAnnouncements' BY <2>1, <2>2, <2>3, Becoming
  <2>5. CASE <<o, Host(o)>> \in rtp BY <2>1, <2>2, <2>5, BecomingSeen, <2>4
  <2>6. CASE <<o, Host(o)>> \notin rtp
    <3>1. hna_tc' = hna_tc \ {o} BY <2>1, <2>2 DEF HnaBecome
    <3> QED BY <3>1, <2>3, <2>4, <2>6 DEF PathsSeen
  <2> QED BY <2>5, <2>6
<1>4. ASSUME NEW o \in HnaOriginators, olsr_expire_mid_entry(o)
      PROVE  RoutesMatchAnnouncements' /\ PathsSeen
  <2> DEFINE t == olsr_delete_mid_entry(HnaNow, o)
  <2>1. Sound(t) /\ Seen(HnaNow, t) /\ t.tc = hna_tc
    BY <1>0, <1>n, AliasesDropped DEF olsr_delete_mid_entry
  <2>2. HnaBecome(t) /\ hna_heard' = hna_heard BY <1>4 DEF olsr_expire_mid_entry
  <2> HIDE DEF t
  <2> QED BY <2>1, <2>2, <1>0, Becoming, BecomingSeen
<1>5. ASSUME NEW o \in HnaOriginators, NEW ps \in SUBSET (HnaNets \cup Aliases \cup {Host(o)}),
             olsr_input_hna(o, ps)
      PROVE  RoutesMatchAnnouncements' /\ PathsSeen
  <2> DEFINE qs == ps \ (OwnAddrs \cup OwnNets)
             t == olsr_update_hna_entry(HnaNow, o, qs)
  <2>1. qs \in SUBSET HnaPrefixes BY DEF HnaPrefixes
  <2>2. HnaBecome(t) /\ hna_heard' = hna_heard BY <1>5 DEF olsr_input_hna
  <2> HIDE DEF qs
  <2>3. Sound(t) /\ Seen(HnaNow, t) /\ hna_tc \subseteq t.tc
    BY <2>1, <1>0, <1>n, HnaEntered
  <2> HIDE DEF t
  <2>4. hna_heard' \subseteq t.tc BY <2>2, <2>3, <1>0
  <2> QED BY <2>2, <2>3, <2>4, Becoming, BecomingSeen
<1>6. ASSUME NEW o \in HnaOriginators, NEW as \in SUBSET Aliases, olsr_input_mid(o, as)
      PROVE  RoutesMatchAnnouncements' /\ PathsSeen
  <2> DEFINE s1 == MidAlias(HnaNow, o, as)
             undeclared == {a \in Aliases \ as : s1.main[a] = o}
  <2>1. Sound(s1) /\ Seen(HnaNow, s1) /\ hna_tc \subseteq s1.tc
    BY Zenon, <1>0, <1>n, AliasesEntered
  <2>2. PICK over \in SUBSET undeclared : HnaBecome(olsr_prune_aliases(s1, o, over))
    BY Zenon, <1>6 DEF olsr_input_mid
  <2> DEFINE t == olsr_prune_aliases(s1, o, over)
  <2>3. hna_heard' = hna_heard BY <1>6 DEF olsr_input_mid
  <2>4. over \in SUBSET Aliases /\ \A a \in over : s1.main[a] = o BY Zenon
  <2> HIDE DEF s1
  <2>5. Sound(t) /\ Seen(s1, t) /\ t.tc = s1.tc
    BY <2>1, <2>4, AliasesDropped DEF olsr_prune_aliases
  <2>6. HnaBecome(t) BY <2>2
  <2> HIDE DEF t
  <2>7. hna_heard' \subseteq t.tc BY <2>1, <2>3, <2>5, <1>0
  <2>8. Seen(HnaNow, t) BY <2>1, <2>5, SeenTransitive
  <2> QED BY <2>5, <2>6, <2>7, <2>8, Becoming, BecomingSeen
<1>7. ASSUME NEW n \in hna_nets, olsr_expire_hna_net_entry(n)
      PROVE  RoutesMatchAnnouncements' /\ PathsSeen
  <2> DEFINE t == olsr_delete_hna_net_entry(HnaNow, {n})
  <2>1. {n} \in SUBSET Paths BY <1>0, <1>n DEF Sound, Tables
  <2>2. Sound(t) /\ Seen(HnaNow, t) /\ t.tc = hna_tc
    BY <2>1, <1>0, <1>n, NetsDeleted
  <2>3. HnaBecome(t) /\ hna_heard' = hna_heard BY <1>7 DEF olsr_expire_hna_net_entry
  <2> HIDE DEF t
  <2> QED BY <2>2, <2>3, <1>0, Becoming, BecomingSeen
<1>8. CASE olsr_process_changes
  BY Zenon, <1>8 DEF olsr_process_changes, RoutesMatchAnnouncements, HnaTypeOK, GatewaysHaveNets,
              RoutesHaveSource, NetsHaveRoutes, PathsSeen
<1>9. CASE UNCHANGED hna_vars
  BY <1>9 DEF hna_vars, RoutesMatchAnnouncements, HnaTypeOK, GatewaysHaveNets,
              RoutesHaveSource, NetsHaveRoutes
<1> QED BY <1>1, <1>2, <1>3, <1>4, <1>5, <1>6, <1>7, <1>8, <1>9 DEF HnaNext

\* For every network: no path outlives its HNA, its MID or its tc_entry, although the
\* three share the paths without counting who needs them, and a network that is
\* announced has its path or loses it only until its next HNA (olsr_update_hna_entry).
THEOREM RoutesAnnounced == HnaSpec => []RoutesMatchAnnouncements
<1>1. RoutesMatchAnnouncements /\ [HnaNext]_hna_vars => RoutesMatchAnnouncements'
  BY HnaNextSound
<1> QED BY HnaInitSound, <1>1, PTL DEF HnaSpec

\* For every network: whenever the set of paths changes, changes_hna is set for the next
\* SPF run, except where olsr_delete_tc_entry finds the path of its own address gone.
THEOREM PathChangesFlagged == HnaSpec => PathChangesSeen
<1>1. RoutesMatchAnnouncements /\ [HnaNext]_hna_vars
        => [rtp' # rtp => hna_changed' \/ \E o \in hna_tc \ hna_tc' : <<o, Host(o)>> \notin rtp]_hna_vars
  BY HnaNextSound DEF PathsSeen
<1> QED BY RoutesAnnounced, <1>1, PTL DEF HnaSpec, PathChangesSeen
=============================================================================
