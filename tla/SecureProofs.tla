---------------------------- MODULE SecureProofs ----------------------------
(***************************************************************************)
(* The proof that the timestamp exchange of the secure plugin keeps        *)
(* SecRegistered and SecExchangeKept for every set of configurations: any  *)
(* clocks, hold times, delays, losses, repetitions and restarts.           *)
(*                                                                         *)
(* The inductive invariant SecInv says what a packet under way and what an *)
(* entry can hold.  A clock reading is at most a second old, so that a     *)
(* measured difference is off by at most a second one way and a second and *)
(* the packet's delay the other (SecNear), and averages stay there.  A     *)
(* challenge is drawn once, so that a packet that answers the challenge an *)
(* entry holds was made after it was asked.                                *)
(***************************************************************************)
EXTENDS Secure, TLAPS

\* What the proofs use of the configuration k.
CnfOK(k) ==
  /\ k.delay \in Nat /\ k.hold \in Nat /\ k.exchange \in Nat
  /\ k.garbage \subseteq Int
  /\ \A n \in SecNodes : /\ k.phase[n] \in Nat /\ k.clock[n] \in Int
                         /\ SecEpoch + k.clock[n] > k.delay + 4

\* now is 0 or what n read off its clock at t or the second before.
ReadAt(k, n, now, t) ==
  now = 0 \/ (now >= SecEpoch + k.clock[n] /\ now - (SecEpoch + k.clock[n]) \in {t - 1, t})

\* d is the difference of the clock of n to the other's, but for age and delay.
SecNear(k, n, d) == d - (k.clock[n] - k.clock[SecPeer(n)]) \in -1..(1 + k.delay)

IsAnswer(p) == p.msg.type = "cres" \/ p.msg.type = "rres"

PacketOK(k, p, drawn, t) ==
  /\ p.from \in SecNodes
  /\ p.sent \in Nat /\ p.sent <= t /\ t - p.sent <= k.delay
  /\ p.timestamp \in Int /\ ReadAt(k, p.from, p.timestamp, p.sent)
  /\ p.msg.type \in {"challenge", "cres"} => p.msg.challenge \in 1..drawn
  /\ IsAnswer(p) => /\ \E c \in 1..drawn : p.msg.res_sig = <<c, p.from>>
                    /\ p.msg.timestamp = p.timestamp /\ p.msg.made = p.sent

IsEntry(e) ==
  DOMAIN e = {"diff", "challenge", "validated", "valtime", "conftime", "sound", "asked", "made"}

EntryOK(k, e, n, now, drawn, t) ==
  /\ IsEntry(e)
  /\ e.diff \in Int /\ e.challenge \in 0..drawn
  /\ e.validated \in BOOLEAN /\ e.sound \in BOOLEAN
  /\ e.asked \in Nat /\ e.asked <= t
  /\ e.validated => e.made \in Nat /\ e.asked <= e.made
  /\ e.sound => now # 0
  /\ (e.validated /\ e.sound) => SecNear(k, n, e.diff)

\* The answers in air to the challenge of e were made after it was asked.
AnswersOK(e, n, air) ==
  \A p \in air : (p.from = SecPeer(n) /\ IsAnswer(p) /\ p.msg.res_sig = <<e.challenge, p.from>>)
                   => e.asked <= p.msg.made

EntriesOK(k, entry, n, now, drawn, t, air) ==
  entry # <<>> => /\ 1 \in DOMAIN entry
                  /\ EntryOK(k, entry[1], n, now, drawn, t)
                  /\ AnswersOK(entry[1], n, air)

NodeOK(k, node, n, drawn, t, air) ==
  /\ DOMAIN node = {"now", "entry"}
  /\ node.now \in Int /\ ReadAt(k, n, node.now, t)
  /\ node.now # 0 => (node.now - (SecEpoch + k.clock[n]) + k.phase[n]) % SecPeriod = 0
  /\ EntriesOK(k, node.entry, n, node.now, drawn, t, air)

\* The inductive invariant.
SecInv ==
  /\ sec_cfg \in 1..Len(SEC_CONFIGS)
  /\ sec_time \in Nat /\ sec_drawn \in Nat
  /\ DOMAIN sec_node = SecNodes
  /\ \A n \in SecNodes : NodeOK(SecCnf, sec_node[n], n, sec_drawn, sec_time, sec_air)
  /\ \A p \in sec_air : PacketOK(SecCnf, p, sec_drawn, sec_time)
  /\ SecNoSkew

IsWork(w) == DOMAIN w = {"now", "entry", "out", "drawn", "skewed"}

\* What n holds while it handles a packet.
WorkOK(w, n) ==
  /\ IsWork(w)
  /\ sec_time \in Nat /\ sec_drawn \in Nat /\ CnfOK(SecCnf)
  /\ w.now = sec_node[n].now /\ w.now \in Int /\ ReadAt(SecCnf, n, w.now, sec_time)
  /\ w.drawn \in Nat /\ sec_drawn <= w.drawn
  /\ SecCnf.delay <= 1 => ~w.skewed
  /\ \A p \in w.out : PacketOK(SecCnf, p, w.drawn, sec_time) /\ p.from = n /\ p.sent = sec_time
  /\ EntriesOK(SecCnf, w.entry, n, w.now, w.drawn, sec_time, sec_air)
----------------------------------------------------------------------------
\* The configurations are as assumed.
LEMMA CnfHolds == SecInv => CnfOK(SecCnf)
  BY SecAssumption DEF SecInv, CnfOK, SecCnf, LOWER_DIFF

\* A difference measured with a reading of each clock is near.
LEMMA MeasuredNear ==
  ASSUME NEW k, CnfOK(k), NEW n \in SecNodes, NEW t \in Nat, NEW now \in Int, NEW ts \in Int,
         NEW sent \in Nat, sent <= t, t - sent <= k.delay, now # 0, ts # 0,
         ReadAt(k, n, now, t), ReadAt(k, SecPeer(n), ts, sent)
  PROVE  SecNear(k, n, now - ts)
  BY DEF CnfOK, ReadAt, SecNear, SecNodes, SecPeer, SecEpoch

\* SecAverage of two near differences, rounded either way, is near.
LEMMA AverageNear ==
  ASSUME NEW k, CnfOK(k), NEW n \in SecNodes, NEW a \in Int, NEW b \in Int,
         SecNear(k, n, a), SecNear(k, n, b)
  PROVE  SecAverage(a, b) \in Int /\ SecNear(k, n, SecAverage(a, b))
  BY DEF CnfOK, SecNear, SecNodes, SecPeer, SecAverage, SecHalf

\* A timestamp of 0, from a node that has not read its clock yet, is off the mark.
LEMMA UnreadSkewed ==
  ASSUME NEW k, CnfOK(k), NEW n \in SecNodes, NEW t \in Nat, NEW now \in Int, NEW d \in Int,
         now # 0, ReadAt(k, n, now, t), SecNear(k, n, d)
  PROVE  SecSkew(d - (now - 0))
  BY DEF CnfOK, ReadAt, SecNear, SecNodes, SecPeer, SecSkew, UPPER_DIFF, LOWER_DIFF, SecEpoch

\* Two near differences are no skew when packets take at most a second.
LEMMA NearNoSkew ==
  ASSUME NEW k, CnfOK(k), k.delay <= 1, NEW n \in SecNodes, NEW a \in Int, NEW b \in Int,
         SecNear(k, n, a), SecNear(k, n, b)
  PROVE  ~SecSkew(a - b)
  BY DEF CnfOK, SecNear, SecNodes, SecPeer, SecSkew, UPPER_DIFF, LOWER_DIFF

\* More challenges drawn and later times change nothing about packets.
LEMMA PacketLater ==
  ASSUME NEW k, NEW p, NEW d \in Nat, NEW t \in Nat, NEW d2 \in Nat, d <= d2,
         PacketOK(k, p, d, t)
  PROVE  PacketOK(k, p, d2, t)
  BY DEF PacketOK

\* A signed packet is as PacketOK says when its message is.
LEMMA SignedOK ==
  ASSUME NEW n \in SecNodes, NEW w, NEW msg, WorkOK(w, n),
         msg.type \in {"challenge", "cres"} => msg.challenge \in 1..w.drawn,
         msg.type \in {"cres", "rres"} =>
           /\ \E c \in 1..w.drawn : msg.res_sig = <<c, n>>
           /\ msg.timestamp = w.now /\ msg.made = sec_time
  PROVE  /\ PacketOK(SecCnf, SecSigned(w, n, msg), w.drawn, sec_time)
         /\ SecSigned(w, n, msg).from = n /\ SecSigned(w, n, msg).sent = sec_time
<1> DEFINE p == SecSigned(w, n, msg)
<1>1. p.msg = msg /\ p.from = n /\ p.timestamp = w.now /\ p.sent = sec_time
  BY DEF SecSigned
<1>2. sec_time <= sec_time /\ sec_time - sec_time <= SecCnf.delay
  BY DEF CnfOK, WorkOK
<1>3. sec_time \in Nat /\ w.now \in Int /\ ReadAt(SecCnf, n, w.now, sec_time)
  BY DEF WorkOK
<1> HIDE DEF p
<1>4. PacketOK(SecCnf, p, w.drawn, sec_time)
  BY <1>1, <1>2, <1>3 DEF PacketOK, IsAnswer
<1> QED  BY <1>1, <1>4 DEF p

\* SecOutput adds the packet and leaves the rest alone.
LEMMA OutputOK ==
  ASSUME NEW n \in SecNodes, NEW w, NEW msg, WorkOK(w, n),
         msg.type \in {"challenge", "cres"} => msg.challenge \in 1..w.drawn,
         msg.type \in {"cres", "rres"} =>
           /\ \E c \in 1..w.drawn : msg.res_sig = <<c, n>>
           /\ msg.timestamp = w.now /\ msg.made = sec_time
  PROVE  /\ WorkOK(SecOutput(w, n, msg), n)
         /\ SecOutput(w, n, msg).entry = w.entry
<1> DEFINE v == SecOutput(w, n, msg)
<1>1. /\ IsWork(v) /\ v.now = w.now /\ v.entry = w.entry
      /\ v.out = w.out \cup {SecSigned(w, n, msg)}
      /\ v.drawn = w.drawn /\ v.skewed = w.skewed
  BY DEF SecOutput, WorkOK, IsWork
<1> HIDE DEF v
<1>2. WorkOK(v, n)
  BY <1>1, SignedOK DEF WorkOK
<1> QED  BY <1>1, <1>2 DEF v

\* Another entry in place of the one of w.
LEMMA EntryPut ==
  ASSUME NEW n \in SecNodes, NEW w, WorkOK(w, n), NEW v, IsWork(v),
         v.now = w.now, v.out = w.out, v.skewed = w.skewed,
         v.drawn \in Nat, w.drawn <= v.drawn, 1 \in DOMAIN v.entry,
         EntryOK(SecCnf, v.entry[1], n, w.now, v.drawn, sec_time),
         AnswersOK(v.entry[1], n, sec_air)
  PROVE  WorkOK(v, n)
<1>1. \A p \in v.out : PacketOK(SecCnf, p, v.drawn, sec_time) /\ p.from = n /\ p.sent = sec_time
  BY PacketLater DEF WorkOK
<1>2. EntriesOK(SecCnf, v.entry, n, v.now, v.drawn, sec_time, sec_air)
  BY DEF EntriesOK
<1> QED  BY <1>1, <1>2 DEF WorkOK

\* No packet under way answers a challenge that is not drawn yet, or none.
LEMMA NoAnswers ==
  ASSUME NEW n \in SecNodes, NEW e, e.challenge = 0 \/ (e.challenge \in Nat /\ sec_drawn < e.challenge),
         sec_drawn \in Nat, \A p \in sec_air : PacketOK(SecCnf, p, sec_drawn, sec_time)
  PROVE  AnswersOK(e, n, sec_air)
<1> SUFFICES ASSUME NEW p \in sec_air, p.from = SecPeer(n), IsAnswer(p),
                    p.msg.res_sig = <<e.challenge, p.from>>
             PROVE  FALSE
  BY DEF AnswersOK
<1>1. PICK c \in 1..sec_drawn : p.msg.res_sig = <<c, p.from>>
  BY DEF PacketOK
<1> QED  BY <1>1

\* send_challenge: the entry of a node that was not known.
LEMMA SendChallengeOK ==
  ASSUME NEW n \in SecNodes, NEW w, WorkOK(w, n), NEW garbage,
         \A p \in sec_air : PacketOK(SecCnf, p, sec_drawn, sec_time)
  PROVE  WorkOK(send_challenge(w, n, garbage), n) /\ SecKnows(send_challenge(w, n, garbage))
<1> DEFINE c == w.drawn + 1
           msg == [type |-> "challenge", challenge |-> c]
           e == [diff |-> 0, challenge |-> c, validated |-> FALSE, valtime |-> garbage,
                 conftime |-> sec_time + EXCHANGE_HOLD_TIME, sound |-> FALSE,
                 asked |-> sec_time, made |-> sec_time]
           u == [w EXCEPT !.drawn = c, !.entry = <<e>>]
           v == send_challenge(w, n, garbage)
<1>1. /\ IsWork(u) /\ u.now = w.now /\ u.out = w.out /\ u.skewed = w.skewed
      /\ u.drawn = c /\ u.entry = <<e>>
  BY Zenon DEF WorkOK, IsWork
<1>2. c \in Nat /\ w.drawn <= c /\ sec_drawn < c /\ c \in 1..c /\ sec_time \in Nat
  BY DEF WorkOK
<1>3. EntryOK(SecCnf, e, n, w.now, c, sec_time)
  BY <1>2 DEF EntryOK, IsEntry
<1>4. AnswersOK(e, n, sec_air)
  BY <1>2, NoAnswers DEF WorkOK
<1>5. WorkOK(u, n)
  <2> HIDE DEF u, e, c
  <2>1. 1 \in DOMAIN u.entry /\ u.entry[1] = e
    BY <1>1
  <2> QED  BY <1>1, <1>2, <1>3, <1>4, <2>1, EntryPut
<1>6. msg.type = "challenge" /\ msg.challenge = c
  OBVIOUS
<1>7. /\ IsWork(v) /\ v.now = w.now /\ v.entry = <<e>> /\ v.drawn = c /\ v.skewed = w.skewed
      /\ v.out = w.out \cup {SecSigned(w, n, msg)}
  BY Zenon DEF send_challenge, SecDraw, SecOutput, WorkOK, IsWork
<1>8. SecSigned(u, n, msg) = SecSigned(w, n, msg)
  BY <1>1 DEF SecSigned
<1> HIDE DEF u, v, e, msg
<1>9. /\ PacketOK(SecCnf, SecSigned(u, n, msg), c, sec_time)
      /\ SecSigned(u, n, msg).from = n /\ SecSigned(u, n, msg).sent = sec_time
  BY <1>1, <1>2, <1>5, <1>6, SignedOK
<1>10. WorkOK(v, n)
  BY <1>1, <1>5, <1>7, <1>8, <1>9 DEF WorkOK
<1> QED  BY <1>7, <1>10 DEF v, SecKnows

\* send_cres: another challenge in the entry of w, asked now.
LEMMA SendCresOK ==
  ASSUME NEW n \in SecNodes, NEW w, WorkOK(w, n), SecKnows(w), NEW chal_in \in 1..sec_drawn,
         \A p \in sec_air : PacketOK(SecCnf, p, sec_drawn, sec_time), ~SecEntry(w).validated
  PROVE  WorkOK(send_cres(w, n, chal_in), n) /\ SecKnows(send_cres(w, n, chal_in))
<1> DEFINE c == w.drawn + 1
           e == w.entry[1]
           u == [w EXCEPT !.drawn = c, !.entry[1].challenge = c, !.entry[1].asked = sec_time]
           f == u.entry[1]
           msg == [type |-> "cres", challenge |-> c, timestamp |-> w.now,
                   res_sig |-> <<chal_in, n>>, made |-> sec_time]
<1>1. /\ IsWork(w) /\ 1 \in DOMAIN w.entry /\ EntryOK(SecCnf, e, n, w.now, w.drawn, sec_time)
      /\ ~e.validated
  BY DEF WorkOK, EntriesOK, SecKnows, SecEntry
<1>2. c \in Nat /\ w.drawn <= c /\ sec_drawn < c /\ c \in 1..c /\ sec_time \in Nat
      /\ chal_in \in 1..c
  BY DEF WorkOK
<1>3. /\ IsWork(u) /\ u.now = w.now /\ u.out = w.out /\ u.skewed = w.skewed /\ u.drawn = c
      /\ 1 \in DOMAIN u.entry /\ IsEntry(f) /\ f.challenge = c /\ f.asked = sec_time
      /\ f.diff = e.diff /\ f.validated = e.validated /\ f.sound = e.sound
  BY <1>1 DEF IsWork, IsEntry, EntryOK
<1>4. msg.type = "cres" /\ msg.challenge = c /\ msg.timestamp = w.now
      /\ msg.res_sig = <<chal_in, n>> /\ msg.made = sec_time
  OBVIOUS
<1>5. send_cres(w, n, chal_in) = SecOutput(u, n, msg)
  BY DEF send_cres, SecDraw
<1> HIDE DEF u, msg
<1>6. EntryOK(SecCnf, f, n, w.now, c, sec_time)
  BY <1>1, <1>2, <1>3 DEF EntryOK
<1>7. AnswersOK(f, n, sec_air)
  <2> HIDE DEF f, c
  <2> QED  BY <1>2, <1>3, NoAnswers DEF WorkOK
<1>8. WorkOK(u, n)
  <2> HIDE DEF c
  <2> QED  BY <1>2, <1>3, <1>6, <1>7, EntryPut
<1>9. u.entry # <<>>
  BY <1>3
<1> HIDE DEF c
<1>10. WorkOK(SecOutput(u, n, msg), n) /\ SecOutput(u, n, msg).entry = u.entry
  BY <1>2, <1>3, <1>4, <1>8, OutputOK
<1> QED  BY <1>5, <1>9, <1>10 DEF SecKnows

\* send_rres: nothing but a packet.
LEMMA SendRresOK ==
  ASSUME NEW n \in SecNodes, NEW w, WorkOK(w, n), NEW chal_in \in 1..sec_drawn
  PROVE  WorkOK(send_rres(w, n, chal_in), n) /\ send_rres(w, n, chal_in).entry = w.entry
<1> DEFINE msg == [type |-> "rres", timestamp |-> w.now, res_sig |-> <<chal_in, n>>,
                   made |-> sec_time]
<1>1. msg.type = "rres" /\ msg.timestamp = w.now /\ msg.res_sig = <<chal_in, n>>
      /\ msg.made = sec_time
  OBVIOUS
<1>2. chal_in \in 1..w.drawn
  BY DEF WorkOK
<1> HIDE DEF msg
<1>3. WorkOK(SecOutput(w, n, msg), n) /\ SecOutput(w, n, msg).entry = w.entry
  BY <1>1, <1>2, OutputOK
<1> QED  BY <1>3 DEF send_rres, msg

\* SecRegister, on an answer to the challenge of the entry.
LEMMA RegisterOK ==
  ASSUME NEW n \in SecNodes, NEW w, WorkOK(w, n), NEW p \in sec_air, p.from = SecPeer(n),
         \A q \in sec_air : PacketOK(SecCnf, q, sec_drawn, sec_time), IsAnswer(p), SecAnswers(w, n, p)
  PROVE  WorkOK(SecRegister(w, p), n) /\ SecKnows(SecRegister(w, p))
<1> DEFINE e == w.entry[1]
           v == SecRegister(w, p)
           f == v.entry[1]
<1>1. /\ IsWork(w) /\ 1 \in DOMAIN w.entry /\ EntryOK(SecCnf, e, n, w.now, w.drawn, sec_time)
      /\ AnswersOK(e, n, sec_air)
  BY DEF WorkOK, EntriesOK, SecAnswers, SecKnows
<1> DEFINE r == [e EXCEPT !.challenge = 0, !.validated = TRUE, !.diff = w.now - p.msg.timestamp,
                         !.valtime = sec_time + TIMESTAMP_HOLD_TIME,
                         !.sound = w.now # 0 /\ p.msg.timestamp # 0, !.made = p.msg.made]
<1>a. v = [w EXCEPT !.entry = [w.entry EXCEPT ![1] = r]]
  BY DEF SecRegister
<1>b. IsEntry(e)
  BY <1>1 DEF EntryOK
<1>c. IsEntry(r) /\ r.challenge = 0 /\ r.diff = w.now - p.msg.timestamp /\ r.asked = e.asked
      /\ r.made = p.msg.made
  BY <1>b DEF IsEntry
<1>d. r.validated = TRUE /\ r.sound = (w.now # 0 /\ p.msg.timestamp # 0)
  BY <1>b DEF IsEntry
<1> HIDE DEF r
<1>2. /\ IsWork(v) /\ v.now = w.now /\ v.out = w.out /\ v.skewed = w.skewed
      /\ v.drawn = w.drawn /\ 1 \in DOMAIN v.entry /\ f = r
  BY <1>1, <1>a DEF IsWork
<1>3. /\ p.sent \in Nat /\ p.sent <= sec_time /\ sec_time - p.sent <= SecCnf.delay
      /\ p.timestamp \in Int /\ ReadAt(SecCnf, SecPeer(n), p.timestamp, p.sent)
      /\ p.msg.timestamp = p.timestamp /\ p.msg.made = p.sent
  BY DEF PacketOK
<1>4. e.asked <= p.msg.made
  BY <1>1 DEF AnswersOK, SecAnswers, SecEntry
<1>5. (w.now # 0 /\ p.msg.timestamp # 0) => SecNear(SecCnf, n, w.now - p.msg.timestamp)
  BY <1>3, MeasuredNear DEF WorkOK
<1> HIDE DEF v
<1>6. w.drawn \in Nat /\ sec_drawn \in Nat /\ sec_time \in Nat /\ w.now \in Int
  BY DEF WorkOK
<1>7. EntryOK(SecCnf, r, n, w.now, v.drawn, sec_time)
  <2>1. r.diff \in Int /\ r.challenge \in 0..v.drawn /\ r.asked \in Nat /\ r.asked <= sec_time
    BY <1>1, <1>2, <1>3, <1>6, <1>c DEF EntryOK
  <2>2. r.validated \in BOOLEAN /\ r.sound \in BOOLEAN
    BY Zenon, <1>d
  <2>3. r.made \in Nat /\ r.asked <= r.made
    BY <1>3, <1>4, <1>c
  <2>4. r.sound => w.now # 0 /\ SecNear(SecCnf, n, r.diff)
    BY <1>5, <1>c, <1>d, Zenon
  <2> QED  BY <1>c, <2>1, <2>2, <2>3, <2>4 DEF EntryOK
<1>8. AnswersOK(r, n, sec_air)
  BY <1>c, <1>6, NoAnswers
<1>9. WorkOK(v, n)
  BY <1>2, <1>6, <1>7, <1>8, EntryPut
<1> QED  BY <1>2, <1>9 DEF v, SecKnows

\* parse_challenge.
LEMMA ParseChallengeOK ==
  ASSUME NEW n \in SecNodes, NEW w, WorkOK(w, n), NEW p \in sec_air, p.msg.type = "challenge",
         \A q \in sec_air : PacketOK(SecCnf, q, sec_drawn, sec_time), NEW garbage
  PROVE  /\ WorkOK(parse_challenge(w, n, p, garbage), n)
         /\ SecKnows(w) => SecKnows(parse_challenge(w, n, p, garbage))
<1> DEFINE new == [diff |-> 0, challenge |-> 0, validated |-> FALSE, valtime |-> garbage,
                   conftime |-> garbage, sound |-> FALSE, asked |-> sec_time, made |-> sec_time]
           known == IF SecKnows(w) THEN w ELSE [w EXCEPT !.entry = <<new>>]
           fresh == [known EXCEPT !.entry[1].diff = 0, !.entry[1].validated = FALSE,
                                  !.entry[1].conftime = sec_time + EXCHANGE_HOLD_TIME]
<1>1. WorkOK(known, n) /\ SecKnows(known)
  <2>1. CASE SecKnows(w)
    BY <2>1
  <2>2. CASE ~SecKnows(w)
    <3> DEFINE u == [w EXCEPT !.entry = <<new>>]
    <3>1. /\ IsWork(u) /\ u.now = w.now /\ u.out = w.out /\ u.skewed = w.skewed
          /\ u.drawn = w.drawn /\ u.entry = <<new>>
      BY Zenon DEF WorkOK, IsWork
    <3>2. EntryOK(SecCnf, new, n, w.now, w.drawn, sec_time)
      BY DEF EntryOK, IsEntry, WorkOK
    <3>3. new.challenge = 0
      OBVIOUS
    <3> HIDE DEF u, new
    <3>4. AnswersOK(new, n, sec_air)
      BY <3>3, NoAnswers DEF WorkOK
    <3>5. 1 \in DOMAIN u.entry /\ u.entry[1] = new /\ u.entry # <<>>
      BY <3>1
    <3>6. w.drawn \in Nat /\ w.drawn <= w.drawn
      BY DEF WorkOK
    <3>7. WorkOK(u, n)
      BY <3>1, <3>2, <3>4, <3>5, <3>6, EntryPut
    <3> QED  BY <2>2, <3>5, <3>7 DEF u, SecKnows
  <2> QED  BY <2>1, <2>2
<1> HIDE DEF known
<1>2. WorkOK(fresh, n) /\ SecKnows(fresh) /\ ~SecEntry(fresh).validated
  <2> DEFINE e == known.entry[1]
             f == fresh.entry[1]
  <2>1. /\ IsWork(known) /\ 1 \in DOMAIN known.entry
        /\ EntryOK(SecCnf, e, n, known.now, known.drawn, sec_time) /\ AnswersOK(e, n, sec_air)
    BY <1>1 DEF WorkOK, EntriesOK, SecKnows
  <2>2. IsEntry(e)
    BY <2>1 DEF EntryOK
  <2>3. /\ IsWork(fresh) /\ fresh.now = known.now /\ fresh.out = known.out
        /\ fresh.skewed = known.skewed /\ fresh.drawn = known.drawn
        /\ 1 \in DOMAIN fresh.entry /\ IsEntry(f)
    BY <2>1, <2>2 DEF IsWork, IsEntry
  <2>4. /\ f.diff = 0 /\ f.challenge = e.challenge /\ f.validated = FALSE
        /\ f.sound = e.sound /\ f.asked = e.asked
    BY <2>1, <2>2 DEF IsWork, IsEntry
  <2> HIDE DEF fresh
  <2>5. EntryOK(SecCnf, f, n, known.now, fresh.drawn, sec_time)
    <3>1. /\ f.diff \in Int /\ f.challenge \in 0..fresh.drawn /\ f.asked \in Nat
          /\ f.asked <= sec_time
      BY <2>1, <2>3, <2>4 DEF EntryOK
    <3>2. f.validated \in BOOLEAN /\ f.sound \in BOOLEAN /\ ~f.validated
          /\ (f.sound => known.now # 0)
      BY <2>1, <2>4, Zenon DEF EntryOK
    <3> QED  BY <2>3, <3>1, <3>2, Zenon DEF EntryOK
  <2>6. AnswersOK(f, n, sec_air)
    BY <2>1, <2>4, Zenon DEF AnswersOK
  <2>7. known.drawn \in Nat /\ known.drawn <= fresh.drawn
    BY <1>1, <2>3 DEF WorkOK
  <2>8. WorkOK(fresh, n)
    BY <1>1, <2>3, <2>5, <2>6, <2>7, EntryPut
  <2>9. fresh.entry # <<>>
    BY <2>3
  <2> QED  BY <2>4, <2>8, <2>9 DEF SecKnows, SecEntry
<1>3. p.msg.challenge \in 1..sec_drawn
  BY DEF PacketOK
<1> HIDE DEF fresh
<1>4. WorkOK(send_cres(fresh, n, p.msg.challenge), n)
      /\ SecKnows(send_cres(fresh, n, p.msg.challenge))
  BY <1>2, <1>3, SendCresOK
<1>5. \/ parse_challenge(w, n, p, garbage) = w
      \/ parse_challenge(w, n, p, garbage) = known
      \/ parse_challenge(w, n, p, garbage) = send_cres(fresh, n, p.msg.challenge)
  BY Zenon DEF parse_challenge, known, fresh
<1> QED  BY <1>1, <1>4, <1>5

\* check_auth.
LEMMA CheckAuthOK ==
  ASSUME NEW n \in SecNodes, NEW w, WorkOK(w, n), NEW p \in sec_air, p.from = SecPeer(n),
         \A q \in sec_air : PacketOK(SecCnf, q, sec_drawn, sec_time), NEW garbage
  PROVE  /\ WorkOK(check_auth(w, n, p, garbage), n)
         /\ SecKnows(w) => SecKnows(check_auth(w, n, p, garbage))
<1>1. CASE p.msg.type = "challenge"
  BY <1>1, ParseChallengeOK DEF check_auth
<1>2. CASE p.msg.type = "cres"
  <2>1. CASE SecAnswers(w, n, p)
    <3> DEFINE v == SecRegister(w, p)
    <3>1. WorkOK(v, n) /\ SecKnows(v)
      BY <1>2, <2>1, RegisterOK DEF IsAnswer
    <3>2. p.msg.challenge \in 1..sec_drawn
      BY <1>2 DEF PacketOK
    <3> HIDE DEF v
    <3>3. WorkOK(send_rres(v, n, p.msg.challenge), n) /\ SecKnows(send_rres(v, n, p.msg.challenge))
      BY <3>1, <3>2, SendRresOK DEF SecKnows
    <3> QED  BY <1>2, <2>1, <3>3, Zenon DEF check_auth, parse_cres, v
  <2>2. CASE ~SecAnswers(w, n, p)
    BY <1>2, <2>2, Zenon DEF check_auth, parse_cres
  <2> QED  BY <2>1, <2>2
<1>3. CASE p.msg.type = "rres"
  BY <1>3, RegisterOK DEF check_auth, parse_rres, IsAnswer
<1>4. CASE p.msg.type \notin {"challenge", "cres", "rres"}
  BY <1>4 DEF check_auth
<1> QED  BY <1>1, <1>2, <1>3, <1>4

\* check_timestamp: of the entry of a node that is registered, the difference becomes an
\* average with another near one, unless the packet is refused; it never is for skew when
\* both clocks were read and packets take at most a second.
LEMMA CheckTimestampOK ==
  ASSUME NEW n \in SecNodes, NEW w, WorkOK(w, n), NEW p \in sec_air, p.from = SecPeer(n),
         \A q \in sec_air : PacketOK(SecCnf, q, sec_drawn, sec_time), NEW garbage
  PROVE  /\ WorkOK(check_timestamp(w, n, p, garbage), n)
         /\ SecKnows(check_timestamp(w, n, p, garbage))
<1> DEFINE e == w.entry[1]
           measured == w.now - p.timestamp
<1>1. CASE ~SecKnows(w)
  BY <1>1, SendChallengeOK DEF check_timestamp
<1>2. CASE SecKnows(w) /\ ~e.validated
  BY <1>2 DEF check_timestamp, SecEntry
<1>3. CASE SecKnows(w) /\ e.validated
  <2>1. /\ IsWork(w) /\ 1 \in DOMAIN w.entry /\ EntryOK(SecCnf, e, n, w.now, w.drawn, sec_time)
        /\ AnswersOK(e, n, sec_air)
    BY <1>3 DEF WorkOK, EntriesOK, SecKnows
  <2>2. /\ w.now \in Int /\ ReadAt(SecCnf, n, w.now, sec_time) /\ sec_time \in Nat
        /\ CnfOK(SecCnf) /\ w.drawn \in Nat
    BY DEF WorkOK
  <2>3. /\ p.sent \in Nat /\ p.sent <= sec_time /\ sec_time - p.sent <= SecCnf.delay
        /\ p.timestamp \in Int /\ ReadAt(SecCnf, SecPeer(n), p.timestamp, p.sent)
    BY DEF PacketOK
  <2>4. (w.now # 0 /\ p.timestamp # 0) => SecNear(SecCnf, n, measured)
    BY <2>2, <2>3, MeasuredNear
  <2>5. /\ IsEntry(e) /\ e.diff \in Int /\ measured \in Int
        /\ (e.sound => w.now # 0 /\ SecNear(SecCnf, n, e.diff))
    BY <1>3, <2>1, <2>2, <2>3 DEF EntryOK
  <2>6. CASE SecSkew(e.diff - measured)
    <3> DEFINE v == [w EXCEPT !.skewed = @ \/ (e.sound /\ w.now # 0 /\ p.timestamp # 0)]
    <3>1. (SecCnf.delay <= 1) => ~(e.sound /\ w.now # 0 /\ p.timestamp # 0)
      BY <2>2, <2>4, <2>5, <2>6, NearNoSkew
    <3>2. /\ IsWork(v) /\ v.now = w.now /\ v.entry = w.entry /\ v.out = w.out
          /\ v.drawn = w.drawn
      BY <2>1 DEF IsWork
    <3>3. v.skewed = (w.skewed \/ (e.sound /\ w.now # 0 /\ p.timestamp # 0))
      BY <2>1 DEF IsWork
    <3>4. check_timestamp(w, n, p, garbage) = v
      BY <1>3, <2>6 DEF check_timestamp, SecEntry
    <3> HIDE DEF v, e
    <3>5. SecCnf.delay <= 1 => ~v.skewed
      BY <3>1, <3>3, Zenon DEF WorkOK
    <3>6. WorkOK(v, n)
      BY <3>2, <3>5, Zenon DEF WorkOK
    <3> QED  BY <1>3, <3>2, <3>4, <3>6 DEF SecKnows
  <2>7. CASE ~SecSkew(e.diff - measured)
    <3> DEFINE v == [w EXCEPT !.entry[1].diff = SecAverage(measured, e.diff),
                              !.entry[1].valtime = sec_time + TIMESTAMP_HOLD_TIME]
               f == v.entry[1]
    <3>1. check_timestamp(w, n, p, garbage) = v
      BY <1>3, <2>7 DEF check_timestamp, SecEntry
    <3>2. /\ IsWork(v) /\ v.now = w.now /\ v.out = w.out /\ v.drawn = w.drawn
          /\ v.skewed = w.skewed /\ 1 \in DOMAIN v.entry /\ IsEntry(f)
      BY <2>1, <2>5 DEF IsWork, IsEntry
    <3>3. /\ f.diff = SecAverage(measured, e.diff) /\ f.challenge = e.challenge
          /\ f.validated = e.validated /\ f.sound = e.sound /\ f.asked = e.asked
          /\ f.made = e.made
      BY <2>1, <2>5 DEF IsWork, IsEntry
    <3>4. e.sound => p.timestamp # 0
      BY <2>2, <2>5, <2>7, UnreadSkewed
    <3>5. SecAverage(measured, e.diff) \in Int
      BY <2>5 DEF SecAverage, SecHalf
    <3>6. e.sound => SecNear(SecCnf, n, SecAverage(measured, e.diff))
      BY <2>2, <2>4, <2>5, <3>4, AverageNear
    <3> HIDE DEF v, e, measured
    <3>7. EntryOK(SecCnf, f, n, w.now, v.drawn, sec_time)
      BY <2>1, <3>2, <3>3, <3>5, <3>6, Zenon DEF EntryOK
    <3>8. AnswersOK(f, n, sec_air)
      BY <2>1, <3>3, Zenon DEF AnswersOK
    <3>9. v.drawn \in Nat /\ w.drawn <= v.drawn
      BY <2>2, <3>2
    <3>10. WorkOK(v, n)
      BY <3>2, <3>7, <3>8, <3>9, EntryPut
    <3> QED  BY <3>1, <3>2, <3>10 DEF SecKnows
  <2> QED  BY <2>6, <2>7
<1> QED  BY <1>1, <1>2, <1>3

\* secure_preprocessor keeps WorkOK, and no handler forgets a node.
LEMMA PreprocessorOK ==
  ASSUME NEW n \in SecNodes, NEW w, WorkOK(w, n), NEW p \in sec_air, p.from = SecPeer(n),
         \A q \in sec_air : PacketOK(SecCnf, q, sec_drawn, sec_time), NEW garbage
  PROVE  /\ WorkOK(secure_preprocessor(w, n, p, garbage), n)
         /\ SecKnows(w) => SecKnows(secure_preprocessor(w, n, p, garbage))
<1> DEFINE v == check_auth(w, n, p, garbage)
<1>1. WorkOK(v, n) /\ (SecKnows(w) => SecKnows(v))
  BY CheckAuthOK
<1> HIDE DEF v
<1>2. WorkOK(check_timestamp(v, n, p, garbage), n) /\ SecKnows(check_timestamp(v, n, p, garbage))
  BY <1>1, CheckTimestampOK
<1> QED  BY <1>1, <1>2, Zenon DEF secure_preprocessor, validate_packet, v
----------------------------------------------------------------------------
\* What a handler starts from.
LEMMA WorkHolds ==
  ASSUME SecInv, NEW n \in SecNodes
  PROVE  WorkOK(SecWork(n), n) /\ SecWork(n).entry = sec_node[n].entry
<1> DEFINE w == SecWork(n)
<1>1. /\ IsWork(w) /\ w.now = sec_node[n].now /\ w.entry = sec_node[n].entry /\ w.out = {}
      /\ w.drawn = sec_drawn /\ w.skewed = sec_skewed
  BY DEF SecWork, IsWork
<1>2. NodeOK(SecCnf, sec_node[n], n, sec_drawn, sec_time, sec_air)
  BY DEF SecInv
<1> HIDE DEF w
<1>3. sec_drawn <= w.drawn /\ w.drawn \in Nat
  BY <1>1 DEF SecInv
<1>4. WorkOK(w, n)
  BY <1>1, <1>2, <1>3, CnfHolds DEF WorkOK, NodeOK, SecInv, SecNoSkew
<1> QED  BY <1>1, <1>4 DEF w

\* SecCommit: of the other node's entry, what n sent now answers no challenge too early.
LEMMA CommitInv ==
  ASSUME SecInv, NEW n \in SecNodes, NEW w, WorkOK(w, n), NEW air \in SUBSET sec_air,
         SecCommit(n, w, air)
  PROVE  SecInv' /\ \A m \in SecNodes : m # n => sec_node'[m] = sec_node[m]
<1>1. /\ sec_node' = [sec_node EXCEPT ![n].entry = w.entry] /\ sec_air' = air \cup w.out
      /\ sec_drawn' = w.drawn /\ sec_skewed' = w.skewed
      /\ sec_cfg' = sec_cfg /\ sec_time' = sec_time /\ SecCnf' = SecCnf
  BY DEF SecCommit, SecCnf
<1>2. sec_time \in Nat /\ sec_drawn \in Nat /\ w.drawn \in Nat /\ sec_drawn <= w.drawn
  BY DEF WorkOK
<1>3. \A p \in sec_air' : PacketOK(SecCnf, p, sec_drawn', sec_time)
  BY <1>1, <1>2, PacketLater DEF SecInv, WorkOK
<1>4. DOMAIN sec_node' = SecNodes
  BY <1>1 DEF SecInv
<1>5. NodeOK(SecCnf, sec_node'[n], n, sec_drawn', sec_time, sec_air')
  <2>1. NodeOK(SecCnf, sec_node[n], n, sec_drawn, sec_time, sec_air) /\ DOMAIN sec_node = SecNodes
    BY DEF SecInv
  <2>2. /\ DOMAIN sec_node'[n] = {"now", "entry"} /\ sec_node'[n].now = sec_node[n].now
        /\ sec_node'[n].entry = w.entry /\ w.now = sec_node[n].now
    BY <1>1, <2>1 DEF NodeOK, WorkOK
  <2>3. \A p \in w.out : p.from # SecPeer(n)
    BY DEF WorkOK, SecPeer, SecNodes
  <2>4. ASSUME NEW e, AnswersOK(e, n, sec_air)
        PROVE  AnswersOK(e, n, sec_air')
    BY <1>1, <2>3, <2>4, Zenon DEF AnswersOK
  <2>5. EntriesOK(SecCnf, w.entry, n, w.now, sec_drawn', sec_time, sec_air')
    BY <1>1, <2>4, Zenon DEF EntriesOK, WorkOK
  <2> QED  BY <2>1, <2>2, <2>5 DEF NodeOK
<1>6. ASSUME NEW m \in SecNodes, m # n
      PROVE  sec_node'[m] = sec_node[m] /\ NodeOK(SecCnf, sec_node'[m], m, sec_drawn', sec_time, sec_air')
  <2>1. NodeOK(SecCnf, sec_node[m], m, sec_drawn, sec_time, sec_air) /\ DOMAIN sec_node = SecNodes
    BY DEF SecInv
  <2>2. sec_node'[m] = sec_node[m]
    BY <1>1, <1>6, <2>1
  <2> DEFINE e == sec_node[m].entry[1]
  <2>3. CASE sec_node[m].entry = <<>>
    BY <1>1, <2>1, <2>2, <2>3 DEF NodeOK, EntriesOK
  <2>4. CASE sec_node[m].entry # <<>>
    <3>1. /\ 1 \in DOMAIN sec_node[m].entry
          /\ EntryOK(SecCnf, e, m, sec_node[m].now, sec_drawn, sec_time) /\ AnswersOK(e, m, sec_air)
      BY <2>1, <2>4 DEF NodeOK, EntriesOK
    <3>2. EntryOK(SecCnf, e, m, sec_node[m].now, sec_drawn', sec_time)
      BY <1>1, <1>2, <3>1 DEF EntryOK
    <3>3. \A p \in w.out : IsAnswer(p) => e.asked <= p.msg.made
      BY <3>1 DEF WorkOK, PacketOK, EntryOK
    <3>4. AnswersOK(e, m, sec_air')
      BY <1>1, <3>1, <3>3, Zenon DEF AnswersOK
    <3> QED  BY <2>1, <2>2, <3>1, <3>2, <3>4 DEF NodeOK, EntriesOK
  <2> QED  BY <2>2, <2>3, <2>4
<1>7. SecNoSkew'
  BY <1>1 DEF SecNoSkew, WorkOK
<1>8. SecInv'
  BY Zenon, <1>1, <1>2, <1>3, <1>4, <1>5, <1>6, <1>7 DEF SecInv
<1> QED  BY <1>6, <1>8

\* A packet of the node itself.
LEMMA SendInv ==
  ASSUME SecInv, NEW n \in SecNodes, SecSend(n)
  PROVE  SecInv' /\ \A m \in SecNodes : sec_node[m].entry # <<>> => sec_node'[m].entry # <<>>
<1> DEFINE w == SecWork(n)
           msg == [type |-> "other"]
<1>1. WorkOK(w, n) /\ w.entry = sec_node[n].entry
  BY WorkHolds
<1>2. msg.type = "other" /\ SecCommit(n, SecOutput(w, n, msg), sec_air)
  BY DEF SecSend
<1> HIDE DEF w, msg
<1>3. WorkOK(SecOutput(w, n, msg), n) /\ SecOutput(w, n, msg).entry = w.entry
  BY <1>1, <1>2, OutputOK
<1>4. SecInv' /\ \A m \in SecNodes : m # n => sec_node'[m] = sec_node[m]
  BY <1>2, <1>3, CommitInv
<1>5. sec_node'[n].entry = sec_node[n].entry
  BY <1>1, <1>2, <1>3 DEF SecCommit, SecInv, NodeOK
<1> QED  BY <1>4, <1>5

\* A packet is received, and perhaps stays under way as a copy.
LEMMA ReceiveInv ==
  ASSUME SecInv, NEW p \in sec_air, NEW keep \in BOOLEAN, SecReceive(p, keep)
  PROVE  SecInv' /\ \A m \in SecNodes : sec_node[m].entry # <<>> => sec_node'[m].entry # <<>>
<1> DEFINE n == SecPeer(p.from)
<1>1. PICK garbage \in SecCnf.garbage :
        SecCommit(n, secure_preprocessor(SecWork(n), n, p, garbage),
                  IF keep THEN sec_air ELSE sec_air \ {p})
  BY Zenon DEF SecReceive
<1>2. n \in SecNodes /\ p.from = SecPeer(n)
  BY DEF SecInv, PacketOK, SecPeer, SecNodes
<1> HIDE DEF n
<1> DEFINE w == secure_preprocessor(SecWork(n), n, p, garbage)
           air == IF keep THEN sec_air ELSE sec_air \ {p}
<1>3. WorkOK(w, n) /\ (sec_node[n].entry # <<>> => w.entry # <<>>)
  <2>1. WorkOK(SecWork(n), n) /\ SecWork(n).entry = sec_node[n].entry
    BY <1>2, WorkHolds
  <2>2. \A q \in sec_air : PacketOK(SecCnf, q, sec_drawn, sec_time)
    BY DEF SecInv
  <2> QED  BY <1>2, <2>1, <2>2, PreprocessorOK DEF SecKnows
<1>4. air \in SUBSET sec_air
  OBVIOUS
<1> HIDE DEF w, air
<1>5. SecCommit(n, w, air)
  BY <1>1 DEF w, air
<1>6. SecInv' /\ \A m \in SecNodes : m # n => sec_node'[m] = sec_node[m]
  BY <1>2, <1>3, <1>4, <1>5, CommitInv
<1>7. sec_node'[n].entry = w.entry
  BY <1>2, <1>5 DEF SecCommit, SecInv, NodeOK
<1> QED  BY <1>3, <1>6, <1>7

\* With fewer packets under way.
LEMMA FewerInv ==
  ASSUME SecInv, sec_air' \subseteq sec_air, UNCHANGED <<sec_cfg, sec_time, sec_drawn, sec_skewed>>,
         DOMAIN sec_node' = SecNodes,
         \A n \in SecNodes : sec_node'[n] = sec_node[n] \/ sec_node'[n] = secure_plugin_init
  PROVE  SecInv'
<1>1. SecCnf' = SecCnf
  BY DEF SecCnf
<1>2. ASSUME NEW n \in SecNodes
      PROVE  NodeOK(SecCnf, sec_node'[n], n, sec_drawn, sec_time, sec_air')
  <2>1. NodeOK(SecCnf, sec_node[n], n, sec_drawn, sec_time, sec_air)
    BY DEF SecInv
  <2>2. CASE sec_node'[n] = sec_node[n]
    <3>1. EntriesOK(SecCnf, sec_node[n].entry, n, sec_node[n].now, sec_drawn, sec_time, sec_air')
      BY <2>1, Zenon DEF NodeOK, EntriesOK, AnswersOK
    <3> QED  BY <2>1, <2>2, <3>1, Zenon DEF NodeOK
  <2>3. CASE sec_node'[n] = secure_plugin_init
    <3>1. /\ DOMAIN secure_plugin_init = {"now", "entry"} /\ secure_plugin_init.now = 0
          /\ secure_plugin_init.entry = <<>>
      BY DEF secure_plugin_init
    <3> QED  BY <2>3, <3>1 DEF NodeOK, EntriesOK, ReadAt
  <2> QED  BY <2>2, <2>3
<1>3. \A p \in sec_air' : PacketOK(SecCnf, p, sec_drawn, sec_time)
  BY DEF SecInv
<1> QED  BY <1>1, <1>2, <1>3 DEF SecInv, SecNoSkew

\* A second passes.  A node reads its clock every other second, so that a reading that is
\* not replaced is a second old.
LEMMA SecondInv ==
  ASSUME SecInv, SecSecond
  PROVE  /\ SecInv'
         /\ \A n \in SecNodes : (sec_node[n].entry # <<>> /\ sec_node'[n].entry = <<>>)
                                  => sec_time' >= sec_node[n].entry[1].conftime
<1> DEFINE t == sec_time + 1
<1>1. /\ sec_time' = t /\ t \in Nat /\ sec_time \in Nat /\ sec_drawn' = sec_drawn
      /\ sec_air' = sec_air /\ sec_skewed' = sec_skewed /\ sec_cfg' = sec_cfg
      /\ SecCnf' = SecCnf
  BY DEF SecInv, SecSecond, SecCnf
<1>2. sec_node' = [n \in SecNodes |-> IF SecDue(n, t) THEN timeout_timestamps(n, sec_node[n], t)
                                      ELSE sec_node[n]]
  BY <1>1 DEF SecSecond
<1>3. CnfOK(SecCnf)
  BY CnfHolds
<1> HIDE DEF t
<1>4. ASSUME NEW p \in sec_air
      PROVE  PacketOK(SecCnf, p, sec_drawn, t)
  <2>1. PacketOK(SecCnf, p, sec_drawn, sec_time) /\ sec_time - p.sent < SecCnf.delay
    BY DEF SecInv, SecSecond
  <2>2. p.sent <= t /\ t - p.sent <= SecCnf.delay
    BY <1>1, <1>3, <2>1 DEF PacketOK, CnfOK, t
  <2> QED  BY <2>1, <2>2, Zenon DEF PacketOK
<1>5. ASSUME NEW n \in SecNodes
      PROVE  /\ NodeOK(SecCnf, sec_node'[n], n, sec_drawn, t, sec_air)
             /\ (sec_node[n].entry # <<>> /\ sec_node'[n].entry = <<>>)
                  => t >= sec_node[n].entry[1].conftime
  <2> DEFINE node == sec_node[n]
             c == SecEpoch + SecCnf.clock[n]
  <2>1. NodeOK(SecCnf, node, n, sec_drawn, sec_time, sec_air)
    BY DEF SecInv
  <2>2. c \in Int /\ c > 0 /\ SecCnf.phase[n] \in Nat
    BY <1>3 DEF CnfOK, SecEpoch
  <2>3. ASSUME NEW now \in Int, node.now # 0 => now # 0
        PROVE  EntriesOK(SecCnf, node.entry, n, now, sec_drawn, t, sec_air)
    <3> SUFFICES ASSUME node.entry # <<>>
                 PROVE  EntryOK(SecCnf, node.entry[1], n, now, sec_drawn, t)
      BY <2>1 DEF NodeOK, EntriesOK
    <3>1. EntryOK(SecCnf, node.entry[1], n, node.now, sec_drawn, sec_time)
      BY <2>1 DEF NodeOK, EntriesOK
    <3>2. \A a \in Nat : a <= sec_time => a <= t
      BY <1>1 DEF t
    <3> QED  BY <2>3, <3>1, <3>2, Zenon DEF EntryOK
  <2>4. CASE SecDue(n, t)
    <3> DEFINE v == timeout_timestamps(n, node, t)
    <3>1. v = sec_node'[n]
      BY <1>2, <2>4
    <3>2. DOMAIN v = {"now", "entry"} /\ v.now = c + t
      BY <2>1 DEF timeout_timestamps, NodeOK
    <3>3. v.entry = IF node.entry # <<>> /\ SecExpired(node.entry[1], t) THEN <<>> ELSE node.entry
      BY <2>1 DEF timeout_timestamps, NodeOK
    <3> HIDE DEF v
    <3>4. v.now \in Int /\ v.now # 0 /\ ReadAt(SecCnf, n, v.now, t)
      BY <1>1, <2>2, <3>2 DEF ReadAt
    <3>5. (v.now - c + SecCnf.phase[n]) % SecPeriod = 0
      BY <1>1, <2>2, <2>4, <3>2 DEF SecDue
    <3>6. EntriesOK(SecCnf, v.entry, n, v.now, sec_drawn, t, sec_air)
      BY <2>3, <3>3, <3>4 DEF EntriesOK
    <3>7. NodeOK(SecCnf, v, n, sec_drawn, t, sec_air)
      BY <3>2, <3>4, <3>5, <3>6 DEF NodeOK
    <3>8. (node.entry # <<>> /\ v.entry = <<>>) => t >= node.entry[1].conftime
      BY <3>3 DEF SecExpired, TIMED_OUT
    <3> QED  BY <3>1, <3>7, <3>8
  <2>5. CASE ~SecDue(n, t)
    <3>1. sec_node'[n] = node
      BY <1>2, <2>5
    <3>2. node.now # 0 => node.now - c = sec_time
      <4> SUFFICES ASSUME node.now # 0  PROVE node.now - c = sec_time
        OBVIOUS
      <4>1. node.now - c \in {sec_time - 1, sec_time} /\ node.now \in Int
        BY <2>1 DEF NodeOK, ReadAt
      <4>2. (node.now - c + SecCnf.phase[n]) % 2 = 0
        BY <2>1 DEF NodeOK, SecPeriod
      <4>3. (sec_time + 1 + SecCnf.phase[n]) % 2 # 0
        BY <2>5 DEF SecDue, SecPeriod, t
      <4> HIDE DEF node, c
      <4> QED  BY <1>1, <2>2, <4>1, <4>2, <4>3
    <3>3. ReadAt(SecCnf, n, node.now, t)
      BY <1>1, <2>1, <2>2, <3>2 DEF ReadAt, NodeOK, t
    <3>4. EntriesOK(SecCnf, node.entry, n, node.now, sec_drawn, t, sec_air)
      BY <2>1, <2>3 DEF NodeOK
    <3> QED  BY <2>1, <3>1, <3>3, <3>4 DEF NodeOK
  <2> QED  BY <2>4, <2>5
<1>6. DOMAIN sec_node' = SecNodes
  BY <1>2
<1>7. SecInv'
  BY <1>1, <1>4, <1>5, <1>6 DEF SecInv, SecNoSkew
<1> QED  BY <1>1, <1>5, <1>7
----------------------------------------------------------------------------
\* No node is known and nothing is under way at the start.
LEMMA SecInitInv == SecInit => SecInv
<1> SUFFICES ASSUME NEW c \in 1..Len(SEC_CONFIGS), SecInitFor(c)  PROVE SecInv
  BY DEF SecInit
<1>1. /\ DOMAIN secure_plugin_init = {"now", "entry"} /\ secure_plugin_init.now = 0
      /\ secure_plugin_init.entry = <<>>
  BY DEF secure_plugin_init
<1>2. \A n \in SecNodes : sec_node[n] = secure_plugin_init
  BY DEF SecInitFor
<1>3. \A n \in SecNodes : NodeOK(SecCnf, sec_node[n], n, sec_drawn, sec_time, sec_air)
  BY <1>1, <1>2 DEF NodeOK, EntriesOK, ReadAt
<1> QED  BY <1>3 DEF SecInitFor, SecInv, SecNoSkew

\* Every step keeps SecInv, and a step that forgets a node either restarts the one that
\* held it or comes after the exchange has timed out.
LEMMA SecNextInv ==
  ASSUME SecInv, [SecNext]_sec_vars
  PROVE  /\ SecInv'
         /\ \A n \in SecNodes :
              (sec_node[n].entry # <<>> /\ sec_node'[n].entry = <<>> /\ sec_node'[n].now # 0)
                => sec_time' >= sec_node[n].entry[1].conftime
<1>1. ASSUME NEW n \in SecNodes, SecSend(n)
      PROVE  SecInv' /\ \A m \in SecNodes : sec_node[m].entry # <<>> => sec_node'[m].entry # <<>>
  BY <1>1, SendInv
<1>2. ASSUME NEW n \in SecNodes, SecRestart(n)
      PROVE  /\ SecInv'
             /\ \A m \in SecNodes : sec_node'[m] = sec_node[m] \/ sec_node'[m].now = 0
  <2>1. /\ sec_node' = [sec_node EXCEPT ![n] = secure_plugin_init]
        /\ UNCHANGED <<sec_cfg, sec_time, sec_air, sec_drawn, sec_skewed>>
        /\ DOMAIN sec_node = SecNodes
    BY <1>2 DEF SecRestart, SecInv
  <2>2. \A m \in SecNodes : sec_node'[m] = sec_node[m] \/ sec_node'[m] = secure_plugin_init
    BY <2>1
  <2>3. DOMAIN sec_node' = SecNodes
    BY <2>1
  <2>4. secure_plugin_init.now = 0
    BY DEF secure_plugin_init
  <2>5. SecInv'
    BY <2>1, <2>2, <2>3, FewerInv
  <2> QED  BY <2>2, <2>4, <2>5
<1>3. ASSUME NEW p \in sec_air, NEW keep \in BOOLEAN, SecReceive(p, keep)
      PROVE  SecInv' /\ \A m \in SecNodes : sec_node[m].entry # <<>> => sec_node'[m].entry # <<>>
  BY <1>3, ReceiveInv
<1>4. ASSUME NEW p \in sec_air, SecLose(p)
      PROVE  SecInv' /\ sec_node' = sec_node
  <2>1. /\ sec_air' \subseteq sec_air /\ sec_node' = sec_node
        /\ UNCHANGED <<sec_cfg, sec_time, sec_drawn, sec_skewed>> /\ DOMAIN sec_node = SecNodes
    BY <1>4 DEF SecLose, SecInv
  <2>2. SecInv'
    BY <2>1, FewerInv
  <2> QED  BY <2>1, <2>2
<1>5. CASE SecSecond
  BY <1>5, SecondInv
<1>6. ASSUME UNCHANGED sec_vars
      PROVE  SecInv' /\ sec_node' = sec_node
  <2>1. /\ sec_air' \subseteq sec_air /\ sec_node' = sec_node
        /\ UNCHANGED <<sec_cfg, sec_time, sec_drawn, sec_skewed>> /\ DOMAIN sec_node = SecNodes
    BY <1>6 DEF sec_vars, SecInv
  <2>2. SecInv'
    BY <2>1, FewerInv
  <2> QED  BY <2>1, <2>2
<1>7. CASE SecEnd
  BY <1>6, <1>7, Zenon DEF SecEnd
<1> QED  BY <1>1, <1>2, <1>3, <1>4, <1>5, <1>6, <1>7, Zenon DEF SecNext

\* Two differences measured from opposite ends cancel but for their errors.
LEMMA OppositeSum ==
  ASSUME NEW x \in Int, NEW y \in Int, NEW a \in Int, NEW b \in Int, NEW d \in Nat,
         x - (a - b) \in -1..(1 + d), y - (b - a) \in -1..(1 + d)
  PROVE  (x + y) \in -2..(2 + 2 * d)
<1>1. -1 <= x - (a - b) /\ x - (a - b) <= 1 + d /\ -1 <= y - (b - a) /\ y - (b - a) <= 1 + d
  OBVIOUS
<1>2. -2 <= x + y /\ x + y <= 2 + 2 * d
  BY <1>1
<1> QED  BY <1>2

\* SecInv implies what the exchange promises.
LEMMA SecInvRegistered == SecInv => SecRegistered
<1> SUFFICES ASSUME SecInv  PROVE SecRegistered
  OBVIOUS
<1>1. ASSUME NEW n \in SecNodes, sec_node[n].entry # <<>>
      PROVE  EntryOK(SecCnf, sec_node[n].entry[1], n, sec_node[n].now, sec_drawn, sec_time)
  BY <1>1 DEF SecInv, NodeOK, EntriesOK
<1>2. SecFresh
  BY <1>1 DEF SecFresh, SecEntries, EntryOK
<1>3. SecAgree
  <2> DEFINE ea == sec_node["a"].entry
             eb == sec_node["b"].entry
  <2> SUFFICES ASSUME ea # <<>>, eb # <<>>, ea[1].validated, ea[1].sound,
                      eb[1].validated, eb[1].sound
               PROVE  (ea[1].diff + eb[1].diff) \in -SecPeriod..(SecPeriod + 2 * SecCnf.delay)
    BY Zenon DEF SecAgree
  <2>1. /\ ea[1].diff \in Int /\ eb[1].diff \in Int
        /\ SecNear(SecCnf, "a", ea[1].diff) /\ SecNear(SecCnf, "b", eb[1].diff)
    BY <1>1 DEF EntryOK, SecNodes
  <2>2. SecCnf.clock["a"] \in Int /\ SecCnf.clock["b"] \in Int /\ SecCnf.delay \in Nat
    BY CnfHolds DEF CnfOK, SecNodes
  <2>3. /\ ea[1].diff - (SecCnf.clock["a"] - SecCnf.clock["b"]) \in -1..(1 + SecCnf.delay)
        /\ eb[1].diff - (SecCnf.clock["b"] - SecCnf.clock["a"]) \in -1..(1 + SecCnf.delay)
    BY <2>1, Zenon DEF SecNear, SecPeer
  <2> HIDE DEF ea, eb
  <2> QED  BY Zenon, <2>1, <2>2, <2>3, OppositeSum DEF SecPeriod
<1> QED  BY <1>2, <1>3 DEF SecRegistered, SecInv

\* parse_challenge, parse_cres, parse_rres, check_timestamp: in every configuration, nodes
\* register each other with answers made after they asked, hold the same difference of
\* their clocks but for the age of readings and packets, and with packets that take at
\* most a second refuse no timestamp of a clock that was read.
THEOREM SecRegisteredAlways == SecSpec => []SecRegistered
<1>1. SecInv /\ [SecNext]_sec_vars => SecInv'
  BY SecNextInv
<1> QED  BY SecInitInv, <1>1, SecInvRegistered, PTL DEF SecSpec

\* timeout_timestamps: in every configuration, a node that does not restart forgets the
\* other only after the exchange with it has timed out.
THEOREM SecExchangeKeptAlways == SecSpec => SecExchangeKept
<1>1. SecInv /\ [SecNext]_sec_vars => SecInv'
  BY SecNextInv
<1>2. SecInv /\ [SecNext]_sec_vars =>
        [\A n \in SecNodes :
           (sec_node[n].entry # <<>> /\ sec_node'[n].entry = <<>> /\ sec_node'[n].now # 0) =>
             sec_time' >= sec_node[n].entry[1].conftime]_sec_vars
  BY SecNextInv
<1> QED  BY SecInitInv, <1>1, <1>2, PTL DEF SecSpec, SecExchangeKept
=============================================================================
