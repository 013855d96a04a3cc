------------------------------- MODULE Secure -------------------------------
(***************************************************************************)
(* The timestamp exchange of the secure plugin                             *)
(* (lib/secure/src/olsrd_secure.c) between two nodes: every packet carries *)
(* a signature with a timestamp, a node learns the difference to the       *)
(* other's clock by challenge, challenge response and response response,   *)
(* and takes only packets whose timestamp fits that difference.  Packets   *)
(* are lost, duplicated, delayed and reordered; a node may restart.        *)
(*                                                                         *)
(* A packet is its first message and its signature.  A digest is the pair  *)
(* it is computed from; signatures of nodes with the same key agree.       *)
(* Challenges are drawn once each.                                         *)
(*                                                                         *)
(* Definitions named X_Word are mutated forms of X.                        *)
(***************************************************************************)
EXTENDS Integers, Sequences, FiniteSets

CONSTANT SEC_CONFIGS   \* a sequence of configurations, records as in MCPlugins

VARIABLES
  sec_cfg,     \* which configuration
  sec_time,    \* real time, in seconds
  sec_node,    \* per node: [now, entry]
  sec_air,     \* packets under way
  sec_drawn,   \* challenges drawn so far
  sec_skewed   \* whether a packet was refused although both clocks run as measured

sec_vars == <<sec_cfg, sec_time, sec_node, sec_air, sec_drawn, sec_skewed>>

SecCnf == SEC_CONFIGS[sec_cfg]
SecNodes == {"a", "b"}
SecPeer(n) == IF n = "a" THEN "b" ELSE "a"

UPPER_DIFF == 3
LOWER_DIFF == -3
SecPeriod == 2       \* seconds between two timeouts
SecEpoch == 1000     \* the time of day at the start
TIMESTAMP_HOLD_TIME == SecCnf.hold
EXCHANGE_HOLD_TIME == SecCnf.exchange
SecFar == 500        \* what malloc left behind may be a time far ahead

\* A clock that was read tells a time of day, never one near the 0 it starts from; how
\* long packets are under way, the hold times and what malloc leaves are any numbers.
ASSUME SecAssumption ==
  \A i \in 1..Len(SEC_CONFIGS) :
    /\ {SEC_CONFIGS[i].delay, SEC_CONFIGS[i].hold, SEC_CONFIGS[i].exchange} \subseteq Nat
    /\ SEC_CONFIGS[i].garbage \subseteq Int
    /\ \A n \in SecNodes :
         /\ SEC_CONFIGS[i].phase[n] \in Nat /\ SEC_CONFIGS[i].clock[n] \in Int
         /\ SecEpoch + SEC_CONFIGS[i].clock[n] > SEC_CONFIGS[i].delay - LOWER_DIFF + 1

\* olsr_isTimedOut: a time that has come is over.
TIMED_OUT(until, t) == until <= t

(***************************************************************************)
(* What a node holds while it handles a packet: w is [now, entry, out,     *)
(* drawn, skewed] for the node n; entry is <<>> or holds the one entry of  *)
(* the other node.                                                         *)
(***************************************************************************)

SecSigned(w, n, msg) ==
  [msg |-> msg, from |-> n, key |-> SecCnf.key[n], timestamp |-> w.now, sent |-> sec_time]

SecOutput(w, n, msg) == [w EXCEPT !.out = @ \cup {SecSigned(w, n, msg)}]

\* lookup_timestamp_entry finds at most one entry.
SecKnows(w) == w.entry # <<>>
SecEntry(w) == w.entry[1]

SecDraw(w) == w.drawn + 1

\* send_challenge leaves the validity time of the new entry as malloc gave it.
send_challenge(w, n, garbage) ==
  LET c == SecDraw(w)
      sent == SecOutput(w, n, [type |-> "challenge", challenge |-> c])
  IN [sent EXCEPT !.drawn = c,
                  !.entry = <<[diff |-> 0, challenge |-> c, validated |-> FALSE,
                               valtime |-> garbage, conftime |-> sec_time + EXCHANGE_HOLD_TIME,
                               sound |-> FALSE, asked |-> sec_time, made |-> sec_time]>>]

send_cres(w, n, chal_in) ==
  LET c == SecDraw(w)
      noted == [w EXCEPT !.drawn = c, !.entry[1].challenge = c, !.entry[1].asked = sec_time]
  IN SecOutput(noted, n, [type |-> "cres", challenge |-> c, timestamp |-> w.now,
                          res_sig |-> <<chal_in, n>>, made |-> sec_time])

send_rres(w, n, chal_in) ==
  SecOutput(w, n, [type |-> "rres", timestamp |-> w.now, res_sig |-> <<chal_in, n>>,
                   made |-> sec_time])

\* An unknown node gets an entry before the signature of its challenge is checked.
parse_challenge(w, n, p, garbage) ==
  LET new == [diff |-> 0, challenge |-> 0, validated |-> FALSE, valtime |-> garbage,
              conftime |-> garbage, sound |-> FALSE, asked |-> sec_time, made |-> sec_time]
      known == IF SecKnows(w) THEN w ELSE [w EXCEPT !.entry = <<new>>]
      fresh == [known EXCEPT !.entry[1].diff = 0, !.entry[1].validated = FALSE,
                             !.entry[1].conftime = sec_time + EXCHANGE_HOLD_TIME]
  IN IF SecKnows(w) /\ ~TIMED_OUT(SecEntry(w).conftime, sec_time) THEN w
     ELSE IF p.key # SecCnf.key[n] THEN known
     ELSE send_cres(fresh, n, p.msg.challenge)

SecAnswers_AnyDigest(w, n, p) == p.key = SecCnf.key[n] /\ SecKnows(w)

\* The signature and the digest of the challenge this node holds for the sender.
SecAnswers(w, n, p) ==
  /\ p.key = SecCnf.key[n]
  /\ SecKnows(w)
  /\ p.msg.res_sig = <<SecEntry(w).challenge, p.from>>

SecRegister(w, p) ==
  [w EXCEPT !.entry[1] =
     [@ EXCEPT !.challenge = 0, !.validated = TRUE, !.diff = w.now - p.msg.timestamp,
               !.valtime = sec_time + TIMESTAMP_HOLD_TIME,
               !.sound = w.now # 0 /\ p.msg.timestamp # 0, !.made = p.msg.made]]

parse_cres(w, n, p) ==
  IF SecAnswers(w, n, p) THEN send_rres(SecRegister(w, p), n, p.msg.challenge) ELSE w

parse_rres(w, n, p) == IF SecAnswers(w, n, p) THEN SecRegister(w, p) ELSE w

check_auth(w, n, p, garbage) ==
  CASE p.msg.type = "challenge" -> parse_challenge(w, n, p, garbage)
    [] p.msg.type = "cres" -> parse_cres(w, n, p)
    [] p.msg.type = "rres" -> parse_rres(w, n, p)
    [] OTHER -> w

\* C's division rounds towards zero.
SecHalf(x) == IF x >= 0 THEN x \div 2 ELSE -((-x) \div 2)

SecSkew(diff) == diff > UPPER_DIFF \/ diff < LOWER_DIFF

SecAverage(measured, diff) == SecHalf(measured + diff)

check_timestamp(w, n, p, garbage) ==
  LET e == SecEntry(w)
      measured == w.now - p.timestamp
  IN IF ~SecKnows(w) THEN send_challenge(w, n, garbage)
     ELSE IF ~e.validated THEN w
     ELSE IF SecSkew(e.diff - measured)
       THEN [w EXCEPT !.skewed = @ \/ (e.sound /\ w.now # 0 /\ p.timestamp # 0)]
     ELSE [w EXCEPT !.entry[1].diff = SecAverage(measured, e.diff),
                    !.entry[1].valtime = sec_time + TIMESTAMP_HOLD_TIME]

validate_packet(w, n, p, garbage) ==
  IF p.key # SecCnf.key[n] THEN w ELSE check_timestamp(w, n, p, garbage)

secure_preprocessor(w, n, p, garbage) ==
  validate_packet(check_auth(w, n, p, garbage), n, p, garbage)

SecExpired_Valid(e, t) == TIMED_OUT(e.valtime, t)

\* timeout_timestamps, every two seconds, is also what reads the clock.
SecExpired(e, t) == TIMED_OUT(e.valtime, t) /\ TIMED_OUT(e.conftime, t)

timeout_timestamps(n, node, t) ==
  [node EXCEPT !.now = SecEpoch + SecCnf.clock[n] + t,
               !.entry = IF @ # <<>> /\ SecExpired(@[1], t) THEN <<>> ELSE @]

(***************************************************************************)
(* The two nodes, the medium and the clocks.                               *)
(***************************************************************************)

secure_plugin_init == [now |-> 0, entry |-> <<>>]

SecInitFor(c) ==
  /\ sec_cfg = c
  /\ sec_time = 0
  /\ sec_node = [n \in SecNodes |-> secure_plugin_init]
  /\ sec_air = {}
  /\ sec_drawn = 0
  /\ sec_skewed = FALSE

SecInit == \E c \in 1..Len(SEC_CONFIGS) : SecInitFor(c)

SecWork(n) ==
  [now |-> sec_node[n].now, entry |-> sec_node[n].entry, out |-> {},
   drawn |-> sec_drawn, skewed |-> sec_skewed]

SecCommit(n, w, air) ==
  /\ sec_node' = [sec_node EXCEPT ![n].entry = w.entry]
  /\ sec_air' = air \cup w.out
  /\ sec_drawn' = w.drawn
  /\ sec_skewed' = w.skewed
  /\ UNCHANGED <<sec_cfg, sec_time>>

\* Any packet of the node: add_signature stamps it.
SecSend(n) ==
  /\ Cardinality(sec_air) < SecCnf.air
  /\ LET w == SecWork(n)
     IN SecCommit(n, SecOutput(w, n, [type |-> "other"]), sec_air)

SecReceive(p, keep) ==
  LET n == SecPeer(p.from)
  IN \E garbage \in SecCnf.garbage :
       LET w == secure_preprocessor(SecWork(n), n, p, garbage)
       IN /\ w.drawn <= SecCnf.challenges
          /\ SecCommit(n, w, IF keep THEN sec_air ELSE sec_air \ {p})

SecLose(p) ==
  /\ sec_air' = sec_air \ {p}
  /\ UNCHANGED <<sec_cfg, sec_time, sec_node, sec_drawn, sec_skewed>>

\* A second passes: no packet is under way longer than the configuration allows, and
\* the timers that are due have run.
SecDue(n, t) == (t + SecCnf.phase[n]) % SecPeriod = 0

SecSecond ==
  /\ sec_time < SecCnf.time
  /\ \A p \in sec_air : sec_time - p.sent < SecCnf.delay
  /\ sec_time' = sec_time + 1
  /\ sec_node' = [n \in SecNodes |->
                    IF SecDue(n, sec_time') THEN timeout_timestamps(n, sec_node[n], sec_time')
                    ELSE sec_node[n]]
  /\ UNCHANGED <<sec_cfg, sec_air, sec_drawn, sec_skewed>>

\* A node is started again, in one of the seconds the configuration names.
SecRestart(n) ==
  /\ sec_time \in SecCnf.restart
  /\ sec_node' = [sec_node EXCEPT ![n] = secure_plugin_init]
  /\ UNCHANGED <<sec_cfg, sec_time, sec_air, sec_drawn, sec_skewed>>

SecEnd == sec_time = SecCnf.time /\ UNCHANGED sec_vars

SecNext ==
  \/ \E n \in SecNodes : SecSend(n) \/ SecRestart(n)
  \/ \E p \in sec_air : SecReceive(p, FALSE) \/ SecLose(p)
  \/ \E p \in sec_air : SecCnf.duplicates /\ SecReceive(p, TRUE)
  \/ SecSecond
  \/ SecEnd

SecSpec == SecInit /\ [][SecNext]_sec_vars

(***************************************************************************)
(* Properties.                                                             *)
(***************************************************************************)

SecEntries == {sec_node[n].entry[1] : n \in {m \in SecNodes : sec_node[m].entry # <<>>}}

\* parse_cres, parse_rres: the answer that registered a node was made after this node
\* asked for it, whatever answers to earlier challenges are still under way.
SecFresh == \A e \in SecEntries : e.validated => e.made >= e.asked

\* check_timestamp: two clocks that run alike, read every two seconds, and packets
\* under way for at most a second never make a timestamp look wrong.
SecNoSkew == SecCnf.delay <= 1 => ~sec_skewed

\* check_timestamp, parse_cres, parse_rres: once each has registered the other, what
\* they hold of the difference of their clocks is the same, but for the age of the
\* clock readings and of the packets.
SecAgree ==
  LET ea == sec_node["a"].entry
      eb == sec_node["b"].entry
  IN (ea # <<>> /\ eb # <<>>) =>
       ((ea[1].validated /\ ea[1].sound /\ eb[1].validated /\ eb[1].sound) =>
          (ea[1].diff + eb[1].diff) \in -SecPeriod..(SecPeriod + 2 * SecCnf.delay))

\* timeout_timestamps: an answer that comes before the exchange is over finds the entry
\* still there: no entry goes before its reconfiguration time has come, although a new
\* one holds whatever malloc left behind as its validity time.
SecExchangeKept ==
  [][\A n \in SecNodes :
       (sec_node[n].entry # <<>> /\ sec_node'[n].entry = <<>> /\ sec_node'[n].now # 0) =>
         sec_time' >= sec_node[n].entry[1].conftime]_sec_vars

\* Nodes with the same key register each other with fresh answers and agree on the
\* difference of their clocks.
SecRegistered == SecFresh /\ SecNoSkew /\ SecAgree
=============================================================================
