------------------------------- MODULE TcFlood -------------------------------
(***************************************************************************)
(* One node floods its advertised neighbours in TC messages, another keeps  *)
(* them in its link-state database.  The sender is lq_packet.c,             *)
(* mpr_selector_set.c (the ANSN) and the main loop of scheduler.c; the      *)
(* network loses, repeats and reorders messages; the receiver is TcSet.     *)
(*                                                                          *)
(* A pass of the main loop runs the timers (TC generation, link expiry),    *)
(* then bumps the ANSN if something changed, then reads packets (HELLOs);   *)
(* a TC that a timer generates after a change carries the ANSN of before.   *)
(* A message is in flight for less than TC_SEQNO_WINDOW later messages, and *)
(* fewer than MAX_IGNORED late copies arrive in that time: beyond these     *)
(* olsr_input_tc takes old messages for a restart of the node.              *)
(* Time is counted in TC intervals: age is the number of intervals since    *)
(* the receiver accepted a message, and the validity time is VTIME of them. *)
(* Messages are single-fragment, so their borders span the address space.   *)
(*                                                                          *)
(* Definitions named after the next one with a suffix (IncreaseNever) are   *)
(* mutated forms of it.                                                     *)
(***************************************************************************)
EXTENDS TcSet

CONSTANTS
  Sender, Receiver,
  VTIME,                        \* validity time of a TC, in TC intervals
  MaxCopies,                    \* bound on the copies of a message that arrive
  MaxChanges, MaxRestarts       \* bounds of the environment

VARIABLES
  copies,          \* as many copies of a message arrive; does not change
  advertised,      \* neighbours that create_lq_tc would list now
  ansn,            \* get_local_ansn()
  message_seqno,   \* the number of the next message
  link_changes,    \* signal_link_changes(true) was called
  prev_empty,      \* the last TC was empty
  send_empty_tc,   \* the timer of empty TCs has not fired yet
  net,             \* messages in flight
  age,             \* TC intervals since the receiver accepted one
  listed,          \* neighbours in the message it accepted
  refused,         \* messages that it ignored in a row since the restart, up
                   \* to MaxRefused + 1
  changes, restarts

sender == <<advertised, ansn, message_seqno, link_changes, prev_empty,
            send_empty_tc, changes, restarts>>
receiver == <<age, listed, refused>>
floodVars == <<vars, copies, sender, net, receiver>>

\* Old numbers, the number stored last, and a single stray one.
MaxRefused == MAX_IGNORED + 2

Dests == Addrs \ {Sender}
Messages == [seq : Seqnos, ansn : Seqnos, nbrs : SUBSET Dests,
             copies : 1 .. MaxCopies]

Fresher(i) == (message_seqno - i) % SEQ_SPACE <= TC_SEQNO_WINDOW - 1

FloodInit ==
  /\ Init /\ tc_myself = Receiver
  /\ copies \in 1 .. MaxCopies
  /\ advertised = {}
  /\ ansn = 0 /\ message_seqno = 0
  /\ link_changes = FALSE
  /\ prev_empty = TRUE /\ send_empty_tc = FALSE
  /\ net = {} /\ age = 0 /\ listed = {} /\ refused = 0
  /\ changes = 0 /\ restarts = 0

----------------------------------------------------------------------------
\* A HELLO or a link timer changes what the node advertises: every symmetric neighbour,
\* with the only tc_redundancy that olsrd_sanity_check_cnf accepts, 2.
ChangeAdvertised ==
  /\ changes < MaxChanges
  /\ changes' = changes + 1
  /\ \E S \in SUBSET Dests : S # advertised /\ advertised' = S
  /\ link_changes' = TRUE
  /\ UNCHANGED <<vars, copies, ansn, message_seqno, prev_empty, send_empty_tc, net,
                 receiver, restarts>>

\* The 16-bit number of the next message.
get_msg_seqno == (message_seqno + 1) % SEQ_SPACE

IncreaseNever == ansn

\* The end of a pass: increase_local_ansn if the links changed.
Increase == IF link_changes THEN (ansn + 1) % SEQ_SPACE ELSE ansn

\* A pass of the main loop in which the TC timer does not fire.
QuietPass ==
  /\ link_changes
  /\ ansn' = Increase /\ link_changes' = FALSE
  /\ UNCHANGED <<vars, copies, advertised, message_seqno, prev_empty, send_empty_tc, net,
                 receiver, changes, restarts>>

\* A pass with olsr_output_lq_tc: an empty set is advertised until a timer
\* fires.  The network may lose the message on its way.
olsr_output_lq_tc(lost) ==
  LET sends == advertised # {} \/ ~prev_empty \/ send_empty_tc
      msg   == [seq |-> message_seqno, ansn |-> ansn, nbrs |-> advertised,
                copies |-> copies]
  IN /\ prev_empty' = (advertised = {})
     /\ send_empty_tc' = (send_empty_tc \/ (advertised = {} /\ ~prev_empty))
     /\ message_seqno' = IF sends THEN get_msg_seqno ELSE message_seqno
     /\ net' = IF ~sends THEN net
               ELSE {m \in net : Fresher(m.seq)} \cup (IF lost THEN {} ELSE {msg})
     /\ age = VTIME => Sender \notin validity_timer    \* timers fire in time
     /\ age' = IF age < VTIME THEN age + 1 ELSE age
     /\ ansn' = Increase /\ link_changes' = FALSE
     /\ UNCHANGED <<vars, copies, advertised, listed, refused, changes, restarts>>

EmptyTcTimeout ==
  /\ send_empty_tc /\ send_empty_tc' = FALSE
  /\ UNCHANGED <<vars, copies, advertised, ansn, message_seqno, link_changes,
                 prev_empty, net, receiver, changes, restarts>>

\* The daemon starts again: olsr_init_mprs_set clears the ANSN and
\* init_msg_seqno draws a random number.  That takes longer than a message is
\* in flight.  Only the case that every message arrives once is looked at.
Restart ==
  /\ restarts < MaxRestarts /\ copies = 1
  /\ restarts' = restarts + 1
  /\ advertised' = {} /\ ansn' = 0 /\ message_seqno' \in Seqnos
  /\ link_changes' = FALSE
  /\ prev_empty' = TRUE /\ send_empty_tc' = FALSE
  /\ net' = {}
  /\ UNCHANGED <<vars, copies, receiver, changes>>

----------------------------------------------------------------------------
\* The receiver takes a message; other copies may come by other neighbours.
Deliver(m) ==
  /\ net' = (net \ {m}) \cup
              (IF m.copies > 1 THEN {[m EXCEPT !.copies = @ - 1]} ELSE {})
  /\ \/ /\ IgnoreTc(Sender, m.seq, m.ansn)
        /\ refused' = IF restarts = 0 \/ refused > MaxRefused THEN refused ELSE refused + 1
        /\ UNCHANGED <<age, listed>>
     \/ /\ m.nbrs # {} /\ AcceptTc(Sender, m.seq, m.ansn, m.nbrs, Addrs)
        /\ age' = 0 /\ listed' = m.nbrs /\ refused' = 0
     \/ /\ m.nbrs = {} /\ ShutdownTc(Sender, m.seq, m.ansn)
        /\ age' = 0 /\ listed' = {} /\ refused' = 0
  /\ UNCHANGED <<copies, sender>>

\* olsr_expire_tc_entry, VTIME after the last accepted message.
Expire ==
  /\ age = VTIME /\ olsr_expire_tc_entry(Sender)
  /\ listed' = {} /\ refused' = 0
  /\ UNCHANGED <<copies, sender, net, age>>

FloodNext ==
  \/ ChangeAdvertised \/ QuietPass
  \/ \E lost \in BOOLEAN : olsr_output_lq_tc(lost)
  \/ EmptyTcTimeout \/ Restart \/ Expire
  \/ \E m \in net : Deliver(m)

\* The main loop turns for ever, the TC timer is periodic, timers fire, and
\* the network does not lose every message.
FloodSpec ==
  /\ FloodInit /\ [][FloodNext]_floodVars
  /\ SF_floodVars(olsr_output_lq_tc(FALSE))
  /\ WF_floodVars(Expire)
  /\ SF_floodVars(\E m \in net : Deliver(m))
----------------------------------------------------------------------------
\* The numbers of the sender and of the messages in flight stay 16 bits wide
\* (get_msg_seqno, increase_local_ansn), and the receiver's database is typed.
FloodTypeOK ==
  /\ TypeOK
  /\ advertised \subseteq Dests /\ listed \subseteq Dests
  /\ ansn \in Seqnos /\ message_seqno \in Seqnos
  /\ {link_changes, prev_empty, send_empty_tc} \subseteq BOOLEAN
  /\ net \subseteq Messages
  /\ age \in 0 .. VTIME /\ refused \in 0 .. MaxRefused + 1
  /\ copies \in 1 .. MaxCopies
  /\ changes \in 0 .. MaxChanges /\ restarts \in 0 .. MaxRestarts

\* An edge that the last accepted message does not list was listed under the
\* same ANSN: no reordered or repeated message brings back an edge that an
\* accepted message with a later ANSN has revoked.  (A restart takes the ANSN
\* back to 0, and this and StaleEdgesGo fail.)
StaleOnlyUnderSameAnsn ==
  restarts = 0 => \A b \in Edges(Sender) \ listed : edge[Sender][b] = hdr[Sender].ansn

\* The windows on message numbers and ANSNs do not lock a node out: when every
\* message arrives once, at most MAX_IGNORED old numbers, the stored number
\* and one stray number are refused in a row, also after a restart with
\* numbers that look old.
RefusedBounded == refused <= MaxRefused

\* Whatever is lost, repeated, reordered or restarted, the receiver neither keeps what was
\* revoked nor locks the sender out.
FloodSafe == FloodTypeOK /\ StaleOnlyUnderSameAnsn /\ RefusedBounded

\* olsr_delete_revoked_tc_edges: the edges that the node no longer advertises
\* are deleted sooner or later, and for good, although a TC that is generated
\* in the same pass as the change still carries the old ANSN.
StaleEdgesGo == <>[](restarts > 0 \/ Edges(Sender) \subseteq advertised)
=============================================================================
