---------------------------- MODULE LinkQuality ----------------------------
(***************************************************************************)
(* How a link's quality and cost are measured: the dispatch of             *)
(* src/lq_plugin.c and the algorithms etx_ff, etx_ffeth and etx_fpm        *)
(* (src/lq_plugin_default_ff.c, _ffeth.c, _fpm.c).  The first two count    *)
(* the packets of a sliding window by their sequence numbers, once a       *)
(* second; etx_fpm averages received and lost HELLOs.                      *)
(*                                                                         *)
(* Qualities are bytes and costs fixed-point numbers as in the code.  The  *)
(* window, the range of the sequence numbers and the gap that counts as a  *)
(* jump are constants; the code has 32, 65536 and 256.  A configuration    *)
(* says which algorithm runs and bounds what happens.                      *)
(*                                                                         *)
(* Definitions named X_Word are mutated forms of X.                        *)
(***************************************************************************)
EXTENDS Integers, Sequences, FiniteSets, FiniteSetsExt, SequencesExt

CONSTANTS
  LK_CONFIGS,      \* a sequence of configurations, records as in MCNeighborhood
  LK_WINDOW,       \* LQ_FF_WINDOW, LQ_FFETH_WINDOW
  LK_QUICKSTART,   \* LQ_FF_QUICKSTART_INIT
  LK_SEQNOS,       \* the number of sequence numbers
  LK_JUMP          \* the largest gap taken for lost packets

VARIABLES
  lk_cfg,
  lk_links,     \* per link: what the plugin keeps of it
  lk_signal,    \* whether the step called olsr_relevant_linkcost_change
  lk_fresh,     \* whether the step was the timer of the algorithm
  lk_quiet,     \* per link: whole timer periods in a row without a packet
  lk_clean,     \* per link: whole timer periods in a row with packets and no loss
  lk_lost,      \* per link: HELLOs lost in a row, for etx_fpm
  lk_row        \* a quality, where a configuration tabulates the cost

lk_vars == <<lk_cfg, lk_links, lk_signal, lk_fresh, lk_quiet, lk_clean, lk_lost, lk_row>>

LkCnf == LK_CONFIGS[lk_cfg]
LkLinks == 1..LkCnf.links
LkSlots == 0..(LK_WINDOW - 1)
LINK_COST_BROKEN == 2^22
MINIMAL_USEFUL == 25         \* 255 * MINIMAL_USEFUL_LQ
LQ_QUICKSTART_STEPS == 12
LkCeil(a, b) == (a + b - 1) \div b

\* fpm.h: ten bits behind the point.
itofpm(i) == i * 1024
fpmtoi(a) == a \div 1024

----------------------------------------------------------------------------
\* The cost of a pair of qualities.

LkClamp(cost) == IF cost > LINK_COST_BROKEN THEN LINK_COST_BROKEN
                 ELSE IF cost = 0 THEN 1 ELSE cost
LkUseless(l, n) == l < MINIMAL_USEFUL \/ n < MINIMAL_USEFUL

default_lq_calc_cost_ff(l, n) ==
  IF LkUseless(l, n) THEN LINK_COST_BROKEN ELSE LkClamp(itofpm(255 * 255) \div (l * n))

\* A wireless link has at most 254, and counts as one better.
default_lq_calc_cost_ffeth(l, n) ==
  LET up(q) == IF q > 0 /\ q < 255 THEN q + 1 ELSE q
      cost == itofpm(255 * 255) \div (up(l) * up(n))
  IN IF LkUseless(l, n) THEN LINK_COST_BROKEN
     ELSE LkClamp(IF l = 255 /\ n = 255 THEN cost \div 10 ELSE cost)

default_lq_calc_cost_fpm(l, n) ==
  IF LkUseless(l, n) THEN LINK_COST_BROKEN
  ELSE LkClamp(((((65535 * 255) \div l) * 255) \div n))

LkCostOf(handler, l, n) ==
  CASE handler = "ff" -> default_lq_calc_cost_ff(l, n)
    [] handler = "ffeth" -> default_lq_calc_cost_ffeth(l, n)
    [] handler = "fpm" -> default_lq_calc_cost_fpm(l, n)

olsr_calc_tc_cost(l, n) == LkCostOf(LkCnf.handler, l, n)

\* The four bytes in a HELLO.  etx_ffeth leaves the two free that the others use.
olsr_serialize_hello_lq_pair(handler, q) ==
  IF handler = "ffeth" THEN <<0, 0, q.l, q.n>> ELSE <<q.l, q.n, 0, 0>>

olsr_deserialize_hello_lq_pair(handler, bytes) ==
  IF handler = "ffeth" THEN [l |-> bytes[3], n |-> bytes[4]] ELSE [l |-> bytes[1], n |-> bytes[2]]

----------------------------------------------------------------------------
\* A link's record: lq is measured, sm what costs and messages use.

default_lq_clear_ff_hello ==
  [lq |-> [l |-> 0, n |-> 0], sm |-> [l |-> 0, n |-> 0], win |-> LK_QUICKSTART, ptr |-> 0,
   last |-> 0, missed |-> 0, rec |-> [i \in LkSlots |-> 0], tot |-> [i \in LkSlots |-> 3],
   perfect |-> FALSE, quickstart |-> 0, cost |-> LINK_COST_BROKEN]

default_lq_parser_ff_Jump(k, seqno) ==
  IF k.last = seqno THEN k
  ELSE [k EXCEPT !.rec[k.ptr] = @ + 1,
                 !.tot[k.ptr] = @ + IF k.last > seqno THEN 0 ELSE seqno - k.last,
                 !.last = seqno, !.missed = 0]

\* A packet of the link's neighbour.
default_lq_parser_ff(k, seqno) ==
  LET diff == IF k.last > seqno THEN seqno + LK_SEQNOS - k.last ELSE seqno - k.last
  IN IF k.last = seqno THEN k
     ELSE [k EXCEPT !.rec[k.ptr] = @ + 1,
                    !.tot[k.ptr] = @ + IF diff > LK_JUMP THEN 1 ELSE diff,
                    !.last = seqno, !.missed = 0]

default_lq_parser_ffeth(k, seqno) == default_lq_parser_ff(k, seqno)

\* Whether a quality moved by more than a tenth of what is in use.
LkRelevant(old, new, top) ==
  \/ old < new /\ (new >= top \/ new - old > old \div 10)
  \/ old > new /\ old - new > old \div 10

LkAdopt(k) == [k EXCEPT !.sm = k.lq, !.cost = olsr_calc_tc_cost(k.lq.l, k.lq.n)]

LkHandleChange_Eager(links, top) ==
  [links |-> [i \in DOMAIN links |-> LkAdopt(links[i])],
   signal |-> \E i \in DOMAIN links : LkRelevant(links[i].sm.l, links[i].lq.l, top)]

\* One relevant change takes the others along.
LkHandleChange(links, top) ==
  LET relevant == {i \in DOMAIN links : \/ LkRelevant(links[i].sm.l, links[i].lq.l, top)
                                        \/ LkRelevant(links[i].sm.n, links[i].lq.n, top)}
      Good(k) == k.sm.l >= top /\ k.sm.n >= top
  IN [links |-> [i \in DOMAIN links |->
                   IF i \in relevant \/ (relevant # {} /\ ~Good(links[i]))
                     THEN LkAdopt(links[i]) ELSE links[i]],
      signal |-> relevant # {}]

default_lq_ff_handle_lqchange(links) == LkHandleChange(links, 255)
default_lq_ffeth_handle_lqchange(links) == LkHandleChange(links, 254)

\* The sums over the window, which grows until it has its full size.
LkSum(f, size) == FoldSet(LAMBDA i, s : s + f[i], 0, 0..(size - 1))

\* The share of the packets that came, less what missed HELLOs stand for.
LkMeasure(k, win) ==
  LET total == LkSum(k.tot, win)
      received == LkSum(k.rec, win)
      interval == k.missed * LkCnf.helloint
      kept == IF k.missed <= 1 THEN received
              ELSE IF interval > LK_WINDOW THEN 0
              ELSE (received * (LK_WINDOW - interval)) \div LK_WINDOW
  IN IF total = 0 THEN 0 ELSE fpmtoi(((((LkCnf.mult * 4) * kept) \div total) * 255))

LkShift(k, win, q, perfect) ==
  LET ptr == (k.ptr + 1) % LK_WINDOW
  IN [k EXCEPT !.win = win, !.lq.l = q, !.perfect = perfect,
               !.ptr = ptr, !.rec[ptr] = 0, !.tot[ptr] = 0]

LkWin(k) == IF k.win < LK_WINDOW THEN k.win + 1 ELSE k.win

default_lq_ff_timer(k) == LkShift(k, LkWin(k), LkMeasure(k, LkWin(k)), k.perfect)

\* (uint8_t)(0.95 * 255) is 242, (uint8_t)(0.90 * 255) is 229.
default_lq_ffeth_timer(k) ==
  LET q == LkMeasure(k, LkWin(k))
      perfect == IF q > 242 THEN TRUE ELSE IF q > 229 THEN FALSE ELSE k.perfect
  IN IF LkCnf.ether THEN LkShift(k, LkWin(k), IF perfect THEN 255 ELSE q, perfect)
     ELSE LkShift(k, LkWin(k), IF q > 0 THEN q - 1 ELSE 0, k.perfect)

\* The moving average of etx_fpm, rounded up: an old value of 257 * valueLq weighs
\* 65535 - alpha, a received HELLO alpha; mult is in units of 1 / 256.
default_lq_packet_loss_worker_fpm(k, lost) ==
  LET quick == k.quickstart < LQ_QUICKSTART_STEPS
      alpha == IF quick THEN 16383 ELSE LkCnf.aging
      value == LkCeil(k.lq.l * (65535 - alpha), 255)
                 + (IF lost THEN 0 ELSE LkCeil(alpha * LkCnf.mult, 256))
      q == LkCeil(value * 255, 65535) % 256
      n == [k EXCEPT !.lq.l = q, !.quickstart = IF quick THEN @ + 1 ELSE @]
  IN LkAdopt(n)

\* For the windowed algorithms only lost HELLOs count here.
default_lq_packet_loss_worker_ff(k, lost) == IF lost THEN [k EXCEPT !.missed = @ + 1] ELSE k

olsr_update_packet_loss_worker(k, lost) ==
  IF LkCnf.handler = "fpm" THEN default_lq_packet_loss_worker_fpm(k, lost)
  ELSE default_lq_packet_loss_worker_ff(k, lost)

\* What the neighbour says of the other direction; nothing when it lists no link to us.
olsr_memorize_foreign_hello_lq(k, foreign) ==
  [k EXCEPT !.lq.n = IF foreign = <<>> THEN 0 ELSE foreign[1].l]

----------------------------------------------------------------------------
LkInitFor(c, row) ==
  /\ lk_cfg = c
  /\ lk_links = [l \in LkLinks |-> default_lq_clear_ff_hello]
  /\ lk_signal = FALSE /\ lk_fresh = FALSE
  /\ lk_quiet = [l \in LkLinks |-> -1]
  /\ lk_clean = [l \in LkLinks |-> -1]
  /\ lk_lost = [l \in LkLinks |-> 0]
  /\ lk_row = row

LkRows(c) == IF LK_CONFIGS[c].table THEN 0..254 ELSE {0}

LkInit == \E c \in 1..Len(LK_CONFIGS) : \E row \in LkRows(c) : LkInitFor(c, row)

LkWindowed == LkCnf.handler # "fpm"

\* A packet with no HELLO; a gap of 1 is the next one, 0 a copy of the last.
LkPacket(l) ==
  LET k == lk_links[l]
  IN /\ LkWindowed /\ ~LkCnf.table /\ l \in LkCnf.heard
     /\ k.rec[k.ptr] < LkCnf.packets
     /\ \E gap \in LkCnf.gaps :
          LET seqno == (k.last + gap) % LK_SEQNOS
          IN /\ lk_links' = [lk_links EXCEPT ![l] =
                              IF LkCnf.handler = "ff" THEN default_lq_parser_ff(k, seqno)
                              ELSE default_lq_parser_ffeth(k, seqno)]
             /\ lk_quiet' = [lk_quiet EXCEPT ![l] = -1]
             /\ lk_clean' = [lk_clean EXCEPT ![l] = IF gap = 1 THEN @ ELSE -1]
     /\ lk_signal' = FALSE /\ lk_fresh' = FALSE
     /\ UNCHANGED <<lk_cfg, lk_lost, lk_row>>

\* olsr_hello_tap on a HELLO: what it says of us, then the received HELLO.
LkHello(l) ==
  /\ ~LkCnf.table
  /\ \E q \in LkCnf.foreign, peer \in LkCnf.peers :
       LET bytes == olsr_serialize_hello_lq_pair(peer, [l |-> q, n |-> 255])
           heard == <<olsr_deserialize_hello_lq_pair(LkCnf.handler, bytes)>>
           k == olsr_memorize_foreign_hello_lq(lk_links[l], IF q = 0 THEN <<>> ELSE heard)
       IN lk_links' = [lk_links EXCEPT ![l] = olsr_update_packet_loss_worker(k, FALSE)]
  /\ lk_lost' = [lk_lost EXCEPT ![l] = 0]
  /\ lk_signal' = ~LkWindowed
  /\ lk_fresh' = FALSE
  /\ UNCHANGED <<lk_cfg, lk_quiet, lk_clean, lk_row>>

\* olsr_expire_link_loss_timer
LkLoss(l) ==
  /\ ~LkCnf.table
  /\ IF LkWindowed THEN lk_links[l].missed < LkCnf.losses ELSE lk_lost[l] < LkCnf.losses
  /\ lk_links' = [lk_links EXCEPT ![l] = olsr_update_packet_loss_worker(lk_links[l], TRUE)]
  /\ lk_lost' = IF LkWindowed THEN lk_lost ELSE [lk_lost EXCEPT ![l] = @ + 1]
  /\ lk_signal' = ~LkWindowed
  /\ lk_fresh' = FALSE
  /\ UNCHANGED <<lk_cfg, lk_quiet, lk_clean, lk_row>>

\* The timer of the windowed algorithms.
LkTimer ==
  LET shifted == [l \in LkLinks |-> IF LkCnf.handler = "ff" THEN default_lq_ff_timer(lk_links[l])
                                    ELSE default_lq_ffeth_timer(lk_links[l])]
      r == IF LkCnf.handler = "ff" THEN default_lq_ff_handle_lqchange(shifted)
           ELSE default_lq_ffeth_handle_lqchange(shifted)
      up(n) == IF n < LK_WINDOW THEN n + 1 ELSE n
  IN /\ LkWindowed /\ ~LkCnf.table
     /\ lk_links' = r.links
     /\ lk_signal' = r.signal
     /\ lk_quiet' = [l \in LkLinks |-> up(lk_quiet[l])]
     /\ lk_clean' = [l \in LkLinks |-> IF lk_links[l].rec[lk_links[l].ptr] = 0 THEN -1
                                       ELSE up(lk_clean[l])]
     /\ lk_fresh' = TRUE
     /\ UNCHANGED <<lk_cfg, lk_lost, lk_row>>

LkTable == LkCnf.table /\ UNCHANGED lk_vars

LkNext ==
  \/ \E l \in LkLinks : LkPacket(l) \/ LkHello(l) \/ LkLoss(l)
  \/ LkTimer
  \/ LkTable

LkSpec == LkInit /\ [][LkNext]_lk_vars

----------------------------------------------------------------------------
\* default_lq_parser_ff: whatever is lost, doubled, reordered or restarted, a slot never
\* counts more packets as received than as sent, so the share fits the byte it is
\* stored in.
LkReceivedAtMostSent ==
  \A l \in LkLinks, i \in LkSlots : lk_links[l].rec[i] <= lk_links[l].tot[i]

\* default_lq_ff_timer: when nothing came for a whole window the link costs as much as
\* a broken one, whatever was lost before.  (An Ethernet link of etx_ffeth may keep its
\* boost.)
LkSilentBroken ==
  \A l \in LkLinks :
    (LkWindowed /\ ~LkCnf.ether /\ lk_fresh /\ lk_quiet[l] = LK_WINDOW) =>
      lk_links[l].lq.l = 0 /\ lk_links[l].cost = LINK_COST_BROKEN

\* default_lq_ff_timer: a window of packets without loss or missed HELLO measures as the
\* best quality, also when the sequence numbers wrap.
LkPerfect ==
  \A l \in LkLinks :
    (LkWindowed /\ lk_fresh /\ lk_clean[l] = LK_WINDOW /\ lk_links[l].missed <= 1
       /\ LkCnf.mult = 256) =>
      lk_links[l].lq.l = IF LkCnf.handler = "ffeth" /\ ~LkCnf.ether THEN 254 ELSE 255

\* default_lq_ff_handle_lqchange: after the timer no quality in use is more than a tenth
\* off what was measured, and a direction that measured nothing is not in use.
LkSmoothed ==
  \A l \in LkLinks :
    (LkWindowed /\ lk_fresh) =>
      LET k == lk_links[l]
          close(a, b) == a - b <= a \div 10 /\ b - a <= a \div 10
      IN /\ close(k.sm.l, k.lq.l) /\ close(k.sm.n, k.lq.n)
         /\ (k.lq.l = 0 \/ k.lq.n = 0) => k.cost = LINK_COST_BROKEN

\* The windowed algorithms measure what happened in the window: silence, loss-free
\* reception and everything between (default_lq_ff_timer, default_lq_ffeth_timer).
LkMeasured == LkReceivedAtMostSent /\ LkSilentBroken /\ LkPerfect /\ LkSmoothed

\* The cost a link has is the cost of the qualities its messages carry.
LkCostInUse ==
  \A l \in LkLinks : lk_links[l].cost = olsr_calc_tc_cost(lk_links[l].sm.l, lk_links[l].sm.n)

\* olsr_relevant_linkcost_change: no link's cost changes without the tables being told.
LkSignalled ==
  [][(\E l \in LkLinks : lk_links'[l].cost # lk_links[l].cost) => lk_signal']_lk_vars

\* default_lq_packet_loss_worker_fpm: rounding never turns a lost HELLO into a better
\* quality or a received one into a worse, and the sum never leaves the byte; with
\* every HELLO received the quality arrives at 255 and stays there.
LkAverage ==
  [][LkCnf.handler = "fpm" =>
       \A l \in LkLinks :
         /\ lk_lost'[l] > lk_lost[l] => lk_links'[l].lq.l <= lk_links[l].lq.l
         /\ (lk_lost'[l] = 0 /\ LkCnf.mult = 256) => lk_links'[l].lq.l >= lk_links[l].lq.l]_lk_vars

\* With the aging of the default configuration, HELLOs lost in a row break the link.
LkFades ==
  \A l \in LkLinks :
    (LkCnf.handler = "fpm" /\ LkCnf.aging = 3276 /\ lk_lost[l] = LkCnf.losses) =>
      lk_links[l].cost = LINK_COST_BROKEN

\* olsr_deserialize_hello_lq_pair: between nodes that run etx_ffeth and another
\* algorithm no link gets a finite cost, because neither reads the other's bytes.
LkMixed ==
  \A l \in LkLinks :
    (\A p \in LkCnf.peers : (p = "ffeth") # (LkCnf.handler = "ffeth")) =>
      lk_links[l].cost = LINK_COST_BROKEN

\* The cost never rises when a direction gets better, and the boost leaves every
\* Ethernet link cheaper than any other one.
LkMonotone ==
  LkCnf.table =>
    LET handler == LkCnf.handler
        cost(l, n) == LkCostOf(handler, l, n)
    IN \A q \in 0..255 :
         /\ cost(lk_row + 1, q) <= cost(lk_row, q)
         /\ cost(q, lk_row + 1) <= cost(q, lk_row)
         /\ cost(lk_row, q) \in 1..LINK_COST_BROKEN
         /\ handler = "ffeth" => cost(255, 255) * 9 < cost(lk_row, q)

\* Costs mean what they say: they follow what was received and the qualities in use, also near the ends of
\* the range, between nodes with different algorithms and after many lost HELLOs.
LkCostsSound == LkMeasured /\ LkCostInUse /\ LkFades /\ LkMixed /\ LkMonotone

\* What a step may do: a cost never changes unannounced, and a HELLO never moves the
\* average the wrong way.
LkStepsSound == LkSignalled /\ LkAverage
=============================================================================
