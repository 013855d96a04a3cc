----------------------------- MODULE TimerWheel -----------------------------
(***************************************************************************)
(* The timers of src/scheduler.c: a wheel of slots hashed by the instant a  *)
(* timer is due, walked from the instant of the last walk to now_times, and *)
(* the fixed size memory blocks of src/olsr_cookie.c the timers live in.    *)
(*                                                                          *)
(* A client is one pointer variable of the program that holds a timer (a    *)
(* link's link_sym_timer, the spf_backoff_timer...).  Its callback runs in  *)
(* the middle of the walk and may start, change and stop timers, its own    *)
(* one included.  No callback of the program stops its own timer and then   *)
(* starts another one.                                                      *)
(*                                                                          *)
(* The tables are one record s; due[c] is the time that is really left      *)
(* before the timer of c is due, whatever the wrapping clock says.          *)
(*                                                                          *)
(* Definitions named after the next one with a suffix are mutated forms.    *)
(***************************************************************************)
EXTENDS OlsrClock, Sequences, FiniteSets

LOCAL INSTANCE SequencesExt

CONSTANTS
  SLOTS,          \* TIMER_WHEEL_SLOTS
  Clients,
  REL_TIME,       \* client -> the rel_time it asks for
  JITTER,         \* client -> its jitter_pct
  Periodic,       \* the clients whose timers are periodical
  Callbacks,      \* client -> what its callback may do
  STEPS,          \* how long a pass of the scheduler may take
  THRESHOLD       \* COOKIE_FREE_LIST_THRESHOLD

NO_BLOCK == 0
NOT_ARMED == TIME_SPACE
Blocks == 1 .. Cardinality(Clients) + THRESHOLD
Slots == 0 .. SLOTS - 1
MAX_STEP == CHOOSE d \in STEPS : \A e \in STEPS : e <= d

\* Nothing but the flags is read of a timer that was stopped.
NOT_RUNNING == [clock |-> 0, period |-> 0, running |-> FALSE, client |-> CHOOSE c \in Clients : TRUE]

VARIABLES
  tw_pc,      \* "scheduler" between two walks, "walk_timers" in one
  now_times,
  last_run,   \* timer_last_run
  walks,      \* wheel_slot_walks
  tw,         \* the tables: wheel, tmp, mem, free, heap, ptr, due
  early       \* has a callback run before it was due?

tw_vars == <<tw_pc, now_times, last_run, walks, tw, early>>
----------------------------------------------------------------------------
\* calc_jitter: the delays that rel_time may become, random() being any value.
calc_jitter(rel_time, pct) ==
  IF pct = 0 \/ pct > 99 THEN {rel_time}
  ELSE {rel_time - j : j \in 0 .. (pct * rel_time) \div 100}

list_remove(s, b) ==
  [s EXCEPT !.wheel = [i \in Slots |-> SelectSeq(s.wheel[i], LAMBDA x : x # b)],
            !.tmp = SelectSeq(@, LAMBDA x : x # b)]

list_add_before(s, clock, b) == [s EXCEPT !.wheel[clock % SLOTS] = Append(@, b)]

InUse(s) == {b \in Blocks : s.mem[b].running}

\* olsr_cookie_malloc: the first block of the free list, else fresh memory.
olsr_cookie_malloc(s) ==
  IF s.free # <<>> THEN <<Head(s.free), [s EXCEPT !.free = Tail(@)]>>
  ELSE LET b == CHOOSE x \in s.heap : \A y \in s.heap : x <= y
       IN <<b, [s EXCEPT !.heap = @ \ {b}]>>

\* olsr_cookie_free.  Only the list node at the start of the block is written:
\* what walk_timers reads of a timer that is gone is what the timer left there.
olsr_cookie_free(s, b) ==
  IF \/ Len(s.free) < THRESHOLD
     \/ Len(s.free) < (Cardinality(InUse(s)) + 1) \div THRESHOLD
  THEN [s EXCEPT !.free = Append(@, b)]
  ELSE [s EXCEPT !.heap = @ \cup {b}]

olsr_start_timer(s, c, delay) ==
  LET b == olsr_cookie_malloc(s)[1]
      t == olsr_cookie_malloc(s)[2]
      clock == olsr_getTimestamp(now_times, delay)
      period == IF c \in Periodic THEN REL_TIME[c] ELSE 0
      new == [clock |-> clock, period |-> period, running |-> TRUE, client |-> c]
  IN list_add_before([t EXCEPT !.mem[b] = new, !.ptr[c] = b, !.due[c] = delay], clock, b)

\* The timer in block b is stopped; the pointer of its client is not touched.
olsr_stop_timer(s, b) ==
  IF b = NO_BLOCK THEN s
  ELSE LET t == list_remove(s, b)
           u == [t EXCEPT !.mem[b] = NOT_RUNNING, !.due[t.mem[b].client] = NOT_ARMED]
       IN olsr_cookie_free(u, b)

\* The clients keep rel_time and whether their timer is periodical.
olsr_change_timer(s, b, delay) ==
  LET clock == olsr_getTimestamp(now_times, delay)
      c == s.mem[b].client
      t == [s EXCEPT !.mem[b].clock = clock, !.due[c] = delay]
  IN IF b = NO_BLOCK THEN s ELSE list_add_before(list_remove(t, b), clock, b)

\* olsr_set_timer with the jittered delay, 0 for the rel_time that kills it.
olsr_set_timer(s, c, delay) ==
  IF delay = 0 THEN [olsr_stop_timer(s, s.ptr[c]) EXCEPT !.ptr[c] = NO_BLOCK]
  ELSE IF s.ptr[c] = NO_BLOCK THEN olsr_start_timer(s, c, delay)
  ELSE olsr_change_timer(s, s.ptr[c], delay)
----------------------------------------------------------------------------
\* What the callback of c may do to the tables: op is "return", "stop_self",
\* "change_self", or it sets ("set") or kills ("stop") the timer of op[2].
\* The callback of a one-shot timer forgets the pointer to its own timer.
Callback(s, c, op) ==
  LET t == IF c \in Periodic THEN s ELSE [s EXCEPT !.ptr[c] = NO_BLOCK]
  IN CASE op[1] = "return" -> {t}
       [] op[1] = "stop_self" -> {olsr_set_timer(t, c, 0)}
       [] op[1] = "change_self" ->
            {olsr_change_timer(t, t.ptr[c], d) : d \in calc_jitter(REL_TIME[c], JITTER[c])}
       [] op[1] = "stop" -> {olsr_set_timer(t, op[2], 0)}
       [] op[1] = "set" ->
            {olsr_set_timer(t, op[2], d) : d \in calc_jitter(REL_TIME[op[2]], JITTER[op[2]])}

AfterCallback_Unchecked(s, b) ==
  IF s.mem[b].period = 0 THEN {olsr_stop_timer(s, b)}
  ELSE {olsr_change_timer(s, b, d) :
          d \in calc_jitter(s.mem[b].period, JITTER[s.mem[b].client])}

\* walk_timers after the callback: a timer that still runs is restarted if it
\* is periodical and stopped if it is not.
AfterCallback(s, b) ==
  IF ~s.mem[b].running THEN {s}
  ELSE IF s.mem[b].period = 0 THEN {olsr_stop_timer(s, b)}
  ELSE {olsr_change_timer(s, b, d) :
          d \in calc_jitter(s.mem[b].period, JITTER[s.mem[b].client])}

\* A callback is called for a one-shot timer that is no longer pending.
Fired(s, b) == [s EXCEPT !.due[s.mem[b].client] = NOT_ARMED]

\* The condition of the outer loop of walk_timers, a raw comparison.
Walking(last, now, n) == last <= now /\ n < SLOTS

Slot == last_run % SLOTS

\* TIMED_OUT(timer->timer_clock)
Ready(clock) == olsr_isTimedOut(now_times, clock)

\* The inner loop: the top of the slot moves to the temporary list and fires.
WalkTimer ==
  /\ tw_pc = "walk_timers" /\ Walking(last_run, now_times, walks) /\ tw.wheel[Slot] # <<>>
  /\ LET b == Head(tw.wheel[Slot])
         s == [list_remove(tw, b) EXCEPT !.tmp = <<b>> \o @]
         c == tw.mem[b].client
     IN IF ~Ready(tw.mem[b].clock) THEN tw' = s /\ UNCHANGED early
        ELSE /\ early' = (early \/ tw.due[c] > 0)
             /\ \E op \in Callbacks[c] : \E t \in Callback(Fired(s, b), c, op) :
                  tw' \in AfterCallback(t, b)
  /\ UNCHANGED <<tw_pc, now_times, last_run, walks>>

\* The slot is empty: the temporary list is merged back.
WalkSlot ==
  /\ tw_pc = "walk_timers" /\ Walking(last_run, now_times, walks) /\ tw.wheel[Slot] = <<>>
  /\ tw' = [tw EXCEPT !.wheel[Slot] = tw.tmp, !.tmp = <<>>]
  /\ last_run' = (last_run + 1) % TIME_SPACE
  /\ walks' = walks + 1
  /\ UNCHANGED <<tw_pc, now_times, early>>

EndWalk ==
  /\ tw_pc = "walk_timers" /\ ~Walking(last_run, now_times, walks)
  /\ tw_pc' = "scheduler" /\ last_run' = now_times /\ walks' = 0
  /\ UNCHANGED <<now_times, tw, early>>
----------------------------------------------------------------------------
\* A pass of olsr_scheduler: select waits, olsr_times reads the clock, and
\* walk_timers is called.
StartWalk ==
  /\ tw_pc = "scheduler"
  /\ \E d \in STEPS :
       /\ now_times' = olsr_getTimestamp(now_times, d)
       /\ tw' = [tw EXCEPT !.due = [c \in Clients |->
                                     IF @[c] = NOT_ARMED THEN @[c] ELSE @[c] - d]]
  /\ tw_pc' = "walk_timers"
  /\ UNCHANGED <<last_run, walks, early>>

\* A message handler, or a plugin, sets or kills the timer of c.
SocketHandler(c) ==
  /\ tw_pc = "scheduler"
  /\ \E d \in {0} \cup calc_jitter(REL_TIME[c], JITTER[c]) : tw' = olsr_set_timer(tw, c, d)
  /\ UNCHANGED <<tw_pc, now_times, last_run, walks, early>>

\* olsr_flush_timers, from the shutdown: every slot is emptied.  The pointers
\* of the clients are left as they are; the process ends.
FlushTimers ==
  /\ tw_pc = "scheduler"
  /\ LET Flush[i \in 0 .. SLOTS] ==
           IF i = 0 THEN tw
           ELSE FoldLeft(olsr_stop_timer, Flush[i - 1], Flush[i - 1].wheel[i - 1])
     IN tw' = Flush[SLOTS]
  /\ tw_pc' = "exited"
  /\ UNCHANGED <<now_times, last_run, walks, early>>

\* olsr_init_timers. 
TwInit ==
  /\ tw_pc = "scheduler" /\ now_times = 0 /\ last_run = 0 /\ walks = 0
  /\ tw = [wheel |-> [i \in Slots |-> <<>>], tmp |-> <<>>,
           mem |-> [b \in Blocks |-> NOT_RUNNING],
           free |-> <<>>, heap |-> Blocks,
           ptr |-> [c \in Clients |-> NO_BLOCK],
           due |-> [c \in Clients |-> NOT_ARMED]]
  /\ early = FALSE

TwNext ==
  \/ StartWalk \/ WalkTimer \/ WalkSlot \/ EndWalk \/ FlushTimers
  \/ \E c \in Clients : SocketHandler(c)

\* walk_timers is a loop of the single thread: it goes on.
TwFairness == WF_tw_vars(WalkTimer \/ WalkSlot \/ EndWalk)
----------------------------------------------------------------------------
\* Every variable stays in its domain.
TwTypeOK ==
  /\ tw_pc \in {"scheduler", "walk_timers", "exited"}
  /\ now_times \in Times /\ last_run \in Times /\ walks \in 0 .. SLOTS
  /\ tw.ptr \in [Clients -> Blocks \cup {NO_BLOCK}]
  /\ tw.heap \subseteq Blocks /\ early \in BOOLEAN

OnLists(s, b) ==
  Cardinality({<<i, k>> \in Slots \X (1 .. Cardinality(Blocks)) :
                 k <= Len(s.wheel[i]) /\ s.wheel[i][k] = b})
  + Cardinality({k \in DOMAIN s.tmp : s.tmp[k] = b})
  + Cardinality({k \in DOMAIN s.free : s.free[k] = b})
  + (IF b \in s.heap THEN 1 ELSE 0)

\* However callbacks stop, restart and free timers in the middle of the walk,
\* a block is in one place only: a running timer in the slot of its clock or
\* on the temporary list of the slot being walked, any other block on the free
\* list or with malloc (list_remove and list_add_before in walk_timers,
\* olsr_change_timer and olsr_stop_timer).
WheelExact ==
  \A b \in Blocks :
    /\ OnLists(tw, b) = 1
    /\ tw.mem[b].running =>
         \/ \E k \in DOMAIN tw.wheel[tw.mem[b].clock % SLOTS] :
              tw.wheel[tw.mem[b].clock % SLOTS][k] = b
         \/ \E k \in DOMAIN tw.tmp : tw.tmp[k] = b

\* While the daemon runs, a client that holds a pointer to a timer holds one to
\* a timer of its own that runs, never to memory that was freed or that the
\* cookie allocator gave to another client; and a timer nobody points to any
\* more is not left running (the re-use of blocks by olsr_cookie_malloc).
PointersLive ==
  tw_pc # "exited" =>
    \A b \in Blocks :
      /\ \A c \in Clients : tw.ptr[c] = b => tw.mem[b].running /\ tw.mem[b].client = c
      /\ tw.mem[b].running => tw.ptr[tw.mem[b].client] = b

\* A callback never runs before its time, across the wrap of the clock too
\* (TIMED_OUT in walk_timers).
NeverEarly == ~early

\* After a walk nothing that is due is left, unless the clock wrapped less than
\* a turn of the wheel ago: then last_run <= now_times fails, the slots between
\* are passed over and their timers wait for the next turn, never longer.
Punctual ==
  \A c \in Clients :
    /\ tw_pc = "scheduler" /\ last_run = now_times /\ now_times >= SLOTS + MAX_STEP
         => tw.due[c] > 0
    /\ tw.due[c] >= -(SLOTS + 2 * MAX_STEP)

\* The wheel keeps its promise to the callers of olsr_start_timer, olsr_change_timer
\* and olsr_stop_timer: no block is lost or shared, and a timer fires once, on time.
WheelSound == TwTypeOK /\ WheelExact /\ PointersLive /\ NeverEarly /\ Punctual

\* The walk ends whatever the callbacks start: nothing that is set in a walk is
\* due in it, and a timer is looked at once per slot (the temporary list of
\* walk_timers).
WalkEnds == tw_pc = "walk_timers" ~> tw_pc = "scheduler"
=============================================================================
