----------------------------- MODULE OlsrClock -----------------------------
(***************************************************************************)
(* The wrapping millisecond clock of src/scheduler.c.  now_times is a      *)
(* uint32_t: every deadline of the daemon (validity of duplicate entries,  *)
(* of links, of timers) is a uint32_t compared with it by the operators    *)
(* below.  TIME_SPACE is 2^32 in the code; the operators are written for   *)
(* any even size so that TLC can check every pair of a small clock and     *)
(* TLAPS the general case.                                                 *)
(***************************************************************************)
EXTENDS Integers

CONSTANT HALF_TIME            \* 2^31 in the code

ASSUME HalfTimeAssumption == HALF_TIME \in Nat \ {0}

TIME_SPACE == 2 * HALF_TIME

Times == 0 .. TIME_SPACE - 1

\* olsr_getTimestamp(s): the instant s milliseconds after now_times.
olsr_getTimestamp(now_times, s) == (now_times + s) % TIME_SPACE

\* olsr_isTimedOut(s), the macro TIMED_OUT.
olsr_isTimedOut(now_times, s) ==
  IF s > now_times THEN s - now_times > HALF_TIME
                   ELSE now_times - s <= HALF_TIME
=============================================================================
