-------------------------------- MODULE Pud --------------------------------
(***************************************************************************)
(* The position update distribution plugin (lib/pud/src): it averages the  *)
(* positions a GPS sends it (posAvg.c), decides from the average and from  *)
(* the best uplink gateway whether the node is moving (receiver.c,         *)
(* state.c), and sends its position over OLSR and to an uplink server,     *)
(* fast while it moves and slowly while it stands still (timers.c).        *)
(*                                                                         *)
(* Positions are points of a line, elevations and speeds small integers;   *)
(* an average is kept as the sum and the number it is to be divided by.    *)
(* The fields that are treated alike (dates, satellites, PDOP, smask       *)
(* bits, tracks) are represented by the ones the decisions read.           *)
(*                                                                         *)
(* Definitions named X_Word are mutated forms of X.                        *)
(***************************************************************************)
EXTENDS Integers, Sequences, FiniteSets, FiniteSetsExt, SequencesExt

CONSTANT PD_CONFIGS   \* a sequence of configurations, with the bounds of each

VARIABLES
  pd_cfg,     \* which configuration this behaviour has
  pd_avg,     \* positionAverageList
  pd_state,   \* state: the sub-states and the external state
  pd_tx,      \* transmitGpsInformation
  pd_timer,   \* the interval of each of the three timers, 0 when it is stopped
  pd_air,     \* the last update sent: over OLSR and to the uplink server
  pd_file,    \* the position file, and the time stamp cached of it
  pd_gws,     \* the gateways the last look at the gateway tree saw
  pd_seen,    \* the readings since the average was last emptied, newest last
  pd_since,   \* readings of each sub-state since the last one against a state
  pd_steps    \* how many readings, gateway checks and file writes there were

pd_vars == <<pd_cfg, pd_avg, pd_state, pd_tx, pd_timer, pd_air, pd_file,
             pd_gws, pd_seen, pd_since, pd_steps>>

PdCnf == PD_CONFIGS[pd_cfg]

STATIONARY == "stationary"
MOVING == "moving"
PdSubstates == {"position", "gateway"}
PdNumbers == {"pos", "hdop", "elv", "vdop", "speed"}
PdFields == PdNumbers \cup {"sig", "fix"}

NMEA_FIX_BAD == 1
NMEA_SIG_BAD == 0
PdFixes == 1..3   \* bad, 2D, 3D
PdSigs == 0..3    \* bad, low, mid, high

(***************************************************************************)
(* posAvg.c: a ring with one place more than it averages.  Reading is an   *)
(* nmeaINFO: which fields are present, and their values, 0 when absent.    *)
(***************************************************************************)

nmea_zero_INFO ==
  [present |-> {}, val |-> [f \in PdNumbers |-> 0], sig |-> NMEA_SIG_BAD,
   fix |-> NMEA_FIX_BAD, den |-> 1]

PdIncoming(l) == (l.newest + 1) % (l.max + 1)

PdOldest(l) ==
  IF l.count > 1 THEN (PdIncoming(l) + (l.max + 1) - l.count) % (l.max + 1) ELSE l.newest

flushPositionAverageList(l) ==
  [l EXCEPT !.count = 0, !.counters = [f \in PdFields |-> 0],
            !.sigs = [s \in PdSigs |-> 0], !.fixes = [x \in PdFixes |-> 0],
            !.cumulative = nmea_zero_INFO, !.average = nmea_zero_INFO]

initPositionAverageList(max) ==
  flushPositionAverageList(
    [max |-> max, newest |-> 0, entries |-> [i \in 0..max |-> nmea_zero_INFO],
     count |-> 0, counters |-> <<>>, sigs |-> <<>>, fixes |-> <<>>,
     cumulative |-> nmea_zero_INFO, average |-> nmea_zero_INFO])

updateCounters(l, e, amount) ==
  [l EXCEPT !.counters = [f \in PdFields |-> IF f \in e.present THEN @[f] + amount ELSE @[f]],
            !.sigs = IF "sig" \in e.present THEN [@ EXCEPT ![e.sig] = @ + amount] ELSE @,
            !.fixes = IF "fix" \in e.present THEN [@ EXCEPT ![e.fix] = @ + amount] ELSE @]

\* A field is present in the average when every entry has it.
PdPresent(l) == {f \in PdFields : l.counters[f] >= l.count}

PdCumulativeSig(l) ==
  IF "sig" \notin PdPresent(l) \/ l.sigs[0] > 0 THEN NMEA_SIG_BAD
  ELSE IF l.sigs[3] >= l.count THEN 3
  ELSE IF l.sigs[2] > 0 THEN 2
  ELSE IF l.sigs[1] > 0 THEN 1 ELSE NMEA_SIG_BAD

PdCumulativeFix(l) ==
  IF "fix" \notin PdPresent(l) \/ l.fixes[1] > 0 THEN NMEA_FIX_BAD
  ELSE IF l.fixes[3] >= l.count THEN 3
  ELSE IF l.fixes[2] > 0 THEN 2 ELSE NMEA_FIX_BAD

determineCumulativePresentSmaskSigFix(l) ==
  [l EXCEPT !.cumulative.present = PdPresent(l),
            !.cumulative.sig = PdCumulativeSig(l),
            !.cumulative.fix = PdCumulativeFix(l)]

addOrRemoveEntryToFromCumulativeAverage(l, e, add) ==
  LET sign == IF add THEN 1 ELSE -1
      summed == [l EXCEPT
        !.cumulative.val = [f \in PdNumbers |-> @[f] + sign * e.val[f]],
        !.count = @ + sign]
  IN determineCumulativePresentSmaskSigFix(updateCounters(summed, e, sign))

updatePositionAverageFromCumulative(l) ==
  [l EXCEPT !.average = [l.cumulative EXCEPT !.den = IF l.count > 1 THEN l.count ELSE 1]]

addNewPositionToAverage(l, e) ==
  LET room == IF l.count >= l.max
                THEN addOrRemoveEntryToFromCumulativeAverage(l, l.entries[PdOldest(l)], FALSE)
                ELSE l
      added == addOrRemoveEntryToFromCumulativeAverage(room, e, TRUE)
  IN updatePositionAverageFromCumulative(
       [added EXCEPT !.entries[PdIncoming(l)] = e, !.newest = PdIncoming(l)])

(***************************************************************************)
(* receiver.c: is the average a movement against the last position sent?   *)
(***************************************************************************)

positionValid(p) == "fix" \in p.present /\ p.fix # NMEA_FIX_BAD

PdTri(b) == IF b THEN "set" ELSE "unset"

\* Distances are scaled by the product of the two divisors.
PdScale(avg, tx) == avg.den * tx.den

PdDistance(f, avg, tx) ==
  LET d == avg.val[f] * tx.den - tx.val[f] * avg.den IN IF d < 0 THEN 0 - d ELSE d

\* The dilution of precision of p, or the configured one when p has none.
PdDop(f, p, other) ==
  IF f \in p.present THEN p.val[f] * other.den ELSE PdCnf.dop * p.den * other.den

PdSpeedOver(avg) ==
  IF "speed" \in avg.present THEN PdTri(avg.val["speed"] >= PdCnf.speed * avg.den)
                             ELSE "unknown"

PdBoth(f, avg, tx) == f \in avg.present /\ f \in tx.present

PdDistanceOver(f, avg, tx) ==
  IF f \in avg.present /\ f \notin tx.present THEN "set"
  ELSE IF PdBoth(f, avg, tx)
    THEN PdTri(PdDistance(f, avg, tx) >= PdCnf.distance * PdScale(avg, tx))
    ELSE "unknown"

PdHasDop(d, avg, tx) == d \in avg.present \/ d \in tx.present

PdOutsideDop(f, d, avg, tx) ==
  IF PdBoth(f, avg, tx) /\ PdHasDop(d, avg, tx)
    THEN PdTri(PdDistance(f, avg, tx)
                 > PdCnf.multiplier * (PdDop(d, tx, avg) + PdDop(d, avg, tx)))
    ELSE "unknown"

PdInsideDop(f, d, avg, tx) ==
  IF PdBoth(f, avg, tx) /\ PdHasDop(d, avg, tx)
    THEN PdTri(PdDistance(f, avg, tx)
                 <= PdCnf.multiplier * (PdDop(d, tx, avg) - PdDop(d, avg, tx)))
    ELSE "unknown"

\* The criteria of a set agree: one is enough to be set, or to be unset.
PdAny(criteria) ==
  IF "set" \in criteria THEN "set" ELSE IF "unset" \in criteria THEN "unset" ELSE "unknown"

PdInside(avg, tx) ==
  LET criteria == {PdInsideDop("pos", "hdop", avg, tx), PdInsideDop("elv", "vdop", avg, tx)}
  IN IF criteria = {"set"} THEN "set" ELSE IF "unset" \in criteria THEN "unset" ELSE "unknown"

PdMoving(avg, tx) ==
  LET over == PdAny({PdSpeedOver(avg), PdDistanceOver("pos", avg, tx),
                     PdDistanceOver("elv", avg, tx)})
      outside == PdAny({PdOutsideDop("pos", "hdop", avg, tx),
                        PdOutsideDop("elv", "vdop", avg, tx)})
  IN IF "set" \in {over, outside} THEN "set"
     ELSE IF {over, outside} = {"unset"} THEN "unset" ELSE "unknown"

detemineMovingFromPosition(avg, tx) ==
  IF ~positionValid(avg) \/ ~positionValid(tx)
    THEN [moving |-> "unknown", inside |-> "unknown"]
    ELSE [moving |-> PdMoving(avg, tx), inside |-> PdInside(avg, tx)]

(***************************************************************************)
(* state.c: the movement state, with hysteresis.                           *)
(***************************************************************************)

initState ==
  [sub |-> [position |-> [internal |-> STATIONARY, counter |-> 0, external |-> STATIONARY],
            gateway |-> [internal |-> MOVING, counter |-> 0, external |-> MOVING]],
   external |-> MOVING]

PdThreshold(i, s) == PdCnf.hysteresis[i][s]

PdInternal(sub, movingNow) ==
  CASE movingNow = "set" -> MOVING
    [] movingNow = "unset" -> STATIONARY
    [] OTHER -> sub.internal

PdCounter(sub, new) ==
  LET from == IF new # sub.internal THEN 0 ELSE sub.counter
  IN IF new # sub.external THEN from + 1 ELSE from

PdSubstate(i, sub, movingNow) ==
  LET new == PdInternal(sub, movingNow)
      counter == PdCounter(sub, new)
  IN [internal |-> new, counter |-> counter,
      external |-> IF new # sub.external /\ counter >= PdThreshold(i, new)
                     THEN new ELSE sub.external]

\* One sub-state is enough to move, all of them are needed to be stationary.
PdOverall(state, i, subs) ==
  IF subs[i].external = state.sub[i].external THEN state.external
  ELSE IF subs[i].external = MOVING THEN MOVING
  ELSE IF \A j \in PdSubstates : subs[j].external = STATIONARY
    THEN STATIONARY ELSE state.external

determineStateWithHysteresis(state, i, movingNow) ==
  LET subs == [state.sub EXCEPT ![i] = PdSubstate(i, @, movingNow)]
  IN [sub |-> subs, external |-> PdOverall(state, i, subs)]

(***************************************************************************)
(* timers.c and the sending of updates.  The three timers are alike: a     *)
(* restart stops the timer and starts it with the new interval.            *)
(***************************************************************************)

restartOlsrTimer(timer, external) == [timer EXCEPT !.olsr = PdCnf.interval[external]]

restartUplinkTimer(timer, external) ==
  [timer EXCEPT !.uplink = PdCnf.uplinkInterval[external]]

\* The update sent: the position with its validity time, and to the uplink
\* server the cluster leader, with the uplink's validity time.
PdUpdate(tx, external) ==
  [validity |-> PdCnf.interval[external], speed |-> tx.pos.val["speed"]]

PdUplinked(tx, external) ==
  [validity |-> PdCnf.uplinkInterval[external], leader |-> tx.gateway]

\* The plugin runs only if createNetworkInterfaces could open the socket an uplink needs.
getDownlinkSocketFd == IF PdCnf.uplink THEN 1 ELSE -1

txToAllOlsrInterfaces(interfaces, air, tx, external) ==
  [olsr |-> IF "olsr" \in interfaces /\ PdCnf.ttl > 0 THEN PdUpdate(tx, external) ELSE air.olsr,
   uplink |-> IF "uplink" \in interfaces /\ PdCnf.uplink /\ getDownlinkSocketFd # -1
                THEN PdUplinked(tx, external) ELSE air.uplink]

PdSent(tx) == [tx EXCEPT !.updated = FALSE]

PdInterfaces == IF PdCnf.uplink THEN {"olsr", "uplink"} ELSE {"olsr"}

doImmediateTransmit_Quiet(tx, external) ==
  LET restarted == restartOlsrTimer(pd_timer, external)
  IN /\ pd_timer' = IF PdCnf.uplink THEN restartUplinkTimer(restarted, external) ELSE restarted
     /\ pd_air' = pd_air
     /\ pd_tx' = tx

doImmediateTransmit(tx, external) ==
  LET restarted == restartOlsrTimer(pd_timer, external)
  IN /\ pd_timer' = IF PdCnf.uplink THEN restartUplinkTimer(restarted, external) ELSE restarted
     /\ pd_air' = txToAllOlsrInterfaces(PdInterfaces, pd_air, tx, external)
     /\ pd_tx' = PdSent(tx)

\* Send at once when the external state changed, otherwise leave it to the timers.
PdConclude(tx, state) ==
  /\ pd_state' = state
  /\ IF state.external # pd_state.external
       THEN doImmediateTransmit(tx, state.external)
       ELSE pd_tx' = tx /\ UNCHANGED <<pd_timer, pd_air>>

(***************************************************************************)
(* uplinkGateway.c: the cluster leader is the fastest gateway.             *)
(***************************************************************************)

PdUsable(gw) == ~gw.broken /\ gw.up > 0 /\ gw.down > 0 /\ gw.ok

gw_speed(gw) == gw.up + gw.down

PdBetter(best, gw) ==
  \/ best = <<>>
  \/ gw_speed(gw) > gw_speed(best[1])
  \/ gw_speed(gw) = gw_speed(best[1]) /\ gw.addr < best[1].addr

\* The gateways in the order of their tree; our own address when none is usable.
getBestUplinkGateway(gws) ==
  LET best == FoldLeft(LAMBDA b, gw : IF PdUsable(gw) /\ PdBetter(b, gw) THEN <<gw>> ELSE b,
                       <<>>, gws)
  IN IF best = <<>> THEN PdCnf.main_addr ELSE best[1].addr

(***************************************************************************)
(* posFile.c: the file is read again when its time stamp, in seconds,      *)
(* differs from the cached one; one that does not parse changes nothing.   *)
(***************************************************************************)

readPositionFile(file, tx) ==
  IF file.mtime # file.cached /\ file.info # <<>> THEN [tx EXCEPT !.pos = file.info[1]] ELSE tx

PdCached(file) == [file EXCEPT !.cached = file.mtime]

(***************************************************************************)
(* The behaviours: startReceiver, then readings, timers and file changes.  *)
(***************************************************************************)

PdContrary(movingNow, s) ==
  movingNow = (IF s = MOVING THEN "unset" ELSE "set")

PdObserve(i, movingNow) ==
  pd_since' = [pd_since EXCEPT ![i] = [s \in {MOVING, STATIONARY} |->
    IF PdContrary(movingNow, s) THEN 0 ELSE Min({@[s] + 1, 3})]]

PdInitFor(c) ==
  /\ pd_cfg = c
  /\ pd_avg = initPositionAverageList(PD_CONFIGS[c].depth)
  /\ pd_state = initState
  /\ pd_file = [mtime |-> 1, cached |-> 1, info |-> PD_CONFIGS[c].file]
  /\ pd_tx = [pos |-> IF PD_CONFIGS[c].file = <<>> THEN nmea_zero_INFO ELSE PD_CONFIGS[c].file[1],
              gateway |-> PD_CONFIGS[c].main_addr, updated |-> FALSE]
  /\ pd_timer = [olsr |-> PD_CONFIGS[c].interval[MOVING],
                 uplink |-> PD_CONFIGS[c].uplinkInterval[MOVING]]
  /\ pd_air = [olsr |-> [validity |-> 0, speed |-> 0], uplink |-> [validity |-> 0, leader |-> 0]]
  /\ pd_gws = <<>>
  /\ pd_seen = <<>>
  /\ pd_since = [i \in PdSubstates |-> [s \in {MOVING, STATIONARY} |-> 0]]
  /\ pd_steps = [reading |-> 0, gateway |-> 0, file |-> 0]

PdInit == \E c \in 1..Len(PD_CONFIGS) : PdInitFor(c)

PdStep(what) ==
  /\ pd_steps[what] < PdCnf.bound[what]
  /\ pd_steps' = [pd_steps EXCEPT ![what] = @ + 1]

\* The position to send: without speed when the node is stationary.
PdPosition(avg, external) ==
  IF external = STATIONARY THEN [avg EXCEPT !.val["speed"] = 0] ELSE avg

\* The new average l, judged as m, makes state; update: the position to send is replaced.
PdReceived(r, l, m, state) ==
  LET moving == pd_state.sub["position"].internal = MOVING
      update == \/ state.external = MOVING
                \/ state.sub["position"].external # pd_state.sub["position"].external
                \/ positionValid(l.average) /\ ~positionValid(pd_tx.pos)
                \/ m.inside = "set"
  IN /\ PdStep("reading")
     /\ pd_avg' = l
     /\ PdConclude(IF update THEN [pd_tx EXCEPT !.pos = PdPosition(l.average, state.external),
                                               !.updated = TRUE]
                             ELSE pd_tx, state)
     /\ pd_seen' = LET all == Append(IF moving THEN <<>> ELSE pd_seen, r)
                   IN IF Len(all) > PdCnf.depth THEN Tail(all) ELSE all
     /\ PdObserve("position", m.moving)
     /\ UNCHANGED <<pd_cfg, pd_file, pd_gws>>
PdJudged(r, l, m) == PdReceived(r, l, m, determineStateWithHysteresis(pd_state, "position", m.moving))
PdAveraged(r, l) == PdJudged(r, l, detemineMovingFromPosition(l.average, pd_tx.pos))
receiverUpdateGpsInformation(r) ==
  PdAveraged(r, addNewPositionToAverage(
    IF pd_state.sub["position"].internal = MOVING THEN flushPositionAverageList(pd_avg) ELSE pd_avg, r))

\* A sentence without useful information was parsed into the incoming place.
PdUseless ==
  /\ PdStep("reading")
  /\ pd_avg' = [pd_avg EXCEPT !.entries[PdIncoming(pd_avg)] = nmea_zero_INFO]
  /\ UNCHANGED <<pd_cfg, pd_state, pd_tx, pd_timer, pd_air, pd_file, pd_gws, pd_seen, pd_since>>

pud_olsr_tx_timer_callback ==
  /\ pd_timer.olsr # 0
  /\ pd_air' = txToAllOlsrInterfaces({"olsr"}, pd_air, pd_tx, pd_state.external)
  /\ pd_tx' = PdSent(pd_tx)
  /\ UNCHANGED <<pd_cfg, pd_avg, pd_state, pd_timer, pd_file, pd_gws, pd_seen, pd_since, pd_steps>>

pud_uplink_timer_callback ==
  /\ pd_timer.uplink # 0
  /\ pd_air' = txToAllOlsrInterfaces({"uplink"}, pd_air, pd_tx, pd_state.external)
  /\ pd_tx' = PdSent(pd_tx)
  /\ UNCHANGED <<pd_cfg, pd_avg, pd_state, pd_timer, pd_file, pd_gws, pd_seen, pd_since, pd_steps>>

pud_gateway_timer_callback(gws) ==
  LET best == getBestUplinkGateway(gws)
      movingNow == PdTri(best # pd_tx.gateway)
      state == determineStateWithHysteresis(pd_state, "gateway", movingNow)
  IN /\ PdStep("gateway")
     /\ pd_gws' = gws
     /\ PdConclude([pd_tx EXCEPT !.gateway = best], state)
     /\ PdObserve("gateway", movingNow)
     /\ UNCHANGED <<pd_cfg, pd_avg, pd_file, pd_seen>>

\* Somebody writes the position file, perhaps in the second it was read in.
PdWriteFile(info) ==
  /\ PdStep("file")
  /\ \E later \in 0..1 : pd_file' = [pd_file EXCEPT !.mtime = @ + later, !.info = info]
  /\ UNCHANGED <<pd_cfg, pd_avg, pd_state, pd_tx, pd_timer, pd_air, pd_gws, pd_seen, pd_since>>

pud_read_position_file ==
  /\ pd_file.mtime # pd_file.cached
  /\ pd_tx' = readPositionFile(pd_file, pd_tx)
  /\ pd_file' = PdCached(pd_file)
  /\ UNCHANGED <<pd_cfg, pd_avg, pd_state, pd_timer, pd_air, pd_gws, pd_seen, pd_since, pd_steps>>

PdNext ==
  \/ \E r \in PdCnf.readings : receiverUpdateGpsInformation(r)
  \/ PdUseless
  \/ pud_olsr_tx_timer_callback
  \/ pud_uplink_timer_callback
  \/ \E gws \in PdCnf.gateways : pud_gateway_timer_callback(gws)
  \/ \E info \in PdCnf.files : PdWriteFile(info)
  \/ pud_read_position_file

PdSpec == PdInit /\ [][PdNext]_pd_vars

(***************************************************************************)
(* Properties.                                                             *)
(***************************************************************************)

PdWorst(values) == Min(values)

\* posAvg.c: the average is that of the last readings, at most as many as the
\* averaging depth and none from before the node started to move.  Sums and
\* counters are kept incrementally over a ring whose oldest place is computed
\* from the newest one; a field counts as present, and the fix as good, only
\* when they are in every reading averaged.
PdAverageExact ==
  LET n == Len(pd_seen)
      window == ToSet(pd_seen)
  IN /\ pd_avg.count = n
     /\ n > 0 =>
          /\ \A f \in PdNumbers : pd_avg.average.val[f]
                 = FoldLeft(LAMBDA sum, r : sum + r.val[f], 0, pd_seen)
          /\ pd_avg.average.den = n
          /\ pd_avg.average.present = {f \in PdFields : \A r \in window : f \in r.present}
          /\ "fix" \in pd_avg.average.present =>
               pd_avg.average.fix = PdWorst({r.fix : r \in window})

\* state.c: the node moves as long as one of its sub-states says so.
PdAndOr ==
  (pd_state.external = MOVING) <=> (\E i \in PdSubstates : pd_state.sub[i].external = MOVING)

\* state.c: a sub-state shows a change only after as many readings as configured
\* without one that says the opposite, however the readings came before.
PdHysteresis ==
  [][\A i \in PdSubstates :
       LET new == pd_state'.sub[i].external
       IN new # pd_state.sub[i].external => pd_since'[i][new] >= PdThreshold(i, new)]_pd_vars

\* receiver.c: the timers run at the rate of the state the node is in.
PdRate ==
  /\ pd_timer.olsr = PdCnf.interval[pd_state.external]
  /\ PdCnf.uplink => pd_timer.uplink = PdCnf.uplinkInterval[pd_state.external]

\* receiver.c: what the others were last told holds for as long as they have to
\* wait for the next update: no change of the rate is kept from them.
PdAnnounced ==
  /\ pd_air.olsr.validity \in {0, pd_timer.olsr}
  /\ pd_air.uplink.validity \in {0, pd_timer.uplink}

\* uplinkGateway.c: the leader is the fastest usable gateway the last look saw,
\* the lowest address among equals, whatever the order of the tree.
PdLeader ==
  LET usable == {gw \in ToSet(pd_gws) : PdUsable(gw)}
      fastest == {gw \in usable : \A other \in usable : gw_speed(other) <= gw_speed(gw)}
  IN pd_tx.gateway = IF usable = {} THEN PdCnf.main_addr ELSE Min({gw.addr : gw \in fastest})

\* What the node says of its position and how often it says so follows from its readings
\* and gateways as configured.
PdSound == PdAverageExact /\ PdAndOr /\ PdRate /\ PdAnnounced /\ PdLeader
=============================================================================
