------------------------------ MODULE MCDaemon ------------------------------
(***************************************************************************)
(* One run for the frame of the daemon: its start, restart and end with the *)
(* plugins (Daemon), the main loop (MainLoop), the timer wheel (TimerWheel) *)
(* and the interfaces with their sockets (Interfaces).  A behaviour is one  *)
(* of the component that part names; the others do not move, so the state   *)
(* spaces add up and do not multiply.                                       *)
(***************************************************************************)
EXTENDS TimerWheel, Interfaces, Daemon, MainLoop

VARIABLE part

link_timer == "link_timer"
link_sym_timer == "link_sym_timer"
write_timer == "write_timer"

\* The timers of a link (link_set.c) and the write timer of an info plugin
\* (lib/txtinfo): the callbacks stop, restart and change each other's timers.
MCClients == {link_timer, link_sym_timer, write_timer}

MCRelTime ==
  [c \in MCClients |-> CASE c = link_timer -> 3 [] c = link_sym_timer -> 1 [] c = write_timer -> 2]

MCJitter == [c \in MCClients |-> IF c = link_timer THEN 34 ELSE 0]

MCCallbacks ==
  [c \in MCClients |->
     CASE c = link_timer -> {<<"stop", link_sym_timer>>, <<"stop", write_timer>>}
       [] c = link_sym_timer -> {<<"set", link_timer>>}
       [] c = write_timer -> {<<"stop_self">>, <<"change_self">>, <<"set", link_sym_timer>>}]

----------------------------------------------------------------------------
\* A second instance, restarts with a fast and with a slow parent, interfaces that
\* come and go, plugins that fail.
MCDmLib(name) ==
  [name |-> name, opens |-> TRUE, version |-> 5, init |-> TRUE, table |-> TRUE, size |-> 3,
   params |-> <<[known |-> TRUE, ok |-> TRUE], [known |-> FALSE, ok |-> FALSE]>>]

MCDmBase ==
  [procs |-> 2, interfaces |-> {"wlan0"}, smart_gw |-> FALSE, set_ip_forward |-> TRUE,
   allow_no_interfaces |-> FALSE, src_ip_routes |-> TRUE, second |-> FALSE, hup |-> FALSE,
   kill |-> FALSE, fast |-> TRUE, pidfails |-> FALSE, unplug |-> FALSE,
   plugins |-> <<MCDmLib("txtinfo")>>,
   settings |-> [forward |-> 0, redirect |-> 1, rp_filter |-> 1, tunnel_rp |-> 1]]

MCDmConfigs ==
  <<[MCDmBase EXCEPT !.second = TRUE],
    [MCDmBase EXCEPT !.hup = TRUE, !.procs = 3],
    [MCDmBase EXCEPT !.hup = TRUE, !.fast = FALSE, !.second = TRUE, !.smart_gw = TRUE, !.pidfails = TRUE],
    [MCDmBase EXCEPT !.unplug = TRUE, !.interfaces = {"eth0", "wlan0"},
                     !.allow_no_interfaces = TRUE, !.hup = TRUE, !.pidfails = TRUE],
    [MCDmBase EXCEPT !.kill = TRUE, !.unplug = TRUE, !.settings.redirect = 0],
    [MCDmBase EXCEPT !.set_ip_forward = FALSE],
    [MCDmBase EXCEPT !.set_ip_forward = FALSE, !.settings.forward = 1, !.src_ip_routes = FALSE],
    [MCDmBase EXCEPT !.plugins = <<[MCDmLib("bmf") EXCEPT !.params[1].ok = FALSE], MCDmLib("txtinfo")>>],
    [MCDmBase EXCEPT !.plugins = <<[MCDmLib("old") EXCEPT !.version = 4], MCDmLib("txtinfo")>>],
    [MCDmBase EXCEPT !.plugins = <<MCDmLib("txtinfo"), [MCDmLib("mini") EXCEPT !.size = 0]>>]>>

----------------------------------------------------------------------------
TimerPart == part = "timers" /\ TwNext /\ UNCHANGED <<if_vars, dm_vars, loop_vars>>
InterfacePart == part = "interfaces" /\ IfNext /\ UNCHANGED <<tw_vars, dm_vars, loop_vars>>
DaemonPart == part = "daemon" /\ DmNext /\ UNCHANGED <<tw_vars, if_vars, loop_vars>>
LoopPart == part = "loop" /\ LoopNext /\ UNCHANGED <<tw_vars, if_vars, dm_vars>>

\* After olsr_exit the daemon is gone.
Exited ==
  /\ (part = "timers" /\ tw_pc = "exited") \/ (part = "interfaces" /\ if_pc = "exited")
  /\ UNCHANGED <<tw_vars, if_vars, dm_vars, loop_vars>>

MCInit ==
  /\ part \in {"timers", "interfaces", "daemon", "loop"}
  /\ TwInit /\ IfInit /\ LoopInit
  /\ IF part = "daemon" THEN DmInit ELSE DmInitFor(1)

MCNext ==
  /\ TimerPart \/ InterfacePart \/ DaemonPart \/ LoopPart \/ Exited
  /\ UNCHANGED part

\* TwFairness and LoopFairness, each for the behaviours of its component.
Fairness ==
  /\ WF_tw_vars(part = "timers" /\ (WalkTimer \/ WalkSlot \/ EndWalk))
  /\ WF_loop_vars(part = "loop" /\ SocketsDone) /\ WF_loop_vars(part = "loop" /\ TimersDone)
  /\ WF_loop_vars(part = "loop" /\ ProcessChanges)
  /\ WF_loop_vars(part = "loop" /\ IncreaseAnsn)
  /\ SF_loop_vars(part = "loop" /\ olsr_expire_spf_backoff)

MCSpec ==
  /\ MCInit /\ [][MCNext]_<<tw_vars, if_vars, dm_vars, loop_vars, part>>
  /\ Fairness

\* What has to happen happens: a walk over the timer wheel ends whatever its callbacks
\* start, and a change reaches the routes.
ServedInTime == WalkEnds /\ RoutesCatchUpAfterBackoff
=============================================================================
