------------------------------- MODULE Daemon -------------------------------
(***************************************************************************)
(* The life of the daemon's processes on one machine: main's start, the    *)
(* lock, the plugins, the signals, olsr_shutdown and the restart of        *)
(* olsr_reconfigure (src/main.c, src/plugin_loader.c), and what they       *)
(* change in the kernel: the settings of src/linux/net.c and the policy    *)
(* rules.                                                                  *)
(*                                                                         *)
(* A process dies without cleaning up when it is killed, when olsr_exit    *)
(* raises SIGTERM before main has installed its handlers, and when a       *)
(* plugin cannot be loaded; and it may when a second signal runs           *)
(* olsr_shutdown again, which closes the plugins a second time.  Every     *)
(* other step of main that changes nothing outside the process is left     *)
(* out.                                                                    *)
(*                                                                         *)
(* Definitions named X_Word are mutated forms of X.                        *)
(***************************************************************************)
EXTENDS Integers, Sequences

CONSTANTS
  DM_CONFIGS,  \* a sequence of configurations, records as in MCDaemon
  DM_TRIES     \* how often main tries to get the lock: 6

ASSUME DmAssumption ==
  /\ DM_TRIES \in Nat \ {0}
  /\ \A c \in 1..Len(DM_CONFIGS) :
       /\ DM_CONFIGS[c].procs \in Nat
       /\ DM_CONFIGS[c].settings \in [{"forward", "redirect", "rp_filter", "tunnel_rp"} -> {0, 1}]
       /\ \A f \in {DM_CONFIGS[c].smart_gw, DM_CONFIGS[c].set_ip_forward, DM_CONFIGS[c].src_ip_routes} :
            f \in BOOLEAN

VARIABLES
  dm_cfg,      \* which configuration
  dm_proc,     \* per process: where it is and what it remembers
  dm_kernel,   \* the settings, the rules, whether lo:olsr exists
  dm_lock,     \* the process that holds the lock, or 0
  dm_gone,     \* interfaces that went down under a running daemon
  dm_unclean   \* whether a process that had changed something died uncleanly

dm_vars == <<dm_cfg, dm_proc, dm_kernel, dm_lock, dm_gone, dm_unclean>>

DmCnf == DM_CONFIGS[dm_cfg]
DmProcs == 1..DmCnf.procs
DmGlobal == {"forward", "redirect", "rp_filter", "tunnel_rp"}
DmIfSettings == DmCnf.interfaces \X {"redirect", "rp_filter"}
DmRuleTables == {"table", "tunnel", "default"}

\* What olsrd wants in a setting; all are 0 or 1.
DmWanted(s) == IF s = "forward" THEN 1 ELSE 0

(***************************************************************************)
(* linux/net.c: settings are saved, set and restored.  k is the kernel's   *)
(* state, p a process; -1 is a value never read.                           *)
(***************************************************************************)

\* The value a setting has after value is written to it; -1 writes nothing.
writeToProc(now, value) == IF value = -1 THEN now ELSE value

DmTouched ==
  {s \in DmGlobal : s = "tunnel_rp" => DmCnf.smart_gw}

\* Forwarding is only looked at when the configuration leaves it alone.
net_os_set_global_ifoptions(p, k) ==
  [proc |-> [p EXCEPT !.saved =
               [s \in DOMAIN @ |-> IF s \in DmTouched THEN k.settings[s] ELSE @[s]]],
   kernel |-> [k EXCEPT !.settings =
                 [s \in DOMAIN @ |->
                    writeToProc(@[s], IF s \in DmTouched /\ (s = "forward" => DmCnf.set_ip_forward)
                                        THEN DmWanted(s) ELSE -1)]]]

\* Interfaces taken up: unix/ifnet.c calls this for each, and each has its own settings.
net_os_set_ifoptions(p, k, up) ==
  LET mine == up \X {"redirect", "rp_filter"}
  IN [proc |-> [p EXCEPT !.ifs = @ \cup up,
                         !.nic = [s \in DOMAIN @ |-> IF s \in mine THEN k.nic[s] ELSE @[s]]],
      kernel |-> [k EXCEPT !.nic = [s \in DOMAIN @ |-> writeToProc(@[s], IF s \in mine THEN 0 ELSE -1)]]]

\* A value that was already as wanted is not written back.
restoreProc(original, wanted, now) ==
  IF original = wanted THEN now ELSE writeToProc(now, original)

net_os_restore_ifoptions(p, k) ==
  [k EXCEPT !.settings =
     [s \in DOMAIN @ |->
        IF s \in DmTouched /\ (s = "forward" => DmCnf.set_ip_forward)
          THEN restoreProc(p.saved[s], DmWanted(s), @[s]) ELSE @[s]],
            !.nic =
     [s \in DOMAIN @ |-> IF s[1] \in p.ifs THEN restoreProc(p.nic[s], 0, @[s]) ELSE @[s]]]

(***************************************************************************)
(* plugin_loader.c.  A library is [opens, version, init, table, size,      *)
(* params], a parameter [known, ok].                                       *)
(***************************************************************************)

\* Without support for old interfaces a plugin has version 5 and a parameter table.
olsr_add_dl(lib) == lib.version >= 5 /\ lib.init /\ lib.table

\* plugin_init runs whatever came of the parameters, and its result is not looked at.
init_olsr_plugin(lib) ==
  /\ lib.size # 0 \/ lib.params = <<>>
  /\ \A i \in 1..Len(lib.params) : lib.params[i].known => lib.params[i].ok

\* Whether a library gets into the list of plugins.
olsr_load_dl(lib) == lib.opens /\ olsr_add_dl(lib)

\* Every plugin is tried before a failure ends the process; loaded are the places in
\* the configuration of those in the list.
olsr_load_plugins(libs) ==
  LET loaded == {i \in 1..Len(libs) : olsr_load_dl(libs[i])}
  IN [loaded |-> loaded,
      failed |-> \E i \in 1..Len(libs) : i \notin loaded \/ ~init_olsr_plugin(libs[i])]

(***************************************************************************)
(* The rules, and lo:olsr.                                                 *)
(***************************************************************************)

\* One rule per table with a priority, and one per interface.
DmRules(p) == (DmRuleTables \X {"all"}) \cup ({"defaultolsr"} \X p.ifs)

DmPrepare(p, k) ==
  [k EXCEPT !.rules = @ \cup DmRules(p), !.lo = @ \/ DmCnf.src_ip_routes]

\* The first half of olsr_shutdown: messages and routes, then what belongs to the
\* interfaces.
DmShutdownLinks(p, k) ==
  [k EXCEPT !.lo = @ /\ ~DmCnf.src_ip_routes, !.rules = @ \ ({"defaultolsr"} \X p.ifs)]

DmShutdownRules(k) == [k EXCEPT !.rules = @ \ (DmRuleTables \X {"all"})]

(***************************************************************************)
(* The processes.                                                          *)
(***************************************************************************)

DmNewProc(pc) ==
  [pc |-> pc, saved |-> [s \in DmGlobal |-> -1], nic |-> [s \in DmIfSettings |-> -1],
   ifs |-> {}, tries |-> 0, plugins |-> {}, parent |-> 0,
   over |-> FALSE, locked |-> FALSE, nopid |-> FALSE, closed |-> FALSE]

DmInitFor(c) ==
  /\ dm_cfg = c
  /\ dm_proc = [p \in DmProcs |-> DmNewProc("none")]
  /\ dm_kernel = [settings |-> DmCnf.settings, nic |-> [s \in DmIfSettings |-> 1],
                  rules |-> {}, lo |-> FALSE]
  /\ dm_lock = 0
  /\ dm_gone = {}
  /\ dm_unclean = FALSE

DmInit == \E c \in 1..Len(DM_CONFIGS) : DmInitFor(c)

DmAt(p, pc) == dm_proc[p].pc = pc

DmGo(p, proc, pc) == dm_proc' = [dm_proc EXCEPT ![p] = [proc EXCEPT !.pc = pc]]

\* The end of a process frees its lock.
DmUnlock(p) == dm_lock' = IF dm_lock = p THEN 0 ELSE dm_lock

DmDie(p, proc) ==
  /\ DmGo(p, proc, "ended")
  /\ DmUnlock(p)
  /\ dm_unclean' = TRUE

\* Processes are started in order of their number; the first by the administrator, a
\* further one while another runs only where the configuration says so.  A bad
\* configuration or a socket that cannot be opened ends one before it changed anything.
DmStart(p) ==
  /\ DmAt(p, "none")
  /\ \A q \in DmProcs : q < p => ~DmAt(q, "none")
  /\ DmCnf.second \/ \A q \in DmProcs : q < p => DmAt(q, "ended")
  /\ DmGo(p, dm_proc[p], "options") \/ DmGo(p, dm_proc[p], "ended")
  /\ UNCHANGED <<dm_cfg, dm_kernel, dm_lock, dm_gone, dm_unclean>>

\* The child of olsr_reconfigure: three seconds later it runs the program again.  Where
\* the configuration says so the parent needs less than that to shut down.
DmExec(p) ==
  /\ DmAt(p, "sleeping")
  /\ DmCnf.fast => DmAt(dm_proc[p].parent, "ended")
  /\ DmGo(p, DmNewProc("none"), "options")
  /\ UNCHANGED <<dm_cfg, dm_kernel, dm_lock, dm_gone, dm_unclean>>

\* Whether another process has its settings in force.
DmOverlaps(p) ==
  \E q \in DmProcs \ {p} : dm_proc[q].pc \notin {"none", "sleeping", "ended", "options"}

DmOptions(p) ==
  LET r == net_os_set_global_ifoptions([dm_proc[p] EXCEPT !.over = DmOverlaps(p)], dm_kernel)
  IN /\ DmAt(p, "options")
     /\ IF ~DmCnf.set_ip_forward /\ dm_kernel.settings["forward"] # 1
          THEN DmGo(p, dm_proc[p], "ended") /\ UNCHANGED <<dm_kernel, dm_unclean>>
          ELSE DmGo(p, r.proc, "interfaces") /\ dm_kernel' = r.kernel /\ UNCHANGED dm_unclean
     /\ UNCHANGED <<dm_cfg, dm_lock, dm_gone>>

\* olsr_init_interfacedb: any of the interfaces may be there.
DmInterfaces(p) ==
  /\ DmAt(p, "interfaces")
  /\ \E up \in SUBSET DmCnf.interfaces :
       LET r == net_os_set_ifoptions(dm_proc[p], dm_kernel, up)
       IN IF up = {} /\ ~DmCnf.allow_no_interfaces
            THEN DmDie(p, dm_proc[p]) /\ UNCHANGED dm_kernel
            ELSE /\ DmGo(p, r.proc, "pid")
                 /\ dm_kernel' = r.kernel
                 /\ UNCHANGED <<dm_lock, dm_unclean>>
  /\ UNCHANGED <<dm_cfg, dm_gone>>

\* A PID file that cannot be written ends in an orderly shutdown, before the lock is
\* asked for: whatever another process uses is taken away.
writePidFile(p) ==
  /\ DmAt(p, "pid")
  /\ \/ DmGo(p, dm_proc[p], "lock")
     \/ DmCnf.pidfails /\ DmGo(p, [dm_proc[p] EXCEPT !.nopid = TRUE], "links")
  /\ UNCHANGED <<dm_cfg, dm_kernel, dm_lock, dm_gone, dm_unclean>>

olsr_create_lock_file_Continue(p) ==
  /\ DmAt(p, "lock")
  /\ dm_lock' = IF dm_lock = 0 THEN p ELSE dm_lock
  /\ DmGo(p, [dm_proc[p] EXCEPT !.tries = @ + 1],
          IF dm_lock = 0 \/ dm_proc[p].tries + 1 = DM_TRIES THEN "plugins" ELSE "lock")
  /\ UNCHANGED <<dm_cfg, dm_kernel, dm_gone, dm_unclean>>

\* Six tries, a second apart; the last one ends the process when it fails.
olsr_create_lock_file(p) ==
  /\ DmAt(p, "lock")
  /\ \/ /\ dm_lock = 0
        /\ dm_lock' = p
        /\ DmGo(p, [dm_proc[p] EXCEPT !.locked = TRUE], "plugins")
        /\ UNCHANGED dm_unclean
     \/ /\ dm_lock # 0 /\ dm_proc[p].tries + 1 < DM_TRIES
        /\ DmGo(p, [dm_proc[p] EXCEPT !.tries = @ + 1], "lock")
        /\ UNCHANGED <<dm_lock, dm_unclean>>
     \/ /\ dm_lock # 0 /\ dm_proc[p].tries + 1 = DM_TRIES
        /\ DmDie(p, dm_proc[p])
  /\ UNCHANGED <<dm_cfg, dm_kernel, dm_gone>>

DmPlugins(p) ==
  LET r == olsr_load_plugins(DmCnf.plugins)
      proc == [dm_proc[p] EXCEPT !.plugins = r.loaded]
  IN /\ DmAt(p, "plugins")
     /\ IF r.failed THEN DmDie(p, proc)
        ELSE DmGo(p, proc, "rules") /\ UNCHANGED <<dm_lock, dm_unclean>>
     /\ UNCHANGED <<dm_cfg, dm_kernel, dm_gone>>

\* The rules, then the signal handlers, then the scheduler.
DmRun(p) ==
  /\ DmAt(p, "rules")
  /\ dm_kernel' = DmPrepare(dm_proc[p], dm_kernel)
  /\ DmGo(p, dm_proc[p], "running")
  /\ UNCHANGED <<dm_cfg, dm_lock, dm_gone, dm_unclean>>

\* An interface goes down: what was saved of it goes with it.
DmLoseInterface(p) ==
  /\ DmAt(p, "running") /\ DmCnf.unplug
  /\ \E i \in dm_proc[p].ifs :
       /\ DmGo(p, [dm_proc[p] EXCEPT !.ifs = @ \ {i}],
               IF dm_proc[p].ifs = {i} /\ ~DmCnf.allow_no_interfaces THEN "links" ELSE "running")
       /\ dm_gone' = dm_gone \cup {i}
  /\ UNCHANGED <<dm_cfg, dm_kernel, dm_lock, dm_unclean>>

\* An interface comes up: its settings are made, no rule is added for it.
DmFindInterface(p) ==
  /\ DmAt(p, "running") /\ DmCnf.unplug
  /\ \E i \in DmCnf.interfaces \ dm_proc[p].ifs :
       LET r == net_os_set_ifoptions(dm_proc[p], dm_kernel, {i})
       IN DmGo(p, r.proc, "running") /\ dm_kernel' = r.kernel
  /\ UNCHANGED <<dm_cfg, dm_lock, dm_gone, dm_unclean>>

\* Once main has installed its handlers.
DmHandles(p) == DmAt(p, "running") \/ (dm_proc[p].pc \in {"restore", "last"} /\ dm_proc[p].locked)

\* A signal starts olsr_shutdown, or starts it again from the beginning.
DmTerminate(p) ==
  /\ DmHandles(p)
  /\ DmGo(p, dm_proc[p], "links")
  /\ UNCHANGED <<dm_cfg, dm_kernel, dm_lock, dm_gone, dm_unclean>>

olsr_reconfigure(p) ==
  /\ DmHandles(p) /\ DmCnf.hup
  /\ \E c \in DmProcs :
       /\ DmAt(c, "none") /\ \A q \in DmProcs : q < c => ~DmAt(q, "none")
       /\ dm_proc' = [dm_proc EXCEPT ![p].pc = "links",
                                     ![c] = [DmNewProc("sleeping") EXCEPT !.parent = p]]
  /\ UNCHANGED <<dm_cfg, dm_kernel, dm_lock, dm_gone, dm_unclean>>

DmKill(p) ==
  /\ DmCnf.kill /\ dm_proc[p].pc \notin {"none", "sleeping", "ended"}
  /\ DmDie(p, dm_proc[p])
  /\ UNCHANGED <<dm_cfg, dm_kernel, dm_gone>>

DmShutdownStep(p, from, kernel, to) ==
  /\ DmAt(p, from)
  /\ dm_kernel' = kernel
  /\ DmGo(p, [dm_proc[p] EXCEPT !.closed = TRUE], to)
  /\ UNCHANGED <<dm_cfg, dm_gone, dm_unclean>>

\* The handles of closed plugins are NULL; closing them again may end the process.
olsr_close_plugins(p) ==
  /\ DmAt(p, "links") /\ dm_proc[p].closed /\ dm_proc[p].plugins # {}
  /\ dm_kernel' = DmShutdownLinks(dm_proc[p], dm_kernel)
  /\ DmDie(p, dm_proc[p])
  /\ UNCHANGED <<dm_cfg, dm_gone>>

olsr_shutdown(p) ==
  \/ DmShutdownStep(p, "links", DmShutdownLinks(dm_proc[p], dm_kernel), "restore")
       /\ UNCHANGED dm_lock
  \/ olsr_close_plugins(p)
  \/ DmShutdownStep(p, "restore", net_os_restore_ifoptions(dm_proc[p], dm_kernel), "last")
       /\ UNCHANGED dm_lock
  \/ DmShutdownStep(p, "last", DmShutdownRules(dm_kernel), "ended") /\ DmUnlock(p)

DmEnd == (\A p \in DmProcs : DmAt(p, "ended")) /\ UNCHANGED dm_vars

DmNext ==
  \/ \E p \in DmProcs :
       \/ DmStart(p) \/ DmExec(p) \/ DmOptions(p) \/ DmInterfaces(p) \/ writePidFile(p)
       \/ olsr_create_lock_file(p) \/ DmPlugins(p) \/ DmRun(p)
       \/ DmLoseInterface(p) \/ DmFindInterface(p)
       \/ DmTerminate(p) \/ olsr_reconfigure(p) \/ DmKill(p) \/ olsr_shutdown(p)
  \/ DmEnd

DmSpec == DmInit /\ [][DmNext]_dm_vars

(***************************************************************************)
(* Properties.                                                             *)
(***************************************************************************)

DmServing == {"plugins", "rules", "running"}
\* Processes that started while another had made its settings came no further than to
\* wait for the lock.
DmInTurn == \A p \in DmProcs : dm_proc[p].over => ~dm_proc[p].locked /\ ~dm_proc[p].nopid
DmIdle == \A p \in DmProcs : dm_proc[p].pc \in {"none", "sleeping", "ended"}

\* olsr_create_lock_file: whatever is started, restarted or killed, no two processes
\* are past the lock, and a parent that still shuts down keeps its child waiting.
DmOneDaemon ==
  /\ \A p, q \in DmProcs : {dm_proc[p].pc, dm_proc[q].pc} \subseteq DmServing => p = q
  /\ \A p \in DmProcs : dm_proc[p].pc \in DmServing => dm_lock = p

\* net_os_restore_ifoptions: when every process has ended in order, however they were
\* restarted one after the other, every setting has the value it had before the first,
\* but for those of interfaces that went down meanwhile.  A process that started over
\* another's settings and got the lock, or failed on its PID file, is left out: it
\* saved what the other one had set.
DmRestored ==
  (DmIdle /\ ~dm_unclean /\ DmInTurn) =>
    /\ dm_kernel.settings = DmCnf.settings
    /\ \A s \in DmIfSettings : s[1] \notin dm_gone => dm_kernel.nic[s] = 1

\* net_os_set_global_ifoptions: a daemon that made its settings after its predecessor
\* ended keeps them and its rules while it runs, also when others start, wait for the
\* lock and die.  One that fails on its PID file meanwhile does take them away.
DmKeeps ==
  DmInTurn => \A p \in DmProcs : DmAt(p, "running") =>
    /\ \A s \in DmTouched : dm_kernel.settings[s] = DmWanted(s)
    /\ \A s \in DmIfSettings : s[1] \in dm_proc[p].ifs => dm_kernel.nic[s] = 0
    /\ DmRuleTables \X {"all"} \subseteq dm_kernel.rules

\* olsr_shutdown: after an orderly end of all processes, in whatever way they overlapped,
\* nothing is left in the kernel but the rules of interfaces that went down; also after
\* a shutdown that another signal started again, unless that ended the process.
DmNothingLeft ==
  (DmIdle /\ ~dm_unclean) =>
    /\ dm_kernel.rules \subseteq {"defaultolsr"} \X dm_gone
    /\ ~dm_kernel.lo

\* olsr_load_plugins: a daemon that runs has every plugin it was told to load, with
\* every parameter the plugin knows accepted.
DmAllPlugins ==
  \A p \in DmProcs : DmAt(p, "running") =>
    /\ dm_proc[p].plugins = 1..Len(DmCnf.plugins)
    /\ \A i \in 1..Len(DmCnf.plugins) :
         \A j \in 1..Len(DmCnf.plugins[i].params) :
           DmCnf.plugins[i].params[j].known => DmCnf.plugins[i].params[j].ok

\* What a daemon set up stays while it runs and is taken back when it ends in order,
\* through restarts, second instances that do not get the lock, signals and interfaces
\* that come and go.
DmClean == DmOneDaemon /\ DmRestored /\ DmKeeps /\ DmNothingLeft /\ DmAllPlugins
=============================================================================
