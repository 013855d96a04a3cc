------------------------------ MODULE MainLoop ------------------------------
(***************************************************************************)
(* One pass of olsr_scheduler after the other: read the sockets, run the    *)
(* timers, process the changes, increase the ANSN, wait on the sockets.     *)
(* Every handler that changes a database sets the changes_* flags;          *)
(* olsr_process_changes turns them into an MPR selection, an SPF run, which *)
(* a timer limits to one per second, and calls of the registered plugins.   *)
(*                                                                          *)
(* A database is abstracted to a version number, what is calculated from it *)
(* to the version it was calculated from.                                   *)
(*                                                                          *)
(* Definitions named after the next one with a suffix are mutated forms.    *)
(***************************************************************************)
EXTENDS Integers, TLAPS

CONSTANT MaxVersion      \* bound on the changes of a database

ASSUME MaxVersionAssumption == MaxVersion \in Nat

Databases == {"neighborhood", "topology", "hna"}

VARIABLES
  pc,               \* where olsr_scheduler is in its loop
  version,          \* database -> its version
  changes,          \* the databases whose changes_* flag is set
  advertised,       \* version of the set that TC messages advertise
  link_changes,
  spf_backoff_timer,
  mprs,             \* version of the neighbourhood the MPRs were chosen from
  routes,           \* versions of the databases the routes were calculated from
  plugins,          \* versions of the databases the plugins were told of
  ansn              \* version of the advertised set that got an ANSN

loop_vars == <<pc, version, changes, advertised, link_changes, spf_backoff_timer,
          mprs, routes, plugins, ansn>>

LoopInit ==
  /\ pc = "poll_sockets"
  /\ version = [d \in Databases |-> 0] /\ changes = {}
  /\ advertised = 0 /\ link_changes = FALSE
  /\ spf_backoff_timer = FALSE
  /\ mprs = 0 /\ ansn = 0
  /\ routes = [d \in Databases |-> 0] /\ plugins = [d \in Databases |-> 0]
----------------------------------------------------------------------------
InSockets == pc \in {"poll_sockets", "handle_fds"}
InHandler == InSockets \/ pc = "walk_timers"

\* A handler changes the databases ds and sets their flags.
Touch(ds) ==
  /\ \A d \in ds : version[d] < MaxVersion
  /\ version' = [d \in Databases |-> IF d \in ds THEN version[d] + 1 ELSE version[d]]

\* olsr_input_tc, olsr_expire_tc_entry, olsr_expire_tc_edge_gc.
TopologyHandler ==
  /\ InHandler
  /\ Touch({"topology"})
  /\ changes' = changes \cup {"topology"}
  /\ UNCHANGED <<pc, advertised, link_changes, spf_backoff_timer, mprs, routes, plugins, ansn>>

\* olsr_update_hna_entry, olsr_insert_routing_table, olsr_delete_routing_table.
HnaHandler ==
  /\ InHandler
  /\ Touch({"hna"})
  /\ changes' = changes \cup {"hna"}
  /\ UNCHANGED <<pc, advertised, link_changes, spf_backoff_timer, mprs, routes, plugins, ansn>>

\* olsr_delete_link_entry, olsr_expire_link_sym_timer, the hysteresis and the
\* MID tables: only the neighbourhood is flagged.
LinkHandler ==
  /\ InHandler
  /\ Touch({"neighborhood"})
  /\ changes' = changes \cup {"neighborhood"}
  /\ UNCHANGED <<pc, advertised, link_changes, spf_backoff_timer, mprs, routes, plugins, ansn>>

\* update_neighbor_status: a neighbour becomes or stops being symmetric.
NeighborHandler ==
  /\ InHandler /\ advertised < MaxVersion
  /\ Touch({"neighborhood", "topology"})
  /\ changes' = changes \cup {"neighborhood", "topology"}
  /\ advertised' = advertised + 1
  /\ link_changes' = TRUE
  /\ UNCHANGED <<pc, spf_backoff_timer, mprs, routes, plugins, ansn>>

\* olsr_update_mprs_set, olsr_expire_mpr_sel_entry.
SelectorHandler ==
  /\ InHandler /\ advertised < MaxVersion
  /\ advertised' = advertised + 1
  /\ link_changes' = TRUE
  /\ UNCHANGED <<pc, version, changes, spf_backoff_timer, mprs, routes, plugins, ansn>>
----------------------------------------------------------------------------
\* Without force the SPF run is left out while the backoff timer runs.
olsr_calculate_routing_table(now, flags) ==
  /\ spf_backoff_timer' = (spf_backoff_timer \/ flags # {})
  /\ routes' = IF spf_backoff_timer \/ flags = {} THEN routes ELSE now

olsr_process_changesNoMpr(now, flags) ==
  /\ mprs' = IF "topology" \in flags THEN now["neighborhood"] ELSE mprs
  /\ olsr_calculate_routing_table(now, flags)
  /\ plugins' = IF flags = {} THEN plugins ELSE now
  /\ changes' = {}

olsr_process_changesNoHna(now, flags) ==
  /\ mprs' = IF "neighborhood" \in flags THEN now["neighborhood"] ELSE mprs
  /\ olsr_calculate_routing_table(now, flags \ {"hna"})
  /\ plugins' = IF flags = {} THEN plugins ELSE now
  /\ changes' = {}

\* The databases are at the versions now and the flags are set.  A plugin
\* reads whatever it wants, so a call tells it of all databases.
olsr_process_changes(now, flags) ==
  /\ mprs' = IF "neighborhood" \in flags THEN now["neighborhood"] ELSE mprs
  /\ olsr_calculate_routing_table(now, flags)
  /\ plugins' = IF flags = {} THEN plugins ELSE now
  /\ changes' = {}

\* A HELLO changes the neighbourhood, and the changes are processed before
\* olsr_hello_tap returns.  An MPR selection that changes the MPRs may also
\* change what is advertised (mpr.c, with tc_redundancy).
olsr_hello_tap ==
  /\ InSockets
  /\ Touch({"neighborhood", "topology"})
  /\ olsr_process_changes(version', changes \cup {"neighborhood", "topology"})
  /\ \/ UNCHANGED <<advertised, link_changes>>
     \/ /\ advertised < MaxVersion
        /\ advertised' = advertised + 1 /\ link_changes' = TRUE
  /\ UNCHANGED <<pc, ansn>>

olsr_expire_spf_backoff ==
  /\ pc = "walk_timers" /\ spf_backoff_timer
  /\ spf_backoff_timer' = FALSE
  /\ UNCHANGED <<pc, version, changes, advertised, link_changes, mprs, routes, plugins, ansn>>

SocketsDone ==
  /\ InSockets
  /\ pc' = IF pc = "poll_sockets" THEN "walk_timers" ELSE "poll_sockets"
  /\ UNCHANGED <<version, changes, advertised, link_changes, spf_backoff_timer,
                 mprs, routes, plugins, ansn>>

TimersDone ==
  /\ pc = "walk_timers"
  /\ pc' = "olsr_process_changes"
  /\ UNCHANGED <<version, changes, advertised, link_changes, spf_backoff_timer,
                 mprs, routes, plugins, ansn>>

ProcessChanges ==
  /\ pc = "olsr_process_changes"
  /\ pc' = "link_changes"
  /\ olsr_process_changes(version, changes)
  /\ \/ UNCHANGED <<advertised, link_changes>>
     \/ /\ "neighborhood" \in changes /\ advertised < MaxVersion
        /\ advertised' = advertised + 1 /\ link_changes' = TRUE
  /\ UNCHANGED <<version, ansn>>

\* increase_local_ansn, if anything that is advertised has changed.
IncreaseAnsn ==
  /\ pc = "link_changes"
  /\ pc' = "handle_fds"
  /\ link_changes' = FALSE
  /\ ansn' = IF link_changes THEN advertised ELSE ansn
  /\ UNCHANGED <<version, changes, advertised, spf_backoff_timer, mprs, routes, plugins>>
----------------------------------------------------------------------------
LoopNext ==
  \/ TopologyHandler \/ HnaHandler \/ LinkHandler \/ NeighborHandler \/ SelectorHandler
  \/ olsr_hello_tap \/ olsr_expire_spf_backoff
  \/ SocketsDone \/ TimersDone \/ ProcessChanges \/ IncreaseAnsn

\* poll_sockets and walk_timers end, the loop goes on, and the backoff timer,
\* which is due a second after the SPF run, fires in some walk_timers.
LoopFairness ==
  /\ WF_loop_vars(SocketsDone) /\ WF_loop_vars(TimersDone)
  /\ WF_loop_vars(ProcessChanges) /\ WF_loop_vars(IncreaseAnsn)
  /\ SF_loop_vars(olsr_expire_spf_backoff)

LoopSpec == LoopInit /\ [][LoopNext]_loop_vars /\ LoopFairness
----------------------------------------------------------------------------
Versions == 0 .. MaxVersion

\* Every variable stays in its domain; nothing is calculated from a version
\* that does not exist yet.
LoopTypeOK ==
  /\ pc \in {"poll_sockets", "walk_timers", "olsr_process_changes", "link_changes", "handle_fds"}
  /\ version \in [Databases -> Versions] /\ changes \subseteq Databases
  /\ advertised \in Versions /\ link_changes \in BOOLEAN
  /\ spf_backoff_timer \in BOOLEAN
  /\ mprs \in 0 .. version["neighborhood"] /\ ansn \in 0 .. advertised
  /\ routes \in [Databases -> Versions] /\ plugins \in [Databases -> Versions]
  /\ \A d \in Databases : routes[d] <= version[d] /\ plugins[d] <= version[d]

\* No change is forgotten: while the MPRs are older than the neighbourhood the flag
\* that triggers olsr_calculate_mpr is set, while the plugins have not been told of a
\* version some flag is set, and link_changes stays set until increase_local_ansn has
\* been called for what is advertised, although olsr_hello_tap and the loop both
\* process and clear the flags.
ChangesPending ==
  /\ LoopTypeOK
  /\ mprs # version["neighborhood"] => "neighborhood" \in changes
  /\ \A d \in Databases : plugins[d] # version[d] => d \in changes
  /\ ansn # advertised => link_changes

\* A change that is pending while no backoff timer runs reaches the routes, and all
\* that changed before it: for a moment they are those of the newest databases.
RoutesCatchUpAfterBackoff ==
  (changes # {} /\ ~spf_backoff_timer) ~> (routes = version)

\* Every change reaches the routes: olsr_process_changes "Re-calculates the
\* neighborhood/topology if there are any updates".
RoutesCatchUp ==
  \A d \in Databases, n \in Versions :
    (version[d] = n) ~> (routes[d] >= n)
----------------------------------------------------------------------------
USE MaxVersionAssumption

\* Nothing has happened at first.
LEMMA LoopInitPending == LoopInit => ChangesPending
<1> SUFFICES ASSUME LoopInit PROVE ChangesPending OBVIOUS
<1>1. link_changes \in BOOLEAN /\ spf_backoff_timer \in BOOLEAN BY Zenon DEF LoopInit
<1>2. /\ pc = "poll_sockets" /\ changes = {} /\ advertised = 0 /\ mprs = 0 /\ ansn = 0
      /\ version = [d \in Databases |-> 0] /\ routes = [d \in Databases |-> 0]
      /\ plugins = [d \in Databases |-> 0]
  BY Zenon DEF LoopInit
<1> QED BY <1>1, <1>2 DEF ChangesPending, LoopTypeOK, Databases, Versions

\* What olsr_process_changes leaves behind: it clears every flag, and what the flags
\* stood for has been done.  now is at least as new as anything calculated before, and
\* whatever is older is flagged.
LEMMA ProcessedAll ==
  ASSUME NEW now \in [Databases -> Versions], NEW flags \in SUBSET Databases,
         mprs \in Versions, routes \in [Databases -> Versions], plugins \in [Databases -> Versions],
         spf_backoff_timer \in BOOLEAN,
         \A d \in Databases : routes[d] <= now[d] /\ (plugins[d] # now[d] => d \in flags),
         mprs # now["neighborhood"] => "neighborhood" \in flags,
         olsr_process_changes(now, flags)
  PROVE  /\ mprs' = now["neighborhood"] /\ plugins' = now /\ changes' = {}
         /\ routes' \in [Databases -> Versions] /\ spf_backoff_timer' \in BOOLEAN
         /\ \A d \in Databases : routes'[d] <= now[d]
<1>1. \A d \in Databases : now[d] \in Nat BY DEF Versions
<1>2. plugins' = now
  <2>1. CASE flags = {}
    <3>1. \A d \in Databases : plugins[d] = now[d] BY <2>1
    <3> QED BY <2>1, <3>1 DEF olsr_process_changes
  <2> QED BY <2>1 DEF olsr_process_changes
<1>3. mprs' = now["neighborhood"] BY DEF olsr_process_changes
<1> QED BY <1>1, <1>2, <1>3 DEF olsr_process_changes, olsr_calculate_routing_table

\* What is advertised changes under the flag, or not at all.
MaybeAdvertised ==
  /\ \/ UNCHANGED <<advertised, link_changes>>
     \/ /\ advertised < MaxVersion /\ advertised' = advertised + 1
        /\ link_changes' = TRUE
  /\ ansn' = ansn

LEMMA AdvertisedPending ==
  ASSUME ChangesPending, MaybeAdvertised
  PROVE  /\ advertised' \in Versions /\ ansn' \in 0 .. advertised' /\ link_changes' \in BOOLEAN
         /\ ansn' # advertised' => link_changes'
<1>1. CASE UNCHANGED <<advertised, link_changes>>
  BY <1>1 DEF ChangesPending, LoopTypeOK, MaybeAdvertised
<1>2. CASE advertised < MaxVersion /\ advertised' = advertised + 1 /\ link_changes' = TRUE
  <2>1. link_changes' \in BOOLEAN /\ link_changes' BY <1>2, Zenon
  <2> QED BY <1>2, <2>1 DEF ChangesPending, LoopTypeOK, MaybeAdvertised, Versions
<1> QED BY <1>1, <1>2, Zenon DEF MaybeAdvertised

\* Every handler, timer and pass of the loop keeps the changes pending or done.
LEMMA LoopNextPending == ChangesPending /\ [LoopNext]_loop_vars => ChangesPending'
<1> SUFFICES ASSUME ChangesPending, [LoopNext]_loop_vars
             PROVE  ChangesPending'
  OBVIOUS
<1> USE DEF ChangesPending, LoopTypeOK, Versions, Databases
<1>1. CASE TopologyHandler
  BY <1>1 DEF TopologyHandler, Touch
<1>2. CASE HnaHandler
  BY <1>2 DEF HnaHandler, Touch
<1>3. CASE LinkHandler
  BY <1>3 DEF LinkHandler, Touch
<1>4. CASE NeighborHandler
  BY <1>4 DEF NeighborHandler, Touch
<1>5. CASE SelectorHandler
  BY <1>5 DEF SelectorHandler
<1>6. CASE olsr_hello_tap
  <2> DEFINE flags == changes \cup {"neighborhood", "topology"}
  <2>1. version' \in [Databases -> Versions] /\ flags \in SUBSET Databases
    BY <1>6 DEF olsr_hello_tap, Touch
  <2>2. /\ \A d \in Databases : routes[d] <= version'[d] /\ (plugins[d] # version'[d] => d \in flags)
        /\ mprs # version'["neighborhood"] => "neighborhood" \in flags
    BY <1>6 DEF olsr_hello_tap, Touch
  <2>3. olsr_process_changes(version', flags) BY <1>6 DEF olsr_hello_tap
  <2>4. /\ mprs' = version'["neighborhood"] /\ plugins' = version' /\ changes' = {}
        /\ routes' \in [Databases -> Versions] /\ spf_backoff_timer' \in BOOLEAN
        /\ \A d \in Databases : routes'[d] <= version'[d]
    BY <2>1, <2>2, <2>3, ProcessedAll
  <2>5. pc' = pc BY <1>6 DEF olsr_hello_tap
  <2>6. MaybeAdvertised BY <1>6 DEF olsr_hello_tap, MaybeAdvertised
  <2>7. /\ advertised' \in Versions /\ ansn' \in 0 .. advertised' /\ link_changes' \in BOOLEAN
        /\ ansn' # advertised' => link_changes'
    BY <2>6, AdvertisedPending
  <2> QED BY <2>1, <2>4, <2>5, <2>7
<1>7. CASE olsr_expire_spf_backoff
  BY Zenon, <1>7 DEF olsr_expire_spf_backoff
<1>8. CASE SocketsDone
  BY <1>8 DEF SocketsDone
<1>9. CASE TimersDone
  BY <1>9 DEF TimersDone
<1>10. CASE ProcessChanges
  <2>1. /\ mprs' = version["neighborhood"] /\ plugins' = version /\ changes' = {}
        /\ routes' \in [Databases -> Versions] /\ spf_backoff_timer' \in BOOLEAN
        /\ \A d \in Databases : routes'[d] <= version[d]
    BY <1>10, ProcessedAll DEF ProcessChanges
  <2>2. pc' = "link_changes" /\ version' = version BY <1>10 DEF ProcessChanges
  <2>3. MaybeAdvertised BY <1>10 DEF ProcessChanges, MaybeAdvertised
  <2>4. /\ advertised' \in Versions /\ ansn' \in 0 .. advertised' /\ link_changes' \in BOOLEAN
        /\ ansn' # advertised' => link_changes'
    BY <2>3, AdvertisedPending
  <2> QED BY <2>1, <2>2, <2>4
<1>11. CASE IncreaseAnsn
  <2>1. /\ pc' = "handle_fds" /\ link_changes' \in BOOLEAN
        /\ UNCHANGED <<version, changes, advertised, spf_backoff_timer, mprs, routes, plugins>>
    BY <1>11, Zenon DEF IncreaseAnsn
  <2>2. ansn' = advertised
    BY <1>11, Zenon DEF IncreaseAnsn
  <2> QED BY <2>1, <2>2
<1>12. CASE UNCHANGED loop_vars
  BY <1>12 DEF loop_vars
<1> QED BY <1>1, <1>2, <1>3, <1>4, <1>5, <1>6, <1>7, <1>8, <1>9, <1>10, <1>11, <1>12 DEF LoopNext

\* For any number of changes no flag is lost: olsr_process_changes, which olsr_hello_tap
\* calls in the middle of a pass and the loop at its end, never clears a flag whose
\* change has not reached the MPRs and the plugins, and link_changes outlives every
\* change of what is advertised until increase_local_ansn has run.
THEOREM NoChangeForgotten == LoopSpec => []ChangesPending
BY LoopInitPending, LoopNextPending, PTL DEF LoopSpec
=============================================================================
