---------------------------- MODULE DaemonProofs ----------------------------
(***************************************************************************)
(* DmClean for every number of processes, every set of interfaces and      *)
(* every configuration that DmAssumption admits.                           *)
(*                                                                         *)
(* A process is in force from its options to its end.  Of two in force at  *)
(* the same time the later one is marked over, and as long as no such      *)
(* process gets the lock or fails on its PID file it can only wait for the *)
(* lock or die: what it does to the kernel is what the other one had done  *)
(* already, and only the other one takes it back.                          *)
(***************************************************************************)
EXTENDS Daemon, TLAPS

DmQuiet == {"none", "sleeping", "options", "ended"}
DmSetUp == {"interfaces", "pid", "lock"}
DmShutting == {"links", "restore", "last"}
DmPcs == DmQuiet \cup DmSetUp \cup DmServing \cup DmShutting

DmActive(p) == dm_proc[p].pc \notin DmQuiet

DmProcType ==
  [pc : DmPcs, saved : [DmGlobal -> Int], nic : [DmIfSettings -> Int],
   ifs : SUBSET DmCnf.interfaces, tries : Int, plugins : SUBSET Int, parent : Int,
   over : BOOLEAN, locked : BOOLEAN, nopid : BOOLEAN, closed : BOOLEAN]

DmKernelType ==
  [settings : [DmGlobal -> Int], nic : [DmIfSettings -> Int],
   rules : SUBSET ((DmRuleTables \X {"all"}) \cup ({"defaultolsr"} \X DmCnf.interfaces)),
   lo : BOOLEAN]

DmTypes ==
  /\ dm_cfg \in 1..Len(DM_CONFIGS)
  /\ dm_proc \in [DmProcs -> DmProcType]
  /\ dm_kernel \in DmKernelType
  /\ dm_lock \in Int
  /\ dm_gone \subseteq DmCnf.interfaces
  /\ dm_unclean \in BOOLEAN

\* What a process remembers fits where it is, and the lock is with the one that got it.
DmPlace(p) ==
  /\ dm_proc[p].pc \in {"none", "sleeping", "options"} =>
       ~dm_proc[p].over /\ ~dm_proc[p].locked /\ ~dm_proc[p].nopid /\ dm_proc[p].ifs = {}
  /\ dm_proc[p].pc = "interfaces" => dm_proc[p].ifs = {}
  /\ dm_proc[p].pc \in DmSetUp => ~dm_proc[p].locked /\ ~dm_proc[p].nopid
  /\ dm_proc[p].pc \in DmServing => dm_proc[p].locked
  /\ dm_proc[p].pc \in DmShutting => dm_proc[p].locked \/ dm_proc[p].nopid
  /\ (dm_proc[p].locked /\ dm_proc[p].pc # "ended") => dm_lock = p
  /\ dm_proc[p].pc \in {"rules", "running"} =>
       /\ dm_proc[p].plugins = 1..Len(DmCnf.plugins)
       /\ \A i \in 1..Len(DmCnf.plugins) : init_olsr_plugin(DmCnf.plugins[i])

DmPlaces == \A p \in DmProcs : DmPlace(p)

\* Of two processes in force one is over; without the lock, and with its PID file
\* written, it cannot end in order.
DmWaits(p) ==
  (dm_proc[p].over /\ ~dm_proc[p].locked /\ ~dm_proc[p].nopid) =>
    /\ dm_proc[p].pc \in DmSetUp \cup {"ended"}
    /\ dm_proc[p].pc = "ended" => dm_unclean

DmOver ==
  /\ \A p, q \in DmProcs :
       (p # q /\ DmActive(p) /\ DmActive(q)) => dm_proc[p].over \/ dm_proc[q].over
  /\ \A p \in DmProcs : DmWaits(p)

\* The settings of the process that is not over are in force until it shuts down.
DmInForce ==
  DmInTurn => \A p \in DmProcs :
    (~dm_proc[p].over /\ dm_proc[p].pc \in DmSetUp \cup DmServing) =>
      /\ \A s \in DmTouched : dm_kernel.settings[s] = DmWanted(s)
      /\ \A s \in DmIfSettings : s[1] \in dm_proc[p].ifs => dm_kernel.nic[s] = 0
      /\ dm_proc[p].pc = "running" => DmRuleTables \X {"all"} \subseteq dm_kernel.rules

\* The value before the first process, of which the current one has a copy.
DmOriginal ==
  /\ dm_kernel.settings = DmCnf.settings
  /\ \A s \in DmIfSettings : s[1] \notin dm_gone => dm_kernel.nic[s] = 1

DmSaves(p) ==
  /\ \A s \in DmGlobal :
       IF s \in DmTouched /\ (s = "forward" => DmCnf.set_ip_forward)
       THEN /\ dm_proc[p].saved[s] = DmCnf.settings[s]
            /\ dm_kernel.settings[s] \in {DmCnf.settings[s], DmWanted(s)}
       ELSE dm_kernel.settings[s] = DmCnf.settings[s]
  /\ \A s \in DmIfSettings : s[1] \notin dm_gone =>
       IF s[1] \in dm_proc[p].ifs THEN dm_proc[p].nic[s] = 1 ELSE dm_kernel.nic[s] = 1
  /\ dm_proc[p].pc = "last" => DmOriginal

DmBorrowed ==
  (~dm_unclean /\ \A p \in DmProcs : ~dm_proc[p].over) =>
    /\ (\A p \in DmProcs : ~DmActive(p)) => DmOriginal
    /\ \A p \in DmProcs : DmActive(p) => DmSaves(p)

\* The rules and lo:olsr belong to the process with the lock.
DmHolds(p, pcs) == dm_proc[p].locked /\ dm_proc[p].pc \in pcs

DmOwner(r) ==
  \/ r \in {"defaultolsr"} \X dm_gone
  \/ \E p \in DmProcs : DmHolds(p, {"running", "links"}) /\ r \in {"defaultolsr"} \X dm_proc[p].ifs
  \/ \E p \in DmProcs : DmHolds(p, {"running"} \cup DmShutting) /\ r \in DmRuleTables \X {"all"}

DmOwned ==
  ~dm_unclean =>
    /\ \A r \in dm_kernel.rules : DmOwner(r)
    /\ dm_kernel.lo => /\ DmCnf.src_ip_routes
                       /\ \E p \in DmProcs : DmHolds(p, {"running", "links"})

DmInv == DmTypes /\ DmPlaces /\ DmOver /\ DmInForce /\ DmBorrowed /\ DmOwned
----------------------------------------------------------------------------
(* What a step of one process leaves alone. *)

DmMoved(p, proc, pc) ==
  /\ dm_proc' \in [DmProcs -> DmProcType]
  /\ \A q \in DmProcs : q # p => dm_proc'[q] = dm_proc[q]
  /\ dm_proc'[p].pc = pc
  /\ dm_proc'[p].saved = proc.saved
  /\ dm_proc'[p].nic = proc.nic
  /\ dm_proc'[p].ifs = proc.ifs
  /\ dm_proc'[p].plugins = proc.plugins
  /\ dm_proc'[p].parent = proc.parent
  /\ dm_proc'[p].over = proc.over
  /\ dm_proc'[p].locked = proc.locked
  /\ dm_proc'[p].nopid = proc.nopid

DmSameCnf ==
  /\ DmCnf' = DmCnf /\ DmProcs' = DmProcs /\ DmIfSettings' = DmIfSettings
  /\ DmTouched' = DmTouched /\ DmProcType' = DmProcType /\ DmKernelType' = DmKernelType
  /\ dm_cfg' = dm_cfg

\* The configuration never changes.
LEMMA SameCnf == ASSUME dm_cfg' = dm_cfg PROVE DmSameCnf
<1>1. DmCnf' = DmCnf
  BY DEF DmCnf
<1> QED
  BY <1>1 DEF DmSameCnf, DmProcs, DmIfSettings, DmTouched, DmProcType, DmKernelType

\* The flags of a configuration are flags.
LEMMA CnfTypes ==
  ASSUME dm_cfg \in 1..Len(DM_CONFIGS)
  PROVE  /\ DmCnf.procs \in Nat /\ DmProcs \subseteq Nat \ {0}
         /\ DmCnf.settings \in [DmGlobal -> {0, 1}]
         /\ DmCnf.set_ip_forward \in BOOLEAN
         /\ DmCnf.src_ip_routes \in BOOLEAN
         /\ DmCnf.smart_gw \in BOOLEAN
  BY DmAssumption DEF DmCnf, DmGlobal, DmProcs

\* DmGo moves one process.
LEMMA Go ==
  ASSUME DmTypes, NEW p \in DmProcs, NEW proc \in DmProcType, NEW pc \in DmPcs,
         DmGo(p, proc, pc)
  PROVE  DmMoved(p, proc, pc)
<1>1. [proc EXCEPT !.pc = pc] \in DmProcType
  BY DEF DmProcType
<1> QED
  BY Zenon, <1>1 DEF DmGo, DmMoved, DmTypes, DmProcType

\* A new process has done nothing.
LEMMA NewProc ==
  ASSUME NEW pc \in DmPcs
  PROVE  /\ DmNewProc(pc) \in DmProcType
         /\ DmNewProc(pc).over = FALSE /\ DmNewProc(pc).locked = FALSE /\ DmNewProc(pc).nopid = FALSE
         /\ DmNewProc(pc).ifs = {} /\ DmNewProc(pc).pc = pc
  BY DEF DmNewProc, DmProcType, DmPcs
----------------------------------------------------------------------------
(* Steps that leave a part of the kernel alone. *)

\* Only p moved.
DmOnly(p) ==
  /\ DmSameCnf
  /\ dm_proc' \in [DmProcs -> DmProcType]
  /\ \A q \in DmProcs : q # p => dm_proc'[q] = dm_proc[q]

DmSameSettings == dm_kernel'.settings = dm_kernel.settings /\ dm_kernel'.nic = dm_kernel.nic
DmSameRules == dm_kernel'.rules = dm_kernel.rules /\ dm_kernel'.lo = dm_kernel.lo

\* The settings stay in force when p does not come into force and forgets nothing.
LEMMA InForceKept ==
  ASSUME DmInv, NEW p \in DmProcs, DmOnly(p), DmSameSettings,
         DmRuleTables \X {"all"} \subseteq dm_kernel.rules => DmRuleTables \X {"all"} \subseteq dm_kernel'.rules,
         (dm_proc[p].over /\ (dm_proc[p].locked \/ dm_proc[p].nopid)) =>
           (dm_proc'[p].over /\ (dm_proc'[p].locked \/ dm_proc'[p].nopid)),
         (~dm_proc'[p].over /\ dm_proc'[p].pc \in DmSetUp \cup DmServing) =>
           /\ ~dm_proc[p].over /\ dm_proc[p].pc \in DmSetUp \cup DmServing
           /\ dm_proc'[p].ifs \subseteq dm_proc[p].ifs
           /\ dm_proc'[p].pc = "running" =>
                dm_proc[p].pc = "running" \/ DmRuleTables \X {"all"} \subseteq dm_kernel'.rules
  PROVE  DmInForce'
<1> SUFFICES ASSUME DmInTurn', NEW q \in DmProcs,
                    ~dm_proc'[q].over, dm_proc'[q].pc \in DmSetUp \cup DmServing
             PROVE  /\ \A s \in DmTouched : dm_kernel'.settings[s] = DmWanted(s)
                    /\ \A s \in DmIfSettings : s[1] \in dm_proc'[q].ifs => dm_kernel'.nic[s] = 0
                    /\ dm_proc'[q].pc = "running" => DmRuleTables \X {"all"} \subseteq dm_kernel'.rules
  BY Zenon DEF DmInForce, DmOnly, DmSameCnf
<1>1. DmInTurn
  BY Zenon DEF DmInTurn, DmOnly, DmSameCnf
<1>2. /\ ~dm_proc[q].over /\ dm_proc[q].pc \in DmSetUp \cup DmServing
      /\ dm_proc'[q].ifs \subseteq dm_proc[q].ifs
      /\ dm_proc'[q].pc = "running" =>
           dm_proc[q].pc = "running" \/ DmRuleTables \X {"all"} \subseteq dm_kernel'.rules
  BY Zenon DEF DmOnly
<1> QED
  BY Zenon, <1>1, <1>2 DEF DmInv, DmInForce, DmSameSettings

\* What was borrowed stays remembered when p neither comes into force nor leaves it.
LEMMA BorrowedKept ==
  ASSUME DmInv, NEW p \in DmProcs, DmOnly(p), DmSameSettings, dm_gone' = dm_gone,
         dm_unclean => dm_unclean',
         dm_unclean' \/ /\ dm_proc[p].over => dm_proc'[p].over
                        /\ DmActive(p)' <=> DmActive(p)
                        /\ DmActive(p) => /\ dm_proc'[p].saved = dm_proc[p].saved
                                          /\ dm_proc'[p].nic = dm_proc[p].nic
                                          /\ dm_proc'[p].ifs = dm_proc[p].ifs
                                          /\ dm_proc'[p].pc = "last" => dm_proc[p].pc = "last"
  PROVE  DmBorrowed'
<1> SUFFICES ASSUME ~dm_unclean', \A q \in DmProcs : ~dm_proc'[q].over
             PROVE  /\ (\A q \in DmProcs : ~DmActive(q)') => DmOriginal'
                    /\ \A q \in DmProcs : DmActive(q)' => DmSaves(q)'
  BY Zenon DEF DmBorrowed, DmOnly, DmSameCnf
<1>1. ~dm_unclean /\ \A q \in DmProcs : ~dm_proc[q].over
  BY Zenon DEF DmOnly
<1>2. DmOriginal' <=> DmOriginal
  BY Zenon DEF DmOriginal, DmOnly, DmSameCnf, DmSameSettings
<1>3. \A q \in DmProcs : DmActive(q)' <=> DmActive(q)
  BY Zenon DEF DmActive, DmOnly
<1>4. ASSUME NEW q \in DmProcs, DmActive(q)
      PROVE  DmSaves(q)'
  <2>1. DmSaves(q)
    BY Zenon, <1>1, <1>4 DEF DmInv, DmBorrowed
  <2>2. /\ dm_proc'[q].saved = dm_proc[q].saved /\ dm_proc'[q].nic = dm_proc[q].nic
        /\ dm_proc'[q].ifs = dm_proc[q].ifs
        /\ dm_proc'[q].pc = "last" => dm_proc[q].pc = "last"
    BY Zenon, <1>4 DEF DmOnly
  <2> QED
    BY <1>2, <2>1, <2>2 DEF DmSaves, DmOnly, DmSameCnf, DmSameSettings
<1> QED
  BY Zenon, <1>1, <1>2, <1>3, <1>4 DEF DmInv, DmBorrowed

\* The rules keep their owner when p does.
LEMMA OwnedKept ==
  ASSUME DmInv, NEW p \in DmProcs, DmOnly(p), DmSameRules, dm_gone' = dm_gone,
         dm_unclean => dm_unclean',
         dm_unclean' \/ /\ (dm_proc[p].locked /\ dm_proc[p].pc \in {"running", "links"}) =>
                             /\ dm_proc'[p].locked /\ dm_proc'[p].pc \in {"running", "links"}
                             /\ dm_proc[p].ifs \subseteq dm_proc'[p].ifs
                        /\ (dm_proc[p].locked /\ dm_proc[p].pc \in {"running"} \cup DmShutting) =>
                             dm_proc'[p].locked /\ dm_proc'[p].pc \in {"running"} \cup DmShutting
  PROVE  DmOwned'
<1> SUFFICES ASSUME ~dm_unclean'
             PROVE  /\ \A r \in dm_kernel.rules : DmOwner(r)'
                    /\ dm_kernel.lo => /\ DmCnf.src_ip_routes
                                       /\ \E q \in DmProcs : DmHolds(q, {"running", "links"})'
  BY Zenon DEF DmOwned, DmOnly, DmSameCnf, DmSameRules
<1>1. ~dm_unclean /\ DmOwned
  BY Zenon DEF DmInv
<1>2. ASSUME NEW q \in DmProcs, DmHolds(q, {"running", "links"})
      PROVE  DmHolds(q, {"running", "links"})' /\ dm_proc[q].ifs \subseteq dm_proc'[q].ifs
  BY Zenon, <1>2 DEF DmHolds, DmOnly
<1>3. ASSUME NEW q \in DmProcs, DmHolds(q, {"running"} \cup DmShutting)
      PROVE  DmHolds(q, {"running"} \cup DmShutting)'
  BY Zenon, <1>3 DEF DmHolds, DmOnly
<1>4. ASSUME NEW r, DmOwner(r)
      PROVE  DmOwner(r)'
  BY Zenon, <1>2, <1>3, <1>4 DEF DmOwner, DmOnly, DmSameCnf
<1> QED
  BY Zenon, <1>1, <1>2, <1>4 DEF DmOwned

LEMMA TypesKept ==
  ASSUME DmInv, NEW p \in DmProcs, DmOnly(p), dm_kernel' \in DmKernelType, dm_lock' \in Int,
         dm_gone' \subseteq DmCnf.interfaces, dm_unclean' \in BOOLEAN
  PROVE  DmTypes'
  BY Zenon DEF DmInv, DmTypes, DmOnly, DmSameCnf

\* Others keep their places when p takes nobody's lock.
LEMMA PlacesKept ==
  ASSUME DmInv, NEW p \in DmProcs, DmOnly(p), DmPlace(p)',
         \A q \in DmProcs : (q # p /\ dm_lock = q) => dm_lock' = q
  PROVE  DmPlaces'
<1>1. ASSUME NEW q \in DmProcs, q # p
      PROVE  DmPlace(q)'
  <2>1. DmPlace(q) /\ dm_proc'[q] = dm_proc[q] /\ DmCnf' = DmCnf
    BY Zenon, <1>1 DEF DmInv, DmPlaces, DmOnly, DmSameCnf
  <2> QED
    BY Zenon, <1>1, <2>1 DEF DmPlace, init_olsr_plugin
<1> QED
  BY Zenon, <1>1 DEF DmPlaces, DmOnly, DmSameCnf

\* No second process comes into force when p does not.
LEMMA OverKept ==
  ASSUME DmInv, NEW p \in DmProcs, DmOnly(p), dm_unclean => dm_unclean',
         DmActive(p)' => DmActive(p) /\ dm_proc'[p].over = dm_proc[p].over,
         DmWaits(p)'
  PROVE  DmOver'
<1>1. ASSUME NEW q \in DmProcs, NEW r \in DmProcs, q # r, DmActive(q)', DmActive(r)'
      PROVE  dm_proc'[q].over \/ dm_proc'[r].over
  <2>1. /\ DmActive(q) /\ dm_proc'[q].over = dm_proc[q].over
        /\ DmActive(r) /\ dm_proc'[r].over = dm_proc[r].over
    BY Zenon, <1>1 DEF DmActive, DmOnly
  <2> QED
    BY Zenon, <1>1, <2>1 DEF DmInv, DmOver
<1>2. ASSUME NEW q \in DmProcs
      PROVE  DmWaits(q)'
  BY Zenon DEF DmInv, DmOver, DmWaits, DmOnly
<1> QED
  BY Zenon, <1>1, <1>2 DEF DmOver, DmOnly, DmSameCnf
----------------------------------------------------------------------------
(* The steps. *)

LEMMA Facts ==
  ASSUME DmInv, NEW p \in DmProcs
  PROVE  /\ dm_proc[p] \in DmProcType /\ DmTypes
         /\ dm_proc[p].pc \in DmPcs /\ dm_proc[p].ifs \subseteq DmCnf.interfaces
         /\ dm_proc[p].over \in BOOLEAN /\ dm_proc[p].locked \in BOOLEAN /\ dm_proc[p].nopid \in BOOLEAN
         /\ DmPlace(p) /\ DmWaits(p)
<1>1. dm_proc[p] \in DmProcType /\ DmTypes /\ DmPlace(p) /\ DmWaits(p)
  BY Zenon DEF DmInv, DmTypes, DmPlaces, DmOver
<1> QED
  BY <1>1 DEF DmProcType

LEMMA GoOnly ==
  ASSUME DmTypes, NEW p \in DmProcs, NEW proc \in DmProcType, NEW pc \in DmPcs,
         DmGo(p, proc, pc), dm_cfg' = dm_cfg
  PROVE  DmOnly(p) /\ DmMoved(p, proc, pc)
  BY Zenon, SameCnf, Go DEF DmOnly, DmMoved

\* A process that dies leaves everything as it is, and frees its lock.
LEMMA DieStep ==
  ASSUME DmInv, NEW p \in DmProcs, NEW proc \in DmProcType, DmDie(p, proc),
         dm_proc[p].pc \notin {"none", "sleeping", "ended"},
         proc.over = dm_proc[p].over, proc.locked = dm_proc[p].locked, proc.nopid = dm_proc[p].nopid,
         UNCHANGED <<dm_cfg, dm_kernel, dm_gone>>
  PROVE  DmInv'
<1>1. DmOnly(p) /\ DmMoved(p, proc, "ended")
  BY Zenon, Facts, GoOnly DEF DmDie, DmPcs, DmQuiet
<1>2. /\ dm_unclean' = TRUE /\ dm_kernel' = dm_kernel /\ DmSameSettings /\ DmSameRules /\ dm_gone' = dm_gone
      /\ dm_lock' = IF dm_lock = p THEN 0 ELSE dm_lock
  BY Zenon DEF DmDie, DmUnlock, DmSameSettings, DmSameRules
<1>3. dm_proc'[p].pc = "ended" /\ dm_proc'[p].over = dm_proc[p].over
      /\ dm_proc'[p].locked = dm_proc[p].locked /\ dm_proc'[p].nopid = dm_proc[p].nopid
  BY Zenon, <1>1 DEF DmMoved
<1>4. DmTypes'
  <2>1. dm_lock' \in Int /\ dm_kernel' \in DmKernelType /\ dm_gone' \subseteq DmCnf.interfaces
    BY <1>2 DEF DmInv, DmTypes
  <2> QED BY Zenon, <1>1, <1>2, <2>1, TypesKept
<1>5. DmPlaces'
  <2>1. DmPlace(p)'
    BY Zenon, <1>3 DEF DmPlace, DmSetUp, DmServing, DmShutting
  <2> QED BY Zenon, <1>1, <1>2, <2>1, PlacesKept
<1>7. DmOver'
  <2>1. DmWaits(p)' /\ ~DmActive(p)'
    BY Zenon, <1>2, <1>3 DEF DmWaits, DmActive, DmQuiet
  <2> QED BY Zenon, <1>1, <1>2, <2>1, OverKept
<1>8. DmInForce'
  <2>1. dm_proc'[p].pc \notin DmSetUp \cup DmServing
    BY Zenon, <1>3 DEF DmSetUp, DmServing
  <2> QED BY Zenon, <1>1, <1>2, <1>3, <2>1, InForceKept
<1>9. DmBorrowed' /\ DmOwned'
  BY Zenon, <1>1, <1>2, BorrowedKept, OwnedKept
<1> QED
  BY Zenon, <1>4, <1>5, <1>7, <1>8, <1>9 DEF DmInv

\* A process is started, or ends before it changed anything.
LEMMA StartStep ==
  ASSUME DmInv, NEW p \in DmProcs, DmStart(p)
  PROVE  DmInv'
<1>1. PICK pc \in {"options", "ended"} : DmGo(p, dm_proc[p], pc)
  BY Zenon DEF DmStart
<1>2. DmOnly(p) /\ DmMoved(p, dm_proc[p], pc)
  BY Zenon, <1>1, Facts, GoOnly DEF DmStart, DmPcs, DmQuiet
<1>3. /\ dm_kernel' = dm_kernel /\ DmSameSettings /\ DmSameRules /\ dm_gone' = dm_gone /\ dm_lock' = dm_lock
      /\ dm_unclean' = dm_unclean /\ dm_proc[p].pc = "none"
  BY Zenon DEF DmStart, DmAt, DmSameSettings, DmSameRules
<1>4. /\ dm_proc'[p].pc = pc /\ ~dm_proc'[p].over /\ ~dm_proc'[p].locked /\ ~dm_proc'[p].nopid
      /\ dm_proc'[p].ifs = {} /\ ~dm_proc[p].over /\ ~dm_proc[p].locked
  BY Zenon, <1>2, <1>3, Facts DEF DmMoved, DmPlace
<1>5. DmTypes'
  BY Zenon, <1>2, <1>3, TypesKept DEF DmInv, DmTypes
<1>6. DmPlaces'
  <2>1. DmPlace(p)'
    BY <1>4 DEF DmPlace, DmSetUp, DmServing, DmShutting
  <2> QED BY Zenon, <1>2, <1>3, <2>1, PlacesKept
<1>8. DmOver' /\ DmInForce' /\ DmBorrowed' /\ DmOwned'
  <2>1. DmWaits(p)' /\ ~DmActive(p)' /\ ~DmActive(p)
    BY Zenon, <1>3, <1>4 DEF DmWaits, DmActive, DmQuiet
  <2>2. dm_proc'[p].pc \notin DmSetUp \cup DmServing
    BY Zenon, <1>4 DEF DmSetUp, DmServing
  <2>3. DmOver'
    BY Zenon, <1>2, <1>3, <2>1, OverKept
  <2>4. DmInForce'
    BY Zenon, <1>2, <1>3, <1>4, <2>2, InForceKept
  <2>5. DmBorrowed'
    BY Zenon, <1>2, <1>3, <1>4, <2>1, BorrowedKept
  <2>6. DmOwned'
    BY Zenon, <1>2, <1>3, <1>4, OwnedKept
  <2> QED BY Zenon, <2>3, <2>4, <2>5, <2>6
<1> QED
  BY Zenon, <1>5, <1>6, <1>8 DEF DmInv

\* A process goes on without a change of the kernel: towards the scheduler, or into
\* olsr_shutdown.
LEMMA MoveStep ==
  ASSUME DmInv, NEW p \in DmProcs, NEW proc \in DmProcType, NEW pc \in {"lock", "plugins", "rules", "links"},
         DmGo(p, proc, pc), UNCHANGED <<dm_cfg, dm_kernel, dm_gone, dm_unclean>>,
         proc.over = dm_proc[p].over, dm_proc[p].locked => proc.locked, dm_proc[p].nopid => proc.nopid,
         proc.saved = dm_proc[p].saved, proc.nic = dm_proc[p].nic, proc.ifs = dm_proc[p].ifs,
         DmActive(p), dm_lock' \in Int,
         \A q \in DmProcs : (q # p /\ dm_lock = q) => dm_lock' = q,
         DmPlace(p)', DmWaits(p)',
         dm_proc[p].pc \in {"running"} \cup DmShutting => pc = "links"
  PROVE  DmInv'
<1>1. DmOnly(p) /\ DmMoved(p, proc, pc)
  <2>1. pc \in DmPcs
    BY Zenon DEF DmPcs, DmSetUp, DmServing, DmShutting
  <2> QED BY Zenon, <2>1, Facts, GoOnly
<1>2. /\ dm_kernel' = dm_kernel /\ DmSameSettings /\ DmSameRules /\ dm_gone' = dm_gone
      /\ dm_unclean' = dm_unclean /\ (dm_unclean => dm_unclean')
  BY Zenon DEF DmSameSettings, DmSameRules
<1>3. /\ dm_proc'[p].pc = pc /\ dm_proc'[p].over = dm_proc[p].over
      /\ dm_proc[p].locked => dm_proc'[p].locked
      /\ dm_proc[p].nopid => dm_proc'[p].nopid
      /\ dm_proc'[p].saved = dm_proc[p].saved /\ dm_proc'[p].nic = dm_proc[p].nic
      /\ dm_proc'[p].ifs = dm_proc[p].ifs
  BY Zenon, <1>1 DEF DmMoved
<1>4. /\ dm_proc[p].pc \notin DmQuiet /\ pc \notin DmQuiet /\ pc # "last" /\ pc # "running"
      /\ dm_proc[p].pc \in {"running", "links"} => pc = "links"
      /\ dm_proc[p].pc \in DmPcs
  BY Zenon, Facts DEF DmActive, DmQuiet, DmShutting
<1>5. DmTypes'
  BY Zenon, <1>1, <1>2, TypesKept DEF DmInv, DmTypes
<1>6. DmPlaces'
  BY Zenon, <1>1, PlacesKept
<1>8. DmOver'
  BY Zenon, <1>1, <1>2, <1>3, OverKept
<1>9. DmInForce'
  <2>1. dm_proc'[p].pc \in DmSetUp \cup DmServing => dm_proc[p].pc \in DmSetUp \cup DmServing
    BY <1>3, <1>4 DEF DmPcs, DmSetUp, DmServing, DmShutting
  <2> QED BY Zenon, <1>1, <1>2, <1>3, <1>4, <2>1, InForceKept
<1>10. DmBorrowed'
  <2>1. DmActive(p)' <=> DmActive(p)
    BY Zenon, <1>3, <1>4 DEF DmActive
  <2> QED BY Zenon, <1>1, <1>2, <1>3, <1>4, <2>1, BorrowedKept
<1>11. DmOwned'
  <2>1. dm_proc[p].pc \in {"running", "links"} => dm_proc'[p].pc \in {"running", "links"}
    BY Zenon, <1>3, <1>4
  <2>2. dm_proc[p].pc \in {"running"} \cup DmShutting => dm_proc'[p].pc \in {"running"} \cup DmShutting
    BY Zenon, <1>3 DEF DmShutting
  <2> QED BY Zenon, <1>1, <1>2, <1>3, <2>1, <2>2, OwnedKept
<1> QED
  BY Zenon, <1>5, <1>6, <1>8, <1>9, <1>10, <1>11 DEF DmInv

\* The child of olsr_reconfigure runs the program.
LEMMA ExecStep ==
  ASSUME DmInv, NEW p \in DmProcs, DmExec(p)
  PROVE  DmInv'
<1>1. DmOnly(p) /\ DmMoved(p, DmNewProc("none"), "options")
  <2>1. "none" \in DmPcs /\ "options" \in DmPcs
    BY Zenon DEF DmPcs, DmQuiet
  <2> QED BY Zenon, <2>1, Facts, NewProc, GoOnly DEF DmExec
<1>2. /\ dm_kernel' = dm_kernel /\ DmSameSettings /\ DmSameRules /\ dm_gone' = dm_gone
      /\ dm_lock' = dm_lock /\ dm_unclean' = dm_unclean /\ dm_proc[p].pc = "sleeping"
  BY Zenon DEF DmExec, DmAt, DmSameSettings, DmSameRules
<1>3. /\ dm_proc'[p].pc = "options" /\ ~dm_proc'[p].over /\ ~dm_proc'[p].locked /\ ~dm_proc'[p].nopid
      /\ dm_proc'[p].ifs = {} /\ ~dm_proc[p].over /\ ~dm_proc[p].locked
  <2>1. "none" \in DmPcs
    BY Zenon DEF DmPcs, DmQuiet
  <2> QED BY Zenon, <1>1, <1>2, <2>1, Facts, NewProc DEF DmMoved, DmPlace
<1>4. DmTypes'
  BY Zenon, <1>1, <1>2, TypesKept DEF DmInv, DmTypes
<1>5. DmPlaces'
  <2>1. DmPlace(p)'
    BY <1>3 DEF DmPlace, DmSetUp, DmServing, DmShutting
  <2> QED BY Zenon, <1>1, <1>2, <2>1, PlacesKept
<1>7. DmOver' /\ DmInForce' /\ DmBorrowed' /\ DmOwned'
  <2>1. DmWaits(p)' /\ ~DmActive(p)' /\ ~DmActive(p)
    BY Zenon, <1>2, <1>3 DEF DmWaits, DmActive, DmQuiet
  <2>2. dm_proc'[p].pc \notin DmSetUp \cup DmServing
    BY Zenon, <1>3 DEF DmSetUp, DmServing
  <2>3. DmOver'
    BY Zenon, <1>1, <1>2, <2>1, OverKept
  <2>4. DmInForce'
    BY Zenon, <1>1, <1>2, <1>3, <2>2, InForceKept
  <2>5. DmBorrowed'
    BY Zenon, <1>1, <1>2, <1>3, <2>1, BorrowedKept
  <2>6. DmOwned'
    BY Zenon, <1>1, <1>2, <1>3, OwnedKept
  <2> QED BY Zenon, <2>3, <2>4, <2>5, <2>6
<1> QED
  BY Zenon, <1>4, <1>5, <1>7 DEF DmInv

\* The settings a process makes when it comes into force.
LEMMA GlobalOptions ==
  ASSUME DmInv, NEW proc \in DmProcType
  PROVE  LET r == net_os_set_global_ifoptions(proc, dm_kernel)
         IN /\ r.proc \in DmProcType /\ r.kernel \in DmKernelType
            /\ r.proc.over = proc.over /\ r.proc.locked = proc.locked /\ r.proc.nopid = proc.nopid
            /\ r.proc.ifs = proc.ifs
            /\ r.kernel.nic = dm_kernel.nic /\ r.kernel.rules = dm_kernel.rules
            /\ r.kernel.lo = dm_kernel.lo
            /\ \A s \in DmGlobal :
                 /\ s \in DmTouched => r.proc.saved[s] = dm_kernel.settings[s]
                 /\ r.kernel.settings[s] =
                      IF s \in DmTouched /\ (s = "forward" => DmCnf.set_ip_forward)
                      THEN DmWanted(s) ELSE dm_kernel.settings[s]
<1> DEFINE r == net_os_set_global_ifoptions(proc, dm_kernel)
           saved == [s \in DmGlobal |-> IF s \in DmTouched THEN dm_kernel.settings[s] ELSE proc.saved[s]]
           settings == [s \in DmGlobal |->
                          IF s \in DmTouched /\ (s = "forward" => DmCnf.set_ip_forward)
                          THEN DmWanted(s) ELSE dm_kernel.settings[s]]
<1>1. /\ dm_kernel \in DmKernelType
      /\ dm_kernel.settings \in [DmGlobal -> Int] /\ proc.saved \in [DmGlobal -> Int]
  BY DEF DmInv, DmTypes, DmKernelType, DmProcType
<1>2. \A s \in DmGlobal : DmWanted(s) \in Int /\ DmWanted(s) # -1
  BY DEF DmWanted
<1>3. saved \in [DmGlobal -> Int] /\ settings \in [DmGlobal -> Int]
  BY <1>1, <1>2
<1>4. r = [proc |-> [proc EXCEPT !.saved = saved], kernel |-> [dm_kernel EXCEPT !.settings = settings]]
  <2>1. DOMAIN proc.saved = DmGlobal /\ DOMAIN dm_kernel.settings = DmGlobal
    BY <1>1
  <2>2. ASSUME NEW s \in DmGlobal
        PROVE  writeToProc(dm_kernel.settings[s],
                           IF s \in DmTouched /\ (s = "forward" => DmCnf.set_ip_forward)
                           THEN DmWanted(s) ELSE -1) = settings[s]
    BY <1>2 DEF writeToProc
  <2> QED BY <2>1, <2>2 DEF net_os_set_global_ifoptions
<1>5. /\ r.proc = [proc EXCEPT !.saved = saved]
      /\ r.kernel = [dm_kernel EXCEPT !.settings = settings]
  BY <1>4
<1> HIDE DEF r, saved, settings
<1>6. /\ r.proc \in DmProcType /\ r.proc.over = proc.over /\ r.proc.locked = proc.locked
      /\ r.proc.nopid = proc.nopid /\ r.proc.ifs = proc.ifs /\ r.proc.saved = saved
  BY <1>3, <1>5 DEF DmProcType
<1>7. /\ r.kernel \in DmKernelType /\ r.kernel.nic = dm_kernel.nic
      /\ r.kernel.rules = dm_kernel.rules /\ r.kernel.lo = dm_kernel.lo
      /\ r.kernel.settings = settings
  BY <1>1, <1>3, <1>5 DEF DmKernelType
<1>8. ASSUME NEW s \in DmGlobal
      PROVE  /\ s \in DmTouched => saved[s] = dm_kernel.settings[s]
             /\ settings[s] = IF s \in DmTouched /\ (s = "forward" => DmCnf.set_ip_forward)
                              THEN DmWanted(s) ELSE dm_kernel.settings[s]
  BY Zenon DEF saved, settings
<1> QED
  BY Zenon, <1>6, <1>7, <1>8 DEF r

\* A process makes its settings, or ends before it changed anything.
LEMMA OptionsStep ==
  ASSUME DmInv, NEW p \in DmProcs, DmOptions(p)
  PROVE  DmInv'
<1> DEFINE proc == [dm_proc[p] EXCEPT !.over = DmOverlaps(p)]
           r == net_os_set_global_ifoptions(proc, dm_kernel)
<1>1. /\ dm_proc[p].pc = "options" /\ dm_cfg' = dm_cfg /\ dm_lock' = dm_lock
      /\ dm_gone' = dm_gone /\ dm_unclean' = dm_unclean /\ (dm_unclean => dm_unclean')
  BY Zenon DEF DmOptions, DmAt
<1>2. /\ ~dm_proc[p].over /\ ~dm_proc[p].locked /\ ~dm_proc[p].nopid
      /\ dm_proc[p].ifs = {} /\ dm_proc[p] \in DmProcType
  BY Zenon, <1>1, Facts DEF DmPlace
<1>3. ~DmActive(p)
  BY Zenon, <1>1 DEF DmActive, DmQuiet
<1>4. CASE DmGo(p, dm_proc[p], "ended") /\ UNCHANGED <<dm_kernel, dm_unclean>>
  <2>1. DmOnly(p) /\ DmMoved(p, dm_proc[p], "ended") /\ DmSameSettings /\ DmSameRules
    BY Zenon, <1>1, <1>2, <1>4, Facts, GoOnly DEF DmPcs, DmQuiet, DmSameSettings, DmSameRules
  <2>2. dm_proc'[p].pc = "ended" /\ ~dm_proc'[p].over /\ ~dm_proc'[p].locked
    BY Zenon, <1>2, <2>1 DEF DmMoved
  <2>3. DmPlace(p)' /\ DmWaits(p)' /\ ~DmActive(p)'
    BY Zenon, <2>2 DEF DmPlace, DmWaits, DmActive, DmQuiet, DmSetUp, DmServing, DmShutting
  <2>4. DmTypes'
    BY Zenon, <1>1, <1>4, <2>1, TypesKept DEF DmInv, DmTypes
  <2>5. DmPlaces' /\ DmOver'
    BY Zenon, <1>1, <2>1, <2>3, PlacesKept, OverKept
  <2>7. DmInForce'
    BY Zenon, <1>2, <1>4, <2>1, <2>2, InForceKept DEF DmSetUp, DmServing
  <2>8. DmBorrowed' /\ DmOwned'
    BY Zenon, <1>1, <1>2, <1>3, <2>1, <2>3, BorrowedKept, OwnedKept
  <2> QED BY Zenon, <2>4, <2>5, <2>7, <2>8 DEF DmInv
<1>5. CASE /\ DmCnf.set_ip_forward \/ dm_kernel.settings["forward"] = 1
           /\ DmGo(p, r.proc, "interfaces") /\ dm_kernel' = r.kernel
  <2>1. proc \in DmProcType /\ proc.over = DmOverlaps(p) /\ ~proc.locked /\ ~proc.nopid /\ proc.ifs = {}
    BY Zenon, <1>2 DEF DmProcType, DmOverlaps
  <2> HIDE DEF proc
  <2>2. /\ r.proc \in DmProcType /\ dm_kernel' \in DmKernelType
        /\ r.proc.over = DmOverlaps(p) /\ ~r.proc.locked /\ ~r.proc.nopid /\ r.proc.ifs = {}
        /\ dm_kernel'.nic = dm_kernel.nic /\ DmSameRules
        /\ \A s \in DmGlobal :
             /\ s \in DmTouched => r.proc.saved[s] = dm_kernel.settings[s]
             /\ dm_kernel'.settings[s] =
                  IF s \in DmTouched /\ (s = "forward" => DmCnf.set_ip_forward)
                  THEN DmWanted(s) ELSE dm_kernel.settings[s]
    BY Zenon, <1>5, <2>1, GlobalOptions DEF DmSameRules
  <2> HIDE DEF r
  <2>3. DmOnly(p) /\ DmMoved(p, r.proc, "interfaces")
    BY Zenon, <1>1, <1>5, <2>2, Facts, GoOnly DEF DmPcs, DmSetUp
  <2>4. /\ dm_proc'[p].pc = "interfaces" /\ (dm_proc'[p].over <=> DmOverlaps(p))
        /\ ~dm_proc'[p].locked /\ ~dm_proc'[p].nopid /\ dm_proc'[p].ifs = {} /\ dm_proc'[p].saved = r.proc.saved
    BY Zenon, <2>2, <2>3 DEF DmMoved
  <2>5. \A q \in DmProcs : q # p => dm_proc'[q] = dm_proc[q] /\ (DmActive(q) => dm_proc'[p].over)
    BY Zenon, <2>3, <2>4 DEF DmOnly, DmActive, DmQuiet, DmOverlaps
  <2>6. DmTypes'
    BY Zenon, <1>1, <2>2, <2>3, TypesKept DEF DmInv, DmTypes
  <2>7. DmPlaces'
    <3>1. DmPlace(p)'
      BY <2>4 DEF DmPlace, DmSetUp, DmServing, DmShutting
    <3> QED BY Zenon, <1>1, <2>3, <3>1, PlacesKept
  <2>9. DmOver'
    <3>1. ASSUME NEW q \in DmProcs, NEW t \in DmProcs, q # t, DmActive(q)', DmActive(t)'
          PROVE  dm_proc'[q].over \/ dm_proc'[t].over
      BY Zenon, <2>5, <3>1 DEF DmInv, DmOver, DmActive
    <3>2. ASSUME NEW q \in DmProcs PROVE DmWaits(q)'
      <4>1. CASE q = p
        BY Zenon, <2>4, <4>1 DEF DmWaits, DmSetUp
      <4>2. CASE q # p
        BY Zenon, <1>1, <2>5, <4>2 DEF DmInv, DmOver, DmWaits
      <4> QED BY Zenon, <4>1, <4>2
    <3> QED BY Zenon, <2>3, <3>1, <3>2 DEF DmOver, DmOnly, DmSameCnf
  <2>10. DmInForce'
    <3> SUFFICES ASSUME DmInTurn', NEW q \in DmProcs,
                        ~dm_proc'[q].over, dm_proc'[q].pc \in DmSetUp \cup DmServing
                 PROVE  /\ \A s \in DmTouched : dm_kernel'.settings[s] = DmWanted(s)
                        /\ \A s \in DmIfSettings : s[1] \in dm_proc'[q].ifs => dm_kernel'.nic[s] = 0
                        /\ dm_proc'[q].pc = "running" => DmRuleTables \X {"all"} \subseteq dm_kernel'.rules
      BY Zenon, <2>3 DEF DmInForce, DmOnly, DmSameCnf
    <3>1. DmInTurn
      BY Zenon, <1>2, <2>3, <2>5 DEF DmInTurn, DmOnly, DmSameCnf
    <3>2. CASE q = p
      <4>1. \A s \in DmTouched : dm_kernel'.settings[s] = DmWanted(s)
        <5>1. DmWanted("forward") = 1
          BY DEF DmWanted
        <5> QED BY Zenon, <1>5, <2>2, <5>1 DEF DmTouched
      <4> QED BY Zenon, <2>4, <3>2, <4>1
    <3>3. CASE q # p
      <4>1. dm_proc'[q] = dm_proc[q]
        BY Zenon, <2>5, <3>3
      <4>2. /\ \A s \in DmTouched : dm_kernel.settings[s] = DmWanted(s)
            /\ \A s \in DmIfSettings : s[1] \in dm_proc[q].ifs => dm_kernel.nic[s] = 0
            /\ dm_proc[q].pc = "running" => DmRuleTables \X {"all"} \subseteq dm_kernel.rules
        BY Zenon, <3>1, <4>1 DEF DmInv, DmInForce
      <4>3. \A s \in DmTouched : dm_kernel'.settings[s] = DmWanted(s)
        BY Zenon, <2>2, <4>2 DEF DmTouched
      <4> QED BY Zenon, <2>2, <4>1, <4>2, <4>3 DEF DmSameRules
    <3> QED BY Zenon, <3>2, <3>3
  <2>11. DmBorrowed'
    <3> SUFFICES ASSUME ~dm_unclean', \A q \in DmProcs : ~dm_proc'[q].over
                 PROVE  /\ (\A q \in DmProcs : ~DmActive(q)') => DmOriginal'
                        /\ \A q \in DmProcs : DmActive(q)' => DmSaves(q)'
      BY Zenon, <2>3 DEF DmBorrowed, DmOnly, DmSameCnf
    <3>1. /\ DmActive(p)' /\ ~dm_unclean
          /\ \A q \in DmProcs : q # p => ~DmActive(q) /\ ~DmActive(q)'
      BY Zenon, <1>1, <2>4, <2>5 DEF DmActive, DmQuiet
    <3>2. DmOriginal
      <4>1. \A q \in DmProcs : ~dm_proc[q].over /\ ~DmActive(q)
        BY Zenon, <1>2, <1>3, <2>5, <3>1
      <4> QED BY Zenon, <3>1, <4>1 DEF DmInv, DmBorrowed
    <3>3. DmSaves(p)'
      BY <1>1, <2>2, <2>3, <2>4, <3>2 DEF DmSaves, DmOriginal, DmOnly, DmSameCnf
    <3> QED BY Zenon, <3>1, <3>3
  <2>12. DmOwned'
    BY Zenon, <1>1, <1>2, <2>2, <2>3, OwnedKept
  <2> QED BY Zenon, <2>6, <2>7, <2>9, <2>10, <2>11, <2>12 DEF DmInv
<1> QED
  BY Zenon, <1>4, <1>5 DEF DmOptions

\* The settings of interfaces that come up.
LEMMA IfOptions ==
  ASSUME DmInv, NEW p \in DmProcs, NEW up \in SUBSET DmCnf.interfaces
  PROVE  LET r == net_os_set_ifoptions(dm_proc[p], dm_kernel, up)
         IN /\ r.proc \in DmProcType /\ r.kernel \in DmKernelType
            /\ r.proc.over = dm_proc[p].over /\ r.proc.locked = dm_proc[p].locked /\ r.proc.nopid = dm_proc[p].nopid
            /\ r.proc.ifs = dm_proc[p].ifs \cup up /\ r.proc.saved = dm_proc[p].saved
            /\ r.proc.plugins = dm_proc[p].plugins /\ r.proc.parent = dm_proc[p].parent
            /\ r.kernel.settings = dm_kernel.settings /\ r.kernel.rules = dm_kernel.rules
            /\ r.kernel.lo = dm_kernel.lo
            /\ \A s \in DmIfSettings :
                 /\ r.proc.nic[s] = IF s[1] \in up THEN dm_kernel.nic[s] ELSE dm_proc[p].nic[s]
                 /\ r.kernel.nic[s] = IF s[1] \in up THEN 0 ELSE dm_kernel.nic[s]
<1> DEFINE r == net_os_set_ifoptions(dm_proc[p], dm_kernel, up)
           mine == up \X {"redirect", "rp_filter"}
           pnic == [s \in DmIfSettings |-> IF s \in mine THEN dm_kernel.nic[s] ELSE dm_proc[p].nic[s]]
           knic == [s \in DmIfSettings |-> IF s \in mine THEN 0 ELSE dm_kernel.nic[s]]
           ifs == dm_proc[p].ifs \cup up
<1>1. /\ dm_kernel \in DmKernelType /\ dm_proc[p] \in DmProcType
      /\ dm_kernel.nic \in [DmIfSettings -> Int] /\ dm_proc[p].nic \in [DmIfSettings -> Int]
      /\ ifs \in SUBSET DmCnf.interfaces
  BY DEF DmInv, DmTypes, DmKernelType, DmProcType
<1>2. pnic \in [DmIfSettings -> Int] /\ knic \in [DmIfSettings -> Int]
  BY <1>1
<1>3. r = [proc |-> [dm_proc[p] EXCEPT !.ifs = ifs, !.nic = pnic],
           kernel |-> [dm_kernel EXCEPT !.nic = knic]]
  <2>1. DOMAIN dm_kernel.nic = DmIfSettings /\ DOMAIN dm_proc[p].nic = DmIfSettings
    BY <1>1
  <2>2. ASSUME NEW s \in DmIfSettings
        PROVE  writeToProc(dm_kernel.nic[s], IF s \in mine THEN 0 ELSE -1) = knic[s]
    BY DEF writeToProc
  <2> QED BY <2>1, <2>2 DEF net_os_set_ifoptions
<1>4. /\ r.proc = [dm_proc[p] EXCEPT !.ifs = ifs, !.nic = pnic]
      /\ r.kernel = [dm_kernel EXCEPT !.nic = knic]
  BY <1>3
<1>5. ASSUME NEW s \in DmIfSettings
      PROVE  /\ pnic[s] = IF s[1] \in up THEN dm_kernel.nic[s] ELSE dm_proc[p].nic[s]
             /\ knic[s] = IF s[1] \in up THEN 0 ELSE dm_kernel.nic[s]
  <2>1. s \in mine <=> s[1] \in up
    BY DEF DmIfSettings
  <2> QED BY Zenon, <2>1
<1> HIDE DEF r, pnic, knic, ifs
<1>6. /\ r.proc \in DmProcType /\ r.proc.over = dm_proc[p].over /\ r.proc.locked = dm_proc[p].locked /\ r.proc.nopid = dm_proc[p].nopid
      /\ r.proc.ifs = ifs /\ r.proc.saved = dm_proc[p].saved /\ r.proc.nic = pnic
      /\ r.proc.plugins = dm_proc[p].plugins /\ r.proc.parent = dm_proc[p].parent
  BY Zenon, <1>1, <1>2, <1>4 DEF DmProcType
<1>7. /\ r.kernel \in DmKernelType /\ r.kernel.settings = dm_kernel.settings
      /\ r.kernel.rules = dm_kernel.rules /\ r.kernel.lo = dm_kernel.lo /\ r.kernel.nic = knic
  BY <1>1, <1>2, <1>4 DEF DmKernelType
<1> QED
  BY Zenon, <1>5, <1>6, <1>7 DEF r, ifs

\* A process takes interfaces up, at its start or while it runs.
LEMMA UpStep ==
  ASSUME DmInv, NEW p \in DmProcs, NEW up \in SUBSET DmCnf.interfaces, NEW pc \in {"pid", "running"},
         DmGo(p, net_os_set_ifoptions(dm_proc[p], dm_kernel, up).proc, pc),
         dm_kernel' = net_os_set_ifoptions(dm_proc[p], dm_kernel, up).kernel,
         UNCHANGED <<dm_cfg, dm_lock, dm_gone, dm_unclean>>,
         dm_proc[p].pc = (IF pc = "pid" THEN "interfaces" ELSE "running"),
         up \cap dm_proc[p].ifs = {}
  PROVE  DmInv'
<1> DEFINE r == net_os_set_ifoptions(dm_proc[p], dm_kernel, up)
<1>1. /\ r.proc \in DmProcType /\ dm_kernel' \in DmKernelType
      /\ r.proc.over = dm_proc[p].over /\ r.proc.locked = dm_proc[p].locked /\ r.proc.nopid = dm_proc[p].nopid
      /\ r.proc.ifs = dm_proc[p].ifs \cup up /\ r.proc.saved = dm_proc[p].saved
      /\ r.proc.plugins = dm_proc[p].plugins
      /\ dm_kernel'.settings = dm_kernel.settings /\ DmSameRules
      /\ \A s \in DmIfSettings :
           /\ r.proc.nic[s] = IF s[1] \in up THEN dm_kernel.nic[s] ELSE dm_proc[p].nic[s]
           /\ dm_kernel'.nic[s] = IF s[1] \in up THEN 0 ELSE dm_kernel.nic[s]
  <2>1. dm_kernel' = r.kernel
    BY Zenon
  <2>2. /\ r.proc \in DmProcType /\ r.kernel \in DmKernelType
        /\ r.proc.over = dm_proc[p].over /\ r.proc.locked = dm_proc[p].locked /\ r.proc.nopid = dm_proc[p].nopid
        /\ r.proc.ifs = dm_proc[p].ifs \cup up /\ r.proc.saved = dm_proc[p].saved
        /\ r.proc.plugins = dm_proc[p].plugins
        /\ r.kernel.settings = dm_kernel.settings /\ r.kernel.rules = dm_kernel.rules
        /\ r.kernel.lo = dm_kernel.lo
        /\ \A s \in DmIfSettings :
             /\ r.proc.nic[s] = IF s[1] \in up THEN dm_kernel.nic[s] ELSE dm_proc[p].nic[s]
             /\ r.kernel.nic[s] = IF s[1] \in up THEN 0 ELSE dm_kernel.nic[s]
    BY IfOptions
  <2> HIDE DEF r
  <2> QED BY Zenon, <2>1, <2>2 DEF DmSameRules
<1>2. DmGo(p, r.proc, pc) /\ pc \in DmPcs
  BY Zenon DEF DmPcs, DmSetUp, DmServing
<1> HIDE DEF r
<1>3. DmOnly(p) /\ DmMoved(p, r.proc, pc)
  BY Zenon, <1>1, <1>2, Facts, GoOnly
<1>4. /\ dm_proc'[p].pc = pc /\ dm_proc'[p].over = dm_proc[p].over
      /\ dm_proc'[p].locked = dm_proc[p].locked /\ dm_proc'[p].nopid = dm_proc[p].nopid
      /\ dm_proc'[p].ifs = dm_proc[p].ifs \cup up
      /\ dm_proc'[p].saved = dm_proc[p].saved /\ dm_proc'[p].nic = r.proc.nic
      /\ dm_proc'[p].plugins = dm_proc[p].plugins
  BY Zenon, <1>1, <1>3 DEF DmMoved
<1>5. /\ DmActive(p) /\ DmActive(p)'
      /\ dm_proc[p].pc \in DmSetUp \cup DmServing
      /\ dm_gone' = dm_gone /\ dm_lock' = dm_lock
      /\ dm_unclean' = dm_unclean /\ (dm_unclean => dm_unclean')
  BY Zenon, <1>4 DEF DmActive, DmQuiet, DmSetUp, DmServing
<1>6. DmTypes'
  BY Zenon, <1>1, <1>3, <1>5, TypesKept DEF DmInv, DmTypes
<1>7. DmPlaces'
  <2>1. DmPlace(p)'
    <3>1. DmPlace(p) /\ DmCnf' = DmCnf
      BY Zenon, <1>3, Facts DEF DmOnly, DmSameCnf
    <3> QED BY <1>4, <1>5, <3>1 DEF DmPlace, DmSetUp, DmServing, DmShutting, init_olsr_plugin
  <2> QED BY Zenon, <1>3, <1>5, <2>1, PlacesKept
<1>9. DmOver'
  <2>1. DmWaits(p)'
    BY Zenon, <1>4, <1>5, Facts DEF DmWaits, DmSetUp
  <2> QED BY Zenon, <1>3, <1>4, <1>5, <2>1, OverKept
<1>10. DmInForce'
  <2> SUFFICES ASSUME DmInTurn', NEW q \in DmProcs,
                      ~dm_proc'[q].over, dm_proc'[q].pc \in DmSetUp \cup DmServing
               PROVE  /\ \A s \in DmTouched : dm_kernel'.settings[s] = DmWanted(s)
                      /\ \A s \in DmIfSettings : s[1] \in dm_proc'[q].ifs => dm_kernel'.nic[s] = 0
                      /\ dm_proc'[q].pc = "running" => DmRuleTables \X {"all"} \subseteq dm_kernel'.rules
    BY Zenon, <1>3 DEF DmInForce, DmOnly, DmSameCnf
  <2>1. DmInTurn
    BY Zenon, <1>3, <1>4 DEF DmInTurn, DmOnly, DmSameCnf
  <2>2. /\ ~dm_proc[q].over /\ dm_proc[q].pc \in DmSetUp \cup DmServing
        /\ dm_proc'[q].pc = "running" => dm_proc[q].pc = "running"
        /\ dm_proc'[q].ifs \subseteq dm_proc[q].ifs \cup up
    BY Zenon, <1>3, <1>4, <1>5 DEF DmOnly
  <2>3. /\ \A s \in DmTouched : dm_kernel.settings[s] = DmWanted(s)
        /\ \A s \in DmIfSettings : s[1] \in dm_proc[q].ifs => dm_kernel.nic[s] = 0
        /\ dm_proc[q].pc = "running" => DmRuleTables \X {"all"} \subseteq dm_kernel.rules
    BY Zenon, <2>1, <2>2 DEF DmInv, DmInForce
  <2> QED BY Zenon, <1>1, <2>2, <2>3 DEF DmSameRules
<1>11. DmBorrowed'
  <2> SUFFICES ASSUME ~dm_unclean', \A q \in DmProcs : ~dm_proc'[q].over
               PROVE  /\ (\A q \in DmProcs : ~DmActive(q)') => DmOriginal'
                      /\ \A q \in DmProcs : DmActive(q)' => DmSaves(q)'
    BY Zenon, <1>3 DEF DmBorrowed, DmOnly, DmSameCnf
  <2>1. ~dm_unclean /\ \A q \in DmProcs : ~dm_proc[q].over
    BY Zenon, <1>3, <1>4, <1>5 DEF DmOnly
  <2>2. DmSaves(p)
    BY Zenon, <1>5, <2>1 DEF DmInv, DmBorrowed
  <2>3. \A q \in DmProcs : DmActive(q)' => q = p
    BY Zenon, <1>3, <1>5, <2>1 DEF DmInv, DmOver, DmActive, DmOnly
  <2>4. DmSaves(p)'
    <3>1. \A s \in DmGlobal :
            IF s \in DmTouched /\ (s = "forward" => DmCnf.set_ip_forward)
            THEN /\ dm_proc'[p].saved[s] = DmCnf.settings[s]
                 /\ dm_kernel'.settings[s] \in {DmCnf.settings[s], DmWanted(s)}
            ELSE dm_kernel'.settings[s] = DmCnf.settings[s]
      <4>1. dm_proc'[p].saved = dm_proc[p].saved /\ dm_kernel'.settings = dm_kernel.settings
        BY Zenon, <1>1, <1>4
      <4> QED BY <2>2, <4>1 DEF DmSaves
    <3>2. ASSUME NEW s \in DmIfSettings, s[1] \notin dm_gone
          PROVE  IF s[1] \in dm_proc'[p].ifs THEN dm_proc'[p].nic[s] = 1 ELSE dm_kernel'.nic[s] = 1
      <4>1. IF s[1] \in dm_proc[p].ifs THEN dm_proc[p].nic[s] = 1 ELSE dm_kernel.nic[s] = 1
        BY Zenon, <2>2, <3>2 DEF DmSaves
      <4>2. /\ dm_proc'[p].nic[s] = IF s[1] \in up THEN dm_kernel.nic[s] ELSE dm_proc[p].nic[s]
            /\ dm_kernel'.nic[s] = IF s[1] \in up THEN 0 ELSE dm_kernel.nic[s]
            /\ s[1] \in dm_proc'[p].ifs <=> s[1] \in dm_proc[p].ifs \/ s[1] \in up
            /\ ~(s[1] \in dm_proc[p].ifs /\ s[1] \in up)
        BY Zenon, <1>1, <1>4
      <4> QED BY Zenon, <4>1, <4>2
    <3>3. dm_proc'[p].pc # "last"
      BY Zenon, <1>4
    <3> QED BY Zenon, <1>3, <1>5, <3>1, <3>2, <3>3 DEF DmSaves, DmOnly, DmSameCnf
  <2> QED BY Zenon, <1>5, <2>3, <2>4
<1>12. DmOwned'
  <2>1. dm_proc[p].pc \in {"running", "links"} => dm_proc'[p].pc \in {"running", "links"}
    BY Zenon, <1>4
  <2>2. dm_proc[p].pc \in {"running"} \cup DmShutting => dm_proc'[p].pc \in {"running"} \cup DmShutting
    BY Zenon, <1>4 DEF DmShutting
  <2>3. dm_proc[p].ifs \subseteq dm_proc'[p].ifs /\ (dm_proc[p].locked => dm_proc'[p].locked)
    BY Zenon, <1>4
  <2> QED BY Zenon, <1>1, <1>3, <1>5, <2>1, <2>2, <2>3, OwnedKept
<1> QED
  BY Zenon, <1>6, <1>7, <1>9, <1>10, <1>11, <1>12 DEF DmInv

LEMMA InterfacesStep ==
  ASSUME DmInv, NEW p \in DmProcs, DmInterfaces(p)
  PROVE  DmInv'
<1>1. PICK up \in SUBSET DmCnf.interfaces :
        LET r == net_os_set_ifoptions(dm_proc[p], dm_kernel, up)
        IN IF up = {} /\ ~DmCnf.allow_no_interfaces
             THEN DmDie(p, dm_proc[p]) /\ UNCHANGED dm_kernel
             ELSE /\ DmGo(p, r.proc, "pid")
                  /\ dm_kernel' = r.kernel
                  /\ UNCHANGED <<dm_lock, dm_unclean>>
  BY Zenon DEF DmInterfaces
<1>2. dm_proc[p].pc = "interfaces" /\ UNCHANGED <<dm_cfg, dm_gone>>
  BY Zenon DEF DmInterfaces, DmAt
<1>3. CASE up = {} /\ ~DmCnf.allow_no_interfaces
  BY Zenon, <1>1, <1>2, <1>3, Facts, DieStep
<1>4. CASE ~(up = {} /\ ~DmCnf.allow_no_interfaces)
  <2>1. dm_proc[p].ifs = {}
    BY Zenon, <1>2, Facts DEF DmPlace
  <2>2. up \cap dm_proc[p].ifs = {}
    BY Zenon, <2>1
  <2> QED BY Zenon, <1>1, <1>2, <1>4, <2>2, UpStep
<1> QED
  BY Zenon, <1>3, <1>4

LEMMA FindInterfaceStep ==
  ASSUME DmInv, NEW p \in DmProcs, DmFindInterface(p)
  PROVE  DmInv'
<1>1. PICK i \in DmCnf.interfaces \ dm_proc[p].ifs :
        LET r == net_os_set_ifoptions(dm_proc[p], dm_kernel, {i})
        IN DmGo(p, r.proc, "running") /\ dm_kernel' = r.kernel
  BY Zenon DEF DmFindInterface
<1>2. dm_proc[p].pc = "running" /\ UNCHANGED <<dm_cfg, dm_lock, dm_gone, dm_unclean>>
  BY Zenon DEF DmFindInterface, DmAt
<1>3. {i} \in SUBSET DmCnf.interfaces /\ {i} \cap dm_proc[p].ifs = {} /\ "running" # "pid"
  BY <1>1
<1> QED
  BY Zenon, <1>1, <1>2, <1>3, UpStep

\* The PID file is written, or the process shuts down at once.
LEMMA PidStep ==
  ASSUME DmInv, NEW p \in DmProcs, writePidFile(p)
  PROVE  DmInv'
<1> DEFINE failed == [dm_proc[p] EXCEPT !.nopid = TRUE]
<1>1. /\ dm_proc[p].pc = "pid" /\ UNCHANGED <<dm_cfg, dm_kernel, dm_lock, dm_gone, dm_unclean>>
      /\ DmGo(p, dm_proc[p], "lock") \/ DmGo(p, failed, "links")
  BY Zenon DEF writePidFile, DmAt
<1>2. /\ failed \in DmProcType /\ failed.nopid /\ failed.locked = dm_proc[p].locked
      /\ failed.over = dm_proc[p].over /\ failed.saved = dm_proc[p].saved
      /\ failed.nic = dm_proc[p].nic /\ failed.ifs = dm_proc[p].ifs
  BY Zenon, Facts DEF DmProcType
<1> HIDE DEF failed
<1>3. PICK pc \in {"lock", "links"}, proc \in {dm_proc[p], failed} :
        DmGo(p, proc, pc) /\ (pc = "links" <=> proc = failed) /\ (pc = "lock" <=> proc = dm_proc[p])
  <2>1. ~dm_proc[p].nopid
    BY Zenon, <1>1, Facts DEF DmPlace, DmSetUp
  <2>2. failed # dm_proc[p] /\ "lock" # "links"
    BY Zenon, <1>2, <2>1
  <2> QED BY Zenon, <1>1, <2>2
<1>4. /\ proc \in DmProcType /\ proc.locked = dm_proc[p].locked /\ proc.over = dm_proc[p].over
      /\ proc.saved = dm_proc[p].saved /\ proc.nic = dm_proc[p].nic /\ proc.ifs = dm_proc[p].ifs
      /\ pc = "links" => proc.nopid
      /\ pc = "lock" => proc.nopid = dm_proc[p].nopid
  BY Zenon, <1>2, <1>3, Facts
<1>5. DmMoved(p, proc, pc) /\ DmOnly(p)
  BY Zenon, <1>1, <1>3, <1>4, Facts, GoOnly DEF DmPcs, DmSetUp, DmShutting
<1>6. ~dm_proc[p].nopid /\ ~dm_proc[p].locked /\ DmActive(p)
  BY Zenon, <1>1, Facts DEF DmPlace, DmSetUp, DmActive, DmQuiet
<1>7. /\ dm_proc'[p].pc = pc /\ dm_proc'[p].over = dm_proc[p].over /\ ~dm_proc'[p].locked
      /\ pc = "links" => dm_proc'[p].nopid
      /\ pc = "lock" => ~dm_proc'[p].nopid
  BY Zenon, <1>4, <1>5, <1>6 DEF DmMoved
<1>8. DmPlace(p)'
  BY <1>3, <1>7 DEF DmPlace, DmSetUp, DmServing, DmShutting
<1>9. DmWaits(p)'
  BY Zenon, <1>3, <1>7 DEF DmWaits, DmSetUp
<1>10. /\ pc \in {"lock", "plugins", "rules", "links"} /\ dm_lock' \in Int
       /\ \A q \in DmProcs : (q # p /\ dm_lock = q) => dm_lock' = q
       /\ dm_proc[p].pc \in {"running"} \cup DmShutting => pc = "links"
  BY Zenon, <1>1 DEF DmInv, DmTypes, DmShutting
<1> QED
  BY Zenon, <1>1, <1>3, <1>4, <1>6, <1>8, <1>9, <1>10, MoveStep

LEMMA LockStep ==
  ASSUME DmInv, NEW p \in DmProcs, olsr_create_lock_file(p)
  PROVE  DmInv'
<1>1. dm_proc[p].pc = "lock" /\ UNCHANGED <<dm_cfg, dm_kernel, dm_gone>>
  BY Zenon DEF olsr_create_lock_file, DmAt
<1>2. /\ DmActive(p) /\ ~dm_proc[p].locked /\ ~dm_proc[p].nopid /\ DmTypes /\ p \in Nat \ {0}
      /\ dm_proc[p].pc \notin {"running"} \cup DmShutting
  <2>1. DmProcs \subseteq Nat \ {0}
    BY Zenon, CnfTypes DEF DmInv, DmTypes
  <2> QED BY Zenon, <1>1, <2>1, Facts DEF DmActive, DmQuiet, DmPlace, DmSetUp, DmShutting
<1>3. CASE /\ dm_lock = 0 /\ dm_lock' = p
           /\ DmGo(p, [dm_proc[p] EXCEPT !.locked = TRUE], "plugins") /\ UNCHANGED dm_unclean
  <2> DEFINE proc == [dm_proc[p] EXCEPT !.locked = TRUE]
  <2>1. /\ proc \in DmProcType /\ proc.locked /\ proc.over = dm_proc[p].over /\ proc.nopid = dm_proc[p].nopid
        /\ proc.saved = dm_proc[p].saved /\ proc.nic = dm_proc[p].nic /\ proc.ifs = dm_proc[p].ifs
    BY Zenon, Facts DEF DmProcType
  <2>2. DmGo(p, proc, "plugins")
    BY Zenon, <1>3
  <2> HIDE DEF proc
  <2>3. DmMoved(p, proc, "plugins")
    BY Zenon, <1>2, <2>1, <2>2, Go DEF DmPcs, DmServing
  <2>4. dm_proc'[p].pc = "plugins" /\ dm_proc'[p].locked
    BY Zenon, <2>1, <2>3 DEF DmMoved
  <2>5. DmPlace(p)' /\ DmWaits(p)'
    BY <1>3, <2>4 DEF DmPlace, DmWaits, DmSetUp, DmServing, DmShutting
  <2>6. /\ dm_lock' \in Int
        /\ \A q \in DmProcs : (q # p /\ dm_lock = q) => dm_lock' = q
    BY <1>2, <1>3, CnfTypes DEF DmTypes
  <2>7. "plugins" \in {"lock", "plugins", "rules", "links"} /\ UNCHANGED <<dm_cfg, dm_kernel, dm_gone, dm_unclean>>
    BY Zenon, <1>1, <1>3
  <2> QED BY Zenon, <1>2, <2>1, <2>2, <2>5, <2>6, <2>7, MoveStep
<1>4. CASE /\ DmGo(p, [dm_proc[p] EXCEPT !.tries = @ + 1], "lock")
           /\ UNCHANGED <<dm_lock, dm_unclean>>
  <2> DEFINE proc == [dm_proc[p] EXCEPT !.tries = @ + 1]
  <2>1. /\ proc \in DmProcType /\ proc.locked = dm_proc[p].locked /\ proc.over = dm_proc[p].over
        /\ proc.nopid = dm_proc[p].nopid
        /\ proc.saved = dm_proc[p].saved /\ proc.nic = dm_proc[p].nic /\ proc.ifs = dm_proc[p].ifs
    BY Facts DEF DmProcType
  <2>2. DmGo(p, proc, "lock")
    BY Zenon, <1>4
  <2> HIDE DEF proc
  <2>3. DmMoved(p, proc, "lock")
    BY Zenon, <1>2, <2>1, <2>2, Go DEF DmPcs, DmSetUp
  <2>4. dm_proc'[p].pc = "lock" /\ ~dm_proc'[p].locked /\ ~dm_proc'[p].nopid /\ dm_proc'[p].over = dm_proc[p].over
    BY Zenon, <1>2, <2>1, <2>3 DEF DmMoved
  <2>5. DmPlace(p)' /\ DmWaits(p)'
    BY <1>1, <2>4, Facts DEF DmPlace, DmWaits, DmSetUp, DmServing, DmShutting
  <2>6. /\ dm_lock' \in Int
        /\ \A q \in DmProcs : (q # p /\ dm_lock = q) => dm_lock' = q
    BY Zenon, <1>2, <1>4 DEF DmTypes
  <2>7. "lock" \in {"lock", "plugins", "rules", "links"} /\ UNCHANGED <<dm_cfg, dm_kernel, dm_gone, dm_unclean>>
    BY Zenon, <1>1, <1>4
  <2> QED BY Zenon, <1>2, <2>1, <2>2, <2>5, <2>6, <2>7, MoveStep
<1>5. CASE DmDie(p, dm_proc[p])
  BY Zenon, <1>1, <1>5, Facts, DieStep
<1> QED
  BY Zenon, <1>3, <1>4, <1>5 DEF olsr_create_lock_file

\* Plugins are in the list with every parameter accepted, or the process is over.
LEMMA PluginsStep ==
  ASSUME DmInv, NEW p \in DmProcs, DmPlugins(p)
  PROVE  DmInv'
<1> DEFINE r == olsr_load_plugins(DmCnf.plugins)
           proc == [dm_proc[p] EXCEPT !.plugins = r.loaded]
<1>1. /\ dm_proc[p].pc = "plugins" /\ UNCHANGED <<dm_cfg, dm_kernel, dm_gone>>
      /\ IF r.failed THEN DmDie(p, proc) ELSE DmGo(p, proc, "rules") /\ UNCHANGED <<dm_lock, dm_unclean>>
  BY Zenon DEF DmPlugins, DmAt
<1>2. /\ r.loaded \subseteq 1..Len(DmCnf.plugins)
      /\ ~r.failed => /\ r.loaded = 1..Len(DmCnf.plugins)
                      /\ \A i \in 1..Len(DmCnf.plugins) : init_olsr_plugin(DmCnf.plugins[i])
  BY DEF olsr_load_plugins
<1>3. r.loaded \in SUBSET Int
  BY <1>2
<1> HIDE DEF r
<1>4. /\ proc \in DmProcType /\ proc.locked = dm_proc[p].locked /\ proc.over = dm_proc[p].over
      /\ proc.nopid = dm_proc[p].nopid
      /\ proc.saved = dm_proc[p].saved /\ proc.nic = dm_proc[p].nic /\ proc.ifs = dm_proc[p].ifs
      /\ proc.plugins = r.loaded
  BY <1>3, Facts DEF DmProcType
<1> HIDE DEF proc
<1>5. CASE r.failed
  BY Zenon, <1>1, <1>4, <1>5, DieStep
<1>6. CASE ~r.failed
  <2>1. DmGo(p, proc, "rules") /\ UNCHANGED <<dm_cfg, dm_kernel, dm_lock, dm_gone, dm_unclean>>
    BY Zenon, <1>1, <1>6
  <2>2. DmMoved(p, proc, "rules") /\ DmOnly(p)
    BY Zenon, <1>4, <2>1, Facts, GoOnly DEF DmPcs, DmServing
  <2>3. /\ dm_proc'[p].pc = "rules" /\ dm_proc'[p].locked = dm_proc[p].locked
        /\ dm_proc'[p].plugins = r.loaded /\ DmCnf' = DmCnf
    BY Zenon, <1>4, <2>2 DEF DmMoved, DmOnly, DmSameCnf
  <2>4. dm_proc[p].locked /\ dm_lock = p
    BY Zenon, <1>1, Facts DEF DmPlace, DmServing
  <2>5. DmPlace(p)'
    BY <1>2, <1>6, <2>1, <2>3, <2>4 DEF DmPlace, DmSetUp, DmServing, DmShutting, init_olsr_plugin
  <2>6. DmWaits(p)'
    BY Zenon, <2>3, <2>4 DEF DmWaits
  <2>7. /\ "rules" \in {"lock", "plugins", "rules", "links"} /\ dm_lock' \in Int
        /\ \A q \in DmProcs : (q # p /\ dm_lock = q) => dm_lock' = q
        /\ dm_proc[p].pc \notin {"running"} \cup DmShutting /\ DmActive(p)
    BY Zenon, <1>1, <2>1 DEF DmInv, DmTypes, DmShutting, DmActive, DmQuiet
  <2> QED BY Zenon, <1>4, <2>1, <2>5, <2>6, <2>7, MoveStep
<1> QED
  BY Zenon, <1>5, <1>6

\* A signal starts olsr_shutdown.
LEMMA TerminateStep ==
  ASSUME DmInv, NEW p \in DmProcs, DmTerminate(p)
  PROVE  DmInv'
<1>1. /\ dm_proc[p].pc \in {"running", "restore", "last"} /\ dm_proc[p].locked
      /\ DmGo(p, dm_proc[p], "links") /\ UNCHANGED <<dm_cfg, dm_kernel, dm_lock, dm_gone, dm_unclean>>
  BY Zenon, Facts DEF DmTerminate, DmHandles, DmAt, DmPlace, DmServing
<1>2. DmMoved(p, dm_proc[p], "links") /\ DmOnly(p)
  BY Zenon, <1>1, Facts, GoOnly DEF DmPcs, DmShutting
<1>3. /\ dm_proc'[p].pc = "links" /\ dm_proc'[p].locked = dm_proc[p].locked
      /\ dm_proc'[p].over = dm_proc[p].over /\ DmCnf' = DmCnf
  BY Zenon, <1>2 DEF DmMoved, DmOnly, DmSameCnf
<1>4. DmPlace(p)' /\ DmWaits(p)'
  BY <1>1, <1>3, Facts DEF DmPlace, DmWaits, DmSetUp, DmServing, DmShutting
<1>5. /\ "links" \in {"lock", "plugins", "rules", "links"} /\ dm_lock' \in Int /\ DmActive(p)
      /\ \A q \in DmProcs : (q # p /\ dm_lock = q) => dm_lock' = q
  BY Zenon, <1>1 DEF DmInv, DmTypes, DmActive, DmQuiet
<1> QED
  BY Zenon, <1>1, <1>4, <1>5, Facts, MoveStep

\* The rules come with the scheduler.
LEMMA RunStep ==
  ASSUME DmInv, NEW p \in DmProcs, DmRun(p)
  PROVE  DmInv'
<1>1. /\ dm_proc[p].pc = "rules" /\ dm_kernel' = DmPrepare(dm_proc[p], dm_kernel)
      /\ DmGo(p, dm_proc[p], "running") /\ UNCHANGED <<dm_cfg, dm_lock, dm_gone, dm_unclean>>
      /\ (dm_unclean => dm_unclean')
  BY Zenon DEF DmRun, DmAt
<1>2. DmMoved(p, dm_proc[p], "running") /\ DmOnly(p)
  BY Zenon, <1>1, Facts, GoOnly DEF DmPcs, DmServing
<1>3. /\ dm_proc'[p].pc = "running" /\ dm_proc'[p].locked = dm_proc[p].locked
      /\ dm_proc'[p].nopid = dm_proc[p].nopid
      /\ dm_proc'[p].over = dm_proc[p].over /\ dm_proc'[p].ifs = dm_proc[p].ifs
      /\ dm_proc'[p].saved = dm_proc[p].saved /\ dm_proc'[p].nic = dm_proc[p].nic
      /\ dm_proc'[p].plugins = dm_proc[p].plugins /\ DmCnf' = DmCnf
  BY Zenon, <1>2 DEF DmMoved, DmOnly, DmSameCnf
<1>4. /\ dm_kernel' \in DmKernelType /\ DmSameSettings
      /\ dm_kernel'.rules = dm_kernel.rules \cup DmRules(dm_proc[p])
      /\ dm_kernel'.lo = (dm_kernel.lo \/ DmCnf.src_ip_routes)
  <2> DEFINE rules == dm_kernel.rules \cup DmRules(dm_proc[p])
             lo == dm_kernel.lo \/ DmCnf.src_ip_routes
  <2>1. dm_kernel \in DmKernelType /\ dm_proc[p].ifs \subseteq DmCnf.interfaces
    BY Zenon, Facts DEF DmInv, DmTypes
  <2>2. rules \in SUBSET ((DmRuleTables \X {"all"}) \cup ({"defaultolsr"} \X DmCnf.interfaces))
    BY <2>1 DEF DmRules, DmKernelType
  <2>3. lo \in BOOLEAN /\ dm_kernel' = [dm_kernel EXCEPT !.rules = rules, !.lo = lo]
    BY Zenon, <1>1 DEF DmPrepare
  <2> HIDE DEF rules, lo
  <2>4. /\ dm_kernel' \in DmKernelType /\ DmSameSettings
        /\ dm_kernel'.rules = rules /\ dm_kernel'.lo = lo
    BY Zenon, <2>1, <2>2, <2>3 DEF DmKernelType, DmSameSettings
  <2> QED BY Zenon, <2>4 DEF rules, lo
<1>5. /\ DmActive(p) /\ DmActive(p)' /\ dm_proc[p].pc \in DmSetUp \cup DmServing
      /\ dm_proc[p].pc \notin DmShutting /\ dm_proc[p].locked
  BY Zenon, <1>1, <1>3, Facts DEF DmActive, DmQuiet, DmServing, DmShutting, DmPlace
<1>6. DmTypes'
  BY Zenon, <1>1, <1>2, <1>4, TypesKept DEF DmInv, DmTypes
<1>7. DmPlaces'
  <2>1. DmPlace(p)'
    BY <1>1, <1>3, Facts DEF DmPlace, DmSetUp, DmServing, DmShutting, init_olsr_plugin
  <2> QED BY Zenon, <1>1, <1>2, <2>1, PlacesKept
<1>9. DmOver'
  <2>1. DmWaits(p)'
    BY Zenon, <1>3, <1>5 DEF DmWaits
  <2> QED BY Zenon, <1>1, <1>2, <1>3, <1>5, <2>1, OverKept
<1>10. DmInForce'
  <2>1. DmRuleTables \X {"all"} \subseteq dm_kernel'.rules
    BY Zenon, <1>4 DEF DmRules
  <2> QED BY Zenon, <1>2, <1>3, <1>4, <1>5, <2>1, InForceKept
<1>11. DmBorrowed'
  BY Zenon, <1>1, <1>2, <1>3, <1>4, <1>5, BorrowedKept
<1>12. DmOwned'
  <2> SUFFICES ASSUME ~dm_unclean'
               PROVE  /\ \A r \in dm_kernel'.rules : DmOwner(r)'
                      /\ dm_kernel'.lo => /\ DmCnf.src_ip_routes
                                          /\ \E q \in DmProcs : DmHolds(q, {"running", "links"})'
    BY Zenon, <1>2 DEF DmOwned, DmOnly, DmSameCnf
  <2>1. DmHolds(p, {"running", "links"})' /\ DmHolds(p, {"running"} \cup DmShutting)'
    BY Zenon, <1>3, <1>5 DEF DmHolds
  <2>2. /\ ~dm_unclean
        /\ \A q \in DmProcs : q # p => dm_proc'[q] = dm_proc[q]
        /\ ~DmHolds(p, {"running", "links"}) /\ ~DmHolds(p, {"running"} \cup DmShutting)
    BY Zenon, <1>1, <1>2, <1>5 DEF DmOnly, DmHolds
  <2>3. ASSUME NEW r \in dm_kernel.rules
        PROVE  DmOwner(r)'
    <3>1. DmOwner(r)
      BY Zenon, <2>2 DEF DmInv, DmOwned
    <3> QED BY Zenon, <1>1, <1>2, <2>2, <3>1 DEF DmOwner, DmHolds, DmOnly, DmSameCnf
  <2>4. ASSUME NEW r \in DmRules(dm_proc[p])
        PROVE  DmOwner(r)'
    BY Zenon, <1>2, <1>3, <2>1 DEF DmOwner, DmRules, DmOnly, DmSameCnf
  <2>5. dm_kernel.lo => DmCnf.src_ip_routes
    BY Zenon, <2>2 DEF DmInv, DmOwned
  <2> QED BY Zenon, <1>4, <2>1, <2>3, <2>4, <2>5
<1> QED
  BY Zenon, <1>6, <1>7, <1>9, <1>10, <1>11, <1>12 DEF DmInv

\* An interface goes down under a running daemon.
LEMMA LoseInterfaceStep ==
  ASSUME DmInv, NEW p \in DmProcs, DmLoseInterface(p)
  PROVE  DmInv'
<1>1. PICK i \in dm_proc[p].ifs :
        /\ DmGo(p, [dm_proc[p] EXCEPT !.ifs = @ \ {i}],
                IF dm_proc[p].ifs = {i} /\ ~DmCnf.allow_no_interfaces THEN "links" ELSE "running")
        /\ dm_gone' = dm_gone \cup {i}
  BY Zenon DEF DmLoseInterface
<1> DEFINE proc == [dm_proc[p] EXCEPT !.ifs = @ \ {i}]
<1>2. PICK pc \in {"links", "running"} : DmGo(p, proc, pc)
  BY Zenon, <1>1
<1>3. /\ dm_proc[p].pc = "running" /\ UNCHANGED <<dm_cfg, dm_kernel, dm_lock, dm_unclean>>
      /\ DmSameSettings /\ DmSameRules /\ (dm_unclean => dm_unclean')
  BY Zenon DEF DmLoseInterface, DmAt, DmSameSettings, DmSameRules
<1>4. /\ proc \in DmProcType /\ proc.locked = dm_proc[p].locked /\ proc.over = dm_proc[p].over
      /\ proc.nopid = dm_proc[p].nopid
      /\ proc.saved = dm_proc[p].saved /\ proc.nic = dm_proc[p].nic
      /\ proc.ifs = dm_proc[p].ifs \ {i} /\ proc.plugins = dm_proc[p].plugins
  <2>1. dm_proc[p] \in DmProcType /\ dm_proc[p].ifs \ {i} \in SUBSET DmCnf.interfaces
    BY Zenon, Facts
  <2> QED BY <2>1 DEF DmProcType
<1> HIDE DEF proc
<1>5. DmMoved(p, proc, pc) /\ DmOnly(p)
  BY Zenon, <1>2, <1>3, <1>4, Facts, GoOnly DEF DmPcs, DmServing, DmShutting
<1>6. /\ dm_proc'[p].pc = pc /\ dm_proc'[p].locked = dm_proc[p].locked
      /\ dm_proc'[p].nopid = dm_proc[p].nopid
      /\ dm_proc'[p].over = dm_proc[p].over /\ dm_proc'[p].ifs = dm_proc[p].ifs \ {i}
      /\ dm_proc'[p].saved = dm_proc[p].saved /\ dm_proc'[p].nic = dm_proc[p].nic
      /\ dm_proc'[p].plugins = dm_proc[p].plugins /\ DmCnf' = DmCnf
  BY Zenon, <1>4, <1>5 DEF DmMoved, DmOnly, DmSameCnf
<1>7. /\ DmActive(p) /\ DmActive(p)' /\ dm_proc[p].pc \in DmSetUp \cup DmServing
      /\ dm_proc[p].pc \notin DmShutting /\ dm_proc[p].locked
  BY Zenon, <1>3, <1>6, Facts DEF DmActive, DmQuiet, DmServing, DmShutting, DmPlace
<1>8. DmTypes'
  <2>1. dm_gone' \subseteq DmCnf.interfaces
    BY Zenon, <1>1, Facts DEF DmInv, DmTypes
  <2> QED BY Zenon, <1>3, <1>5, <2>1, TypesKept DEF DmInv, DmTypes
<1>9. DmPlaces'
  <2>1. DmPlace(p)'
    BY Zenon, <1>3, <1>6, Facts DEF DmPlace, DmSetUp, DmServing, DmShutting, init_olsr_plugin
  <2> QED BY Zenon, <1>3, <1>5, <2>1, PlacesKept
<1>11. DmOver'
  <2>1. DmWaits(p)'
    BY Zenon, <1>6, <1>7 DEF DmWaits
  <2> QED BY Zenon, <1>3, <1>5, <1>6, <1>7, <2>1, OverKept
<1>12. DmInForce'
  <2>1. dm_proc'[p].ifs \subseteq dm_proc[p].ifs
    BY Zenon, <1>6
  <2> QED BY Zenon, <1>3, <1>5, <1>6, <1>7, <2>1, InForceKept
<1>13. DmBorrowed'
  <2> SUFFICES ASSUME ~dm_unclean', \A q \in DmProcs : ~dm_proc'[q].over
               PROVE  /\ (\A q \in DmProcs : ~DmActive(q)') => DmOriginal'
                      /\ \A q \in DmProcs : DmActive(q)' => DmSaves(q)'
    BY Zenon, <1>5 DEF DmBorrowed, DmOnly, DmSameCnf
  <2>1. ~dm_unclean /\ \A q \in DmProcs : ~dm_proc[q].over
    BY Zenon, <1>3, <1>5, <1>6 DEF DmOnly
  <2>2. DmSaves(p)
    BY Zenon, <1>7, <2>1 DEF DmInv, DmBorrowed
  <2>3. \A q \in DmProcs : DmActive(q)' => q = p
    BY Zenon, <1>5, <1>7, <2>1 DEF DmInv, DmOver, DmActive, DmOnly
  <2>4. DmSaves(p)'
    BY <1>1, <1>3, <1>5, <1>6, <2>2 DEF DmSaves, DmOnly, DmSameCnf
  <2> QED BY Zenon, <1>7, <2>3, <2>4
<1>14. DmOwned'
  <2> SUFFICES ASSUME ~dm_unclean'
               PROVE  /\ \A r \in dm_kernel.rules : DmOwner(r)'
                      /\ dm_kernel.lo => /\ DmCnf.src_ip_routes
                                         /\ \E q \in DmProcs : DmHolds(q, {"running", "links"})'
    BY Zenon, <1>3, <1>5 DEF DmOwned, DmOnly, DmSameCnf
  <2>1. DmHolds(p, {"running", "links"})' /\ DmHolds(p, {"running"} \cup DmShutting)'
    BY Zenon, <1>6, <1>7 DEF DmHolds, DmShutting
  <2>2. \A q \in DmProcs : q # p => dm_proc'[q] = dm_proc[q]
    BY Zenon, <1>5 DEF DmOnly
  <2>3. ASSUME NEW r, DmOwner(r)
        PROVE  DmOwner(r)'
    <3>1. CASE r \in {"defaultolsr"} \X dm_gone
      BY Zenon, <1>1, <3>1 DEF DmOwner
    <3>2. ASSUME NEW q \in DmProcs, DmHolds(q, {"running", "links"}), r \in {"defaultolsr"} \X dm_proc[q].ifs
          PROVE  DmOwner(r)'
      <4>1. CASE q = p
        <5>1. r \in {"defaultolsr"} \X dm_gone' \/ r \in {"defaultolsr"} \X dm_proc'[p].ifs
          BY <1>1, <1>6, <3>2, <4>1
        <5> QED BY Zenon, <1>5, <2>1, <5>1 DEF DmOwner, DmOnly, DmSameCnf
      <4>2. CASE q # p
        BY Zenon, <1>5, <2>2, <3>2, <4>2 DEF DmOwner, DmHolds, DmOnly, DmSameCnf
      <4> QED BY Zenon, <4>1, <4>2
    <3>3. ASSUME NEW q \in DmProcs, DmHolds(q, {"running"} \cup DmShutting), r \in DmRuleTables \X {"all"}
          PROVE  DmOwner(r)'
      BY Zenon, <1>5, <2>1, <3>3 DEF DmOwner, DmOnly, DmSameCnf
    <3> QED BY Zenon, <2>3, <3>1, <3>2, <3>3 DEF DmOwner
  <2>4. ~dm_unclean /\ DmOwned
    BY Zenon, <1>3 DEF DmInv
  <2> QED BY Zenon, <2>1, <2>3, <2>4 DEF DmOwned
<1> QED
  BY Zenon, <1>8, <1>9, <1>11, <1>12, <1>13, <1>14 DEF DmInv

\* olsr_reconfigure: the parent shuts down, the child waits.
LEMMA ReconfigureStep ==
  ASSUME DmInv, NEW p \in DmProcs, olsr_reconfigure(p)
  PROVE  DmInv'
<1>1. PICK c \in DmProcs :
        /\ DmAt(c, "none") /\ \A q \in DmProcs : q < c => ~DmAt(q, "none")
        /\ dm_proc' = [dm_proc EXCEPT ![p].pc = "links",
                                      ![c] = [DmNewProc("sleeping") EXCEPT !.parent = p]]
  BY Zenon DEF olsr_reconfigure
<1>2. /\ dm_proc[p].pc \in {"running", "restore", "last"} /\ dm_proc[p].locked
      /\ dm_proc[c].pc = "none" /\ c # p
      /\ UNCHANGED <<dm_cfg, dm_kernel, dm_lock, dm_gone, dm_unclean>> /\ DmSameCnf
      /\ \A q \in DmProcs : q < c => dm_proc[q].pc # "none"
  BY Zenon, <1>1, SameCnf, Facts DEF olsr_reconfigure, DmHandles, DmAt, DmPlace, DmServing
<1> DEFINE child == [DmNewProc("sleeping") EXCEPT !.parent = p]
           parent == [dm_proc[p] EXCEPT !.pc = "links"]
<1>3. /\ child \in DmProcType /\ child.pc = "sleeping" /\ child.parent = p
      /\ ~child.over /\ ~child.locked /\ ~child.nopid /\ child.ifs = {}
  <2>1. p \in Int
    BY CnfTypes DEF DmInv, DmTypes
  <2>2. "sleeping" \in DmPcs
    BY Zenon DEF DmPcs, DmQuiet
  <2> DEFINE new == DmNewProc("sleeping")
  <2>3. /\ new \in DmProcType /\ new.pc = "sleeping"
        /\ new.over = FALSE /\ new.locked = FALSE /\ new.nopid = FALSE /\ new.ifs = {}
    BY Zenon, <2>2, NewProc
  <2> HIDE DEF new
  <2>4. ASSUME NEW n \in DmProcType
        PROVE  LET m == [n EXCEPT !.parent = p]
               IN /\ m \in DmProcType /\ m.parent = p /\ m.pc = n.pc
                  /\ m.over = n.over /\ m.locked = n.locked /\ m.nopid = n.nopid /\ m.ifs = n.ifs
    BY <2>1 DEF DmProcType
  <2> QED BY Zenon, <2>3, <2>4 DEF new
<1>4. /\ parent \in DmProcType /\ parent.pc = "links" /\ parent.saved = dm_proc[p].saved
      /\ parent.nic = dm_proc[p].nic /\ parent.ifs = dm_proc[p].ifs
      /\ parent.over = dm_proc[p].over /\ parent.locked = dm_proc[p].locked /\ parent.nopid = dm_proc[p].nopid
  BY Facts DEF DmProcType, DmPcs, DmShutting
<1>5. /\ dm_proc' \in [DmProcs -> DmProcType] /\ dm_proc'[p] = parent /\ dm_proc'[c] = child
      /\ \A q \in DmProcs : q # p /\ q # c => dm_proc'[q] = dm_proc[q]
  <2>1. dm_proc \in [DmProcs -> DmProcType]
    BY Zenon DEF DmInv, DmTypes
  <2> HIDE DEF child, parent
  <2>2. dm_proc' = [dm_proc EXCEPT ![p] = parent, ![c] = child]
    BY Zenon, <1>1 DEF child, parent
  <2> QED BY Zenon, <1>2, <1>3, <1>4, <2>1, <2>2
<1> HIDE DEF child, parent
<1>6. /\ dm_proc'[p].pc = "links" /\ dm_proc'[p].saved = dm_proc[p].saved
      /\ dm_proc'[p].nic = dm_proc[p].nic /\ dm_proc'[p].ifs = dm_proc[p].ifs
      /\ (dm_proc'[p].over <=> dm_proc[p].over) /\ dm_proc'[p].locked /\ dm_proc[p].locked
      /\ (dm_proc'[p].nopid <=> dm_proc[p].nopid)
      /\ dm_proc'[c].pc = "sleeping" /\ dm_proc'[c].parent = p
      /\ ~dm_proc'[c].over /\ ~dm_proc'[c].locked /\ ~dm_proc'[c].nopid /\ dm_proc'[c].ifs = {} /\ ~dm_proc[c].over
      /\ dm_lock = p /\ DmCnf' = DmCnf /\ DmProcs' = DmProcs
  BY Zenon, <1>2, <1>3, <1>4, <1>5, Facts DEF DmPlace, DmServing, DmSameCnf
<1>7. \A q \in DmProcs : (DmActive(q)' <=> DmActive(q)) /\ (dm_proc'[q].over <=> dm_proc[q].over)
  <2>1. (DmActive(p)' <=> DmActive(p)) /\ (DmActive(c)' <=> DmActive(c))
    BY Zenon, <1>2, <1>6 DEF DmActive, DmQuiet
  <2> QED BY Zenon, <1>5, <1>6, <2>1 DEF DmActive
<1>8. DmTypes'
  BY Zenon, <1>2, <1>5 DEF DmInv, DmTypes, DmSameCnf
<1>9. DmPlaces'
  <2>1. DmPlace(p)' /\ DmPlace(c)'
    BY <1>2, <1>6 DEF DmPlace, DmSetUp, DmServing, DmShutting
  <2>2. ASSUME NEW q \in DmProcs, q # p, q # c
        PROVE  DmPlace(q)'
    <3>1. dm_proc'[q] = dm_proc[q] /\ DmPlace(q) /\ dm_lock' = dm_lock
      BY Zenon, <1>2, <1>5, <2>2, Facts
    <3> QED BY Zenon, <1>6, <3>1 DEF DmPlace, init_olsr_plugin
  <2> QED BY Zenon, <1>6, <2>1, <2>2 DEF DmPlaces
<1>11. DmOver'
  <2>1. ASSUME NEW q \in DmProcs
        PROVE  DmWaits(q)'
    <3>1. CASE q \in {p, c}
      BY Zenon, <1>6, <3>1 DEF DmWaits
    <3>2. CASE q \notin {p, c}
      BY Zenon, <1>2, <1>5, <3>2, Facts DEF DmWaits
    <3> QED BY Zenon, <3>1, <3>2
  <2> QED BY Zenon, <1>6, <1>7, <2>1 DEF DmInv, DmOver
<1>12. DmInForce'
  <2> SUFFICES ASSUME DmInTurn', NEW q \in DmProcs,
                      ~dm_proc'[q].over, dm_proc'[q].pc \in DmSetUp \cup DmServing
               PROVE  /\ \A s \in DmTouched : dm_kernel.settings[s] = DmWanted(s)
                      /\ \A s \in DmIfSettings : s[1] \in dm_proc'[q].ifs => dm_kernel.nic[s] = 0
                      /\ dm_proc'[q].pc = "running" => DmRuleTables \X {"all"} \subseteq dm_kernel.rules
    BY Zenon, <1>2 DEF DmInForce, DmSameCnf
  <2>1. DmInTurn
    BY Zenon, <1>5, <1>6 DEF DmInTurn
  <2>2. q # p /\ q # c
    BY <1>6 DEF DmSetUp, DmServing
  <2> QED BY Zenon, <1>5, <2>1, <2>2 DEF DmInv, DmInForce
<1>13. DmBorrowed'
  <2> SUFFICES ASSUME ~dm_unclean', \A q \in DmProcs : ~dm_proc'[q].over
               PROVE  /\ (\A q \in DmProcs : ~DmActive(q)') => DmOriginal'
                      /\ \A q \in DmProcs : DmActive(q)' => DmSaves(q)'
    BY Zenon, <1>6 DEF DmBorrowed
  <2>1. DmActive(p) /\ DmActive(p)' /\ ~dm_unclean /\ \A q \in DmProcs : ~dm_proc[q].over
    BY Zenon, <1>2, <1>7 DEF DmActive, DmQuiet
  <2>2. DmSaves(p) /\ \A q \in DmProcs : DmActive(q)' => q = p
    BY Zenon, <1>7, <2>1 DEF DmInv, DmBorrowed, DmOver
  <2>3. DmSaves(p)'
    BY <1>2, <1>6, <2>2 DEF DmSaves, DmSameCnf
  <2> QED BY Zenon, <2>1, <2>2, <2>3
<1>14. DmOwned'
  <2>1. ASSUME NEW q \in DmProcs, DmHolds(q, {"running", "links"})
        PROVE  DmHolds(q, {"running", "links"})' /\ dm_proc'[q].ifs = dm_proc[q].ifs
    BY Zenon, <1>2, <1>5, <1>6, <2>1 DEF DmHolds
  <2>2. ASSUME NEW q \in DmProcs, DmHolds(q, {"running"} \cup DmShutting)
        PROVE  DmHolds(q, {"running"} \cup DmShutting)'
    <3>1. q # c
      BY Zenon, <1>2, <2>2 DEF DmHolds, DmShutting
    <3> QED BY Zenon, <1>5, <1>6, <2>2, <3>1 DEF DmHolds, DmShutting
  <2>3. ASSUME NEW r, DmOwner(r)
        PROVE  DmOwner(r)'
    BY Zenon, <1>2, <1>6, <2>1, <2>2, <2>3 DEF DmOwner
  <2> QED BY Zenon, <1>2, <1>6, <2>1, <2>3 DEF DmInv, DmOwned
<1> QED
  BY Zenon, <1>8, <1>9, <1>11, <1>12, <1>13, <1>14 DEF DmInv

\* While one process shuts down no other one has its settings in force.
LEMMA Alone ==
  ASSUME DmInv, NEW p \in DmProcs, dm_proc[p].pc \in DmShutting
  PROVE  /\ DmActive(p)
         /\ (DmInTurn \/ \A q \in DmProcs : ~dm_proc[q].over) =>
              \A q \in DmProcs : (DmActive(q) /\ ~dm_proc[q].over) => q = p
<1>1. DmActive(p)
  BY Zenon DEF DmActive, DmQuiet, DmShutting
<1>2. dm_proc[p].over => dm_proc[p].locked \/ dm_proc[p].nopid
  BY Facts DEF DmWaits, DmSetUp, DmShutting
<1>3. ASSUME DmInTurn \/ \A q \in DmProcs : ~dm_proc[q].over
      PROVE  ~dm_proc[p].over
  BY Zenon, <1>2, <1>3 DEF DmInTurn
<1> QED
  BY Zenon, <1>1, <1>3 DEF DmInv, DmOver

\* A step of olsr_shutdown remembers that the plugins are closed, and else what the
\* process remembered.
LEMMA GoClosed ==
  ASSUME DmInv, NEW p \in DmProcs, NEW pc \in DmPcs,
         DmGo(p, [dm_proc[p] EXCEPT !.closed = TRUE], pc), dm_cfg' = dm_cfg
  PROVE  DmOnly(p) /\ DmMoved(p, dm_proc[p], pc)
<1> DEFINE proc == [dm_proc[p] EXCEPT !.closed = TRUE]
<1>1. /\ proc \in DmProcType /\ proc.saved = dm_proc[p].saved /\ proc.nic = dm_proc[p].nic
      /\ proc.ifs = dm_proc[p].ifs /\ proc.plugins = dm_proc[p].plugins
      /\ proc.parent = dm_proc[p].parent /\ proc.over = dm_proc[p].over
      /\ proc.locked = dm_proc[p].locked /\ proc.nopid = dm_proc[p].nopid
  BY Zenon, Facts DEF DmProcType
<1>2. DmGo(p, proc, pc)
  BY Zenon
<1> HIDE DEF proc
<1>3. DmOnly(p) /\ DmMoved(p, proc, pc)
  BY Zenon, <1>1, <1>2, Facts, GoOnly
<1> QED
  BY Zenon, <1>1, <1>3 DEF DmMoved

\* What a step of olsr_shutdown does to the kernel is right when it is so for the rules
\* and the settings.
LEMMA ShutdownKeeps ==
  ASSUME DmInv, NEW p \in DmProcs, NEW from \in DmShutting, NEW to \in {"restore", "last", "ended"},
         DmAt(p, from), DmGo(p, [dm_proc[p] EXCEPT !.closed = TRUE], to), UNCHANGED <<dm_cfg, dm_gone, dm_unclean>>,
         dm_kernel' \in DmKernelType, dm_lock' \in Int,
         \A q \in DmProcs : (q # p /\ dm_lock = q) => dm_lock' = q,
         to # "ended" => dm_lock' = dm_lock,
         ~dm_unclean' => /\ DmOwned'
                         /\ ((\A q \in DmProcs : ~dm_proc[q].over) /\ DmSaves(p)) =>
                              IF to = "ended" THEN DmOriginal' ELSE DmSaves(p)'
  PROVE  DmInv'
<1>1. /\ DmOnly(p) /\ DmMoved(p, dm_proc[p], to) /\ dm_proc[p].pc = from
      /\ (dm_unclean => dm_unclean') /\ dm_unclean' = dm_unclean /\ dm_gone' = dm_gone
  <2>1. to \in DmPcs
    BY Zenon DEF DmPcs, DmShutting, DmQuiet
  <2> QED BY Zenon, <2>1, GoClosed DEF DmAt
<1>2. /\ dm_proc'[p].pc = to /\ dm_proc'[p].locked = dm_proc[p].locked
      /\ dm_proc'[p].nopid = dm_proc[p].nopid
      /\ dm_proc'[p].over = dm_proc[p].over /\ DmCnf' = DmCnf
  BY Zenon, <1>1 DEF DmMoved, DmOnly, DmSameCnf
<1>3. /\ \A q \in DmProcs : q # p => dm_proc'[q] = dm_proc[q]
      /\ \A q \in DmProcs : (dm_proc'[q].over <=> dm_proc[q].over) /\ (dm_proc'[q].locked <=> dm_proc[q].locked)
                             /\ (dm_proc'[q].nopid <=> dm_proc[q].nopid)
  BY Zenon, <1>1, <1>2 DEF DmOnly
<1>4. DmTypes'
  BY Zenon, <1>1, TypesKept DEF DmInv, DmTypes
<1>5. DmPlaces'
  <2>1. DmPlace(p)'
    BY <1>1, <1>2, Facts DEF DmPlace, DmSetUp, DmServing, DmShutting
  <2> QED BY Zenon, <1>1, <2>1, PlacesKept
<1>7. DmOver'
  <2>1. DmWaits(p)' /\ DmActive(p)
    BY <1>1, <1>2, Facts, Alone DEF DmWaits, DmSetUp, DmShutting
  <2> QED BY Zenon, <1>1, <1>2, <2>1, OverKept
<1>8. DmInForce'
  <2> SUFFICES ASSUME DmInTurn', NEW q \in DmProcs,
                      ~dm_proc'[q].over, dm_proc'[q].pc \in DmSetUp \cup DmServing
               PROVE  FALSE
    BY Zenon, <1>1 DEF DmInForce, DmOnly, DmSameCnf
  <2>1. DmInTurn
    BY Zenon, <1>1, <1>3 DEF DmInTurn, DmOnly, DmSameCnf
  <2>2. q # p
    BY Zenon, <1>2 DEF DmSetUp, DmServing
  <2>3. DmActive(q) /\ ~dm_proc[q].over
    BY Zenon, <1>3, <2>2 DEF DmActive, DmQuiet, DmSetUp, DmServing
  <2> QED BY Zenon, <1>1, <2>1, <2>2, <2>3, Alone
<1>9. DmBorrowed'
  <2> SUFFICES ASSUME ~dm_unclean', \A q \in DmProcs : ~dm_proc'[q].over
               PROVE  /\ (\A q \in DmProcs : ~DmActive(q)') => DmOriginal'
                      /\ \A q \in DmProcs : DmActive(q)' => DmSaves(q)'
    BY Zenon, <1>1 DEF DmBorrowed, DmOnly, DmSameCnf
  <2>1. ~dm_unclean /\ \A q \in DmProcs : ~dm_proc[q].over
    BY Zenon, <1>1, <1>3
  <2>2. DmActive(p) /\ \A q \in DmProcs : q # p => ~DmActive(q)
    BY Zenon, <1>1, <2>1, Alone
  <2>3. DmSaves(p)
    BY Zenon, <2>1, <2>2 DEF DmInv, DmBorrowed
  <2>4. \A q \in DmProcs : q # p => ~DmActive(q)'
    BY Zenon, <1>3, <2>2 DEF DmActive
  <2>5. DmActive(p)' <=> to # "ended"
    BY Zenon, <1>2 DEF DmActive, DmQuiet
  <2> QED BY Zenon, <2>1, <2>3, <2>4, <2>5
<1>10. DmOwned'
  BY Zenon DEF DmOwned
<1> QED
  BY Zenon, <1>4, <1>5, <1>7, <1>8, <1>9, <1>10 DEF DmInv

\* Owners of a rule that are not the process that shuts down stay.
LEMMA OtherOwners ==
  ASSUME NEW p \in DmProcs, DmOnly(p), dm_gone' = dm_gone, NEW r, DmOwner(r),
         (r \in {"defaultolsr"} \X dm_proc[p].ifs /\ DmHolds(p, {"running", "links"})) => DmOwner(r)',
         (r \in DmRuleTables \X {"all"} /\ DmHolds(p, {"running"} \cup DmShutting)) => DmOwner(r)'
  PROVE  DmOwner(r)'
<1>1. \A q \in DmProcs : q # p => dm_proc'[q] = dm_proc[q]
  BY Zenon DEF DmOnly
<1>2. ASSUME NEW q \in DmProcs, DmHolds(q, {"running", "links"}), r \in {"defaultolsr"} \X dm_proc[q].ifs
      PROVE  DmOwner(r)'
  BY Zenon, <1>1, <1>2 DEF DmOwner, DmHolds, DmOnly, DmSameCnf
<1>3. ASSUME NEW q \in DmProcs, DmHolds(q, {"running"} \cup DmShutting), r \in DmRuleTables \X {"all"}
      PROVE  DmOwner(r)'
  BY Zenon, <1>1, <1>3 DEF DmOwner, DmHolds, DmOnly, DmSameCnf
<1> QED
  BY Zenon, <1>2, <1>3 DEF DmOwner

\* What olsr_shutdown takes away of the links.
LEMMA LinksKernel ==
  ASSUME DmInv, NEW p \in DmProcs, dm_kernel' = DmShutdownLinks(dm_proc[p], dm_kernel)
  PROVE  /\ dm_kernel' \in DmKernelType /\ DmSameSettings
         /\ dm_kernel'.rules = dm_kernel.rules \ ({"defaultolsr"} \X dm_proc[p].ifs)
         /\ dm_kernel'.lo = (dm_kernel.lo /\ ~DmCnf.src_ip_routes)
<1> DEFINE rules == dm_kernel.rules \ ({"defaultolsr"} \X dm_proc[p].ifs)
           lo == dm_kernel.lo /\ ~DmCnf.src_ip_routes
<1>1. dm_kernel \in DmKernelType
  BY Zenon DEF DmInv, DmTypes
<1>2. rules \in SUBSET ((DmRuleTables \X {"all"}) \cup ({"defaultolsr"} \X DmCnf.interfaces))
  BY <1>1 DEF DmKernelType
<1>3. lo \in BOOLEAN /\ dm_kernel' = [dm_kernel EXCEPT !.lo = lo, !.rules = rules]
  BY Zenon DEF DmShutdownLinks
<1> HIDE DEF rules, lo
<1>4. /\ dm_kernel' \in DmKernelType /\ DmSameSettings
      /\ dm_kernel'.rules = rules /\ dm_kernel'.lo = lo
  BY Zenon, <1>1, <1>2, <1>3 DEF DmKernelType, DmSameSettings
<1> QED
  BY Zenon, <1>4 DEF rules, lo

\* The first half of olsr_shutdown.
LEMMA LinksStep ==
  ASSUME DmInv, NEW p \in DmProcs,
         DmShutdownStep(p, "links", DmShutdownLinks(dm_proc[p], dm_kernel), "restore"), UNCHANGED dm_lock
  PROVE  DmInv'
<1>1. /\ DmAt(p, "links") /\ DmGo(p, [dm_proc[p] EXCEPT !.closed = TRUE], "restore")
      /\ UNCHANGED <<dm_cfg, dm_gone, dm_unclean>>
      /\ dm_kernel' = DmShutdownLinks(dm_proc[p], dm_kernel)
      /\ "links" \in DmShutting /\ "restore" \in {"restore", "last", "ended"} /\ "restore" \in DmPcs
  BY Zenon DEF DmShutdownStep, DmShutting, DmPcs
<1>2. /\ dm_kernel' \in DmKernelType /\ DmSameSettings
      /\ dm_kernel'.rules = dm_kernel.rules \ ({"defaultolsr"} \X dm_proc[p].ifs)
      /\ dm_kernel'.lo = (dm_kernel.lo /\ ~DmCnf.src_ip_routes)
  BY Zenon, <1>1, LinksKernel
<1>3. DmOnly(p) /\ DmMoved(p, dm_proc[p], "restore")
  BY Zenon, <1>1, GoClosed
<1>4. /\ dm_proc'[p].pc = "restore" /\ dm_proc'[p].locked = dm_proc[p].locked
      /\ dm_proc'[p].ifs = dm_proc[p].ifs /\ dm_proc'[p].saved = dm_proc[p].saved
      /\ dm_proc'[p].nic = dm_proc[p].nic
  BY Zenon, <1>3 DEF DmMoved
<1>5. ASSUME ~dm_unclean' PROVE DmOwned'
  <2>1. /\ \A r \in dm_kernel.rules : DmOwner(r)
        /\ dm_kernel.lo => DmCnf.src_ip_routes
    BY Zenon, <1>1, <1>5 DEF DmInv, DmOwned
  <2>2. ~dm_kernel'.lo
    BY Zenon, <1>2, <2>1
  <2>3. ASSUME NEW r \in dm_kernel'.rules PROVE DmOwner(r)'
    <3>1. DmOwner(r) /\ r \notin {"defaultolsr"} \X dm_proc[p].ifs
      BY Zenon, <1>2, <2>1, <2>3
    <3>2. DmHolds(p, {"running"} \cup DmShutting) => DmHolds(p, {"running"} \cup DmShutting)'
      BY Zenon, <1>4 DEF DmHolds, DmShutting
    <3>3. (r \in DmRuleTables \X {"all"} /\ DmHolds(p, {"running"} \cup DmShutting)) => DmOwner(r)'
      BY Zenon, <1>3, <3>2 DEF DmOwner, DmOnly, DmSameCnf
    <3> QED BY Zenon, <1>1, <1>3, <3>1, <3>3, OtherOwners
  <2> QED BY Zenon, <2>2, <2>3 DEF DmOwned
<1>6. ASSUME DmSaves(p) PROVE DmSaves(p)'
  BY <1>1, <1>2, <1>3, <1>4, <1>6 DEF DmSaves, DmOnly, DmSameCnf, DmSameSettings
<1>7. dm_lock' \in Int /\ dm_lock' = dm_lock
  BY Zenon DEF DmInv, DmTypes
<1> QED
  BY Zenon, <1>1, <1>2, <1>5, <1>6, <1>7, ShutdownKeeps

\* Plugins closed a second time end the process.
LEMMA CloseStep ==
  ASSUME DmInv, NEW p \in DmProcs, olsr_close_plugins(p)
  PROVE  DmInv'
<1>1. /\ dm_proc[p].pc = "links" /\ DmDie(p, dm_proc[p]) /\ UNCHANGED <<dm_cfg, dm_gone>>
      /\ dm_kernel' = DmShutdownLinks(dm_proc[p], dm_kernel)
  BY Zenon DEF olsr_close_plugins, DmAt
<1>2. dm_kernel' \in DmKernelType /\ DmSameSettings
  BY Zenon, <1>1, LinksKernel
<1>3. DmOnly(p) /\ DmMoved(p, dm_proc[p], "ended")
  BY Zenon, <1>1, Facts, GoOnly DEF DmDie, DmPcs, DmQuiet
<1>4. /\ dm_unclean' = TRUE /\ dm_gone' = dm_gone
      /\ dm_lock' = IF dm_lock = p THEN 0 ELSE dm_lock
  BY Zenon, <1>1 DEF DmDie, DmUnlock
<1>5. /\ dm_proc'[p].pc = "ended" /\ dm_proc'[p].over = dm_proc[p].over
      /\ dm_proc'[p].locked = dm_proc[p].locked /\ dm_proc'[p].nopid = dm_proc[p].nopid
  BY Zenon, <1>3 DEF DmMoved
<1>6. DmTypes'
  <2>1. dm_lock' \in Int /\ dm_gone' \subseteq DmCnf.interfaces
    BY <1>4 DEF DmInv, DmTypes
  <2> QED BY Zenon, <1>2, <1>3, <1>4, <2>1, TypesKept
<1>7. DmPlaces'
  <2>1. DmPlace(p)'
    BY Zenon, <1>5 DEF DmPlace, DmSetUp, DmServing, DmShutting
  <2> QED BY Zenon, <1>3, <1>4, <2>1, PlacesKept
<1>8. DmOver'
  <2>1. DmWaits(p)' /\ ~DmActive(p)'
    BY Zenon, <1>4, <1>5 DEF DmWaits, DmActive, DmQuiet
  <2> QED BY Zenon, <1>3, <1>4, <2>1, OverKept
<1>9. DmInForce'
  <2>1. dm_proc'[p].pc \notin DmSetUp \cup DmServing
    BY Zenon, <1>5 DEF DmSetUp, DmServing
  <2>2. DmRuleTables \X {"all"} \subseteq dm_kernel.rules => DmRuleTables \X {"all"} \subseteq dm_kernel'.rules
    <3>1. dm_kernel'.rules = dm_kernel.rules \ ({"defaultolsr"} \X dm_proc[p].ifs)
      BY Zenon, <1>1, LinksKernel
    <3> QED BY <3>1 DEF DmRuleTables
  <2> QED BY Zenon, <1>2, <1>3, <1>5, <2>1, <2>2, InForceKept
<1>10. DmBorrowed' /\ DmOwned'
  BY Zenon, <1>4 DEF DmBorrowed, DmOwned
<1> QED
  BY Zenon, <1>6, <1>7, <1>8, <1>9, <1>10 DEF DmInv

\* The second half: what was saved comes back.
LEMMA RestoreStep ==
  ASSUME DmInv, NEW p \in DmProcs,
         DmShutdownStep(p, "restore", net_os_restore_ifoptions(dm_proc[p], dm_kernel), "last"), UNCHANGED dm_lock
  PROVE  DmInv'
<1> DEFINE settings == [s \in DmGlobal |->
                          IF s \in DmTouched /\ (s = "forward" => DmCnf.set_ip_forward)
                          THEN restoreProc(dm_proc[p].saved[s], DmWanted(s), dm_kernel.settings[s])
                          ELSE dm_kernel.settings[s]]
           nic == [s \in DmIfSettings |->
                     IF s[1] \in dm_proc[p].ifs THEN restoreProc(dm_proc[p].nic[s], 0, dm_kernel.nic[s])
                     ELSE dm_kernel.nic[s]]
<1>1. /\ DmAt(p, "restore") /\ DmGo(p, [dm_proc[p] EXCEPT !.closed = TRUE], "last")
      /\ UNCHANGED <<dm_cfg, dm_gone, dm_unclean>>
      /\ dm_kernel' = net_os_restore_ifoptions(dm_proc[p], dm_kernel)
      /\ "restore" \in DmShutting /\ "last" \in {"restore", "last", "ended"} /\ "last" \in DmPcs
  BY Zenon DEF DmShutdownStep, DmShutting, DmPcs
<1>2. /\ dm_kernel \in DmKernelType
      /\ dm_kernel.settings \in [DmGlobal -> Int] /\ dm_kernel.nic \in [DmIfSettings -> Int]
      /\ dm_proc[p].saved \in [DmGlobal -> Int] /\ dm_proc[p].nic \in [DmIfSettings -> Int]
  BY Facts DEF DmInv, DmTypes, DmKernelType, DmProcType
<1>3. \A a, b, n \in Int : restoreProc(a, b, n) \in Int
  BY DEF restoreProc, writeToProc
<1>4. settings \in [DmGlobal -> Int] /\ nic \in [DmIfSettings -> Int]
  <2>1. \A s \in DmGlobal : DmWanted(s) \in Int
    BY DEF DmWanted
  <2>2. ASSUME NEW s \in DmGlobal PROVE settings[s] \in Int
    <3>1. /\ dm_proc[p].saved[s] \in Int /\ dm_kernel.settings[s] \in Int
      BY <1>2
    <3>2. restoreProc(dm_proc[p].saved[s], DmWanted(s), dm_kernel.settings[s]) \in Int
      BY Zenon, <1>3, <2>1, <3>1
    <3> QED BY Zenon, <3>1, <3>2
  <2>3. ASSUME NEW s \in DmIfSettings PROVE nic[s] \in Int
    <3>1. /\ dm_proc[p].nic[s] \in Int /\ dm_kernel.nic[s] \in Int /\ 0 \in Int
      BY <1>2
    <3>2. restoreProc(dm_proc[p].nic[s], 0, dm_kernel.nic[s]) \in Int
      BY Zenon, <1>3, <3>1
    <3> QED BY Zenon, <3>1, <3>2
  <2> QED BY Zenon, <2>2, <2>3
<1>5. dm_kernel' = [dm_kernel EXCEPT !.settings = settings, !.nic = nic]
  <2>1. DOMAIN dm_kernel.settings = DmGlobal /\ DOMAIN dm_kernel.nic = DmIfSettings
    BY <1>2
  <2> QED BY Zenon, <1>1, <2>1 DEF net_os_restore_ifoptions
<1>6. \A s \in DmGlobal : settings[s] = IF s \in DmTouched /\ (s = "forward" => DmCnf.set_ip_forward)
                                          THEN restoreProc(dm_proc[p].saved[s], DmWanted(s), dm_kernel.settings[s])
                                          ELSE dm_kernel.settings[s]
  BY Zenon
<1>7. \A s \in DmIfSettings : nic[s] = IF s[1] \in dm_proc[p].ifs
                                         THEN restoreProc(dm_proc[p].nic[s], 0, dm_kernel.nic[s])
                                         ELSE dm_kernel.nic[s]
  BY Zenon
<1> HIDE DEF settings, nic
<1>8. dm_kernel' \in DmKernelType /\ dm_kernel'.settings = settings /\ dm_kernel'.nic = nic /\ DmSameRules
  BY Zenon, <1>2, <1>4, <1>5 DEF DmKernelType, DmSameRules
<1>9. DmOnly(p) /\ DmMoved(p, dm_proc[p], "last")
  BY Zenon, <1>1, GoClosed
<1>10. /\ dm_proc'[p].pc = "last" /\ dm_proc'[p].locked = dm_proc[p].locked
       /\ dm_proc'[p].ifs = dm_proc[p].ifs /\ dm_proc'[p].saved = dm_proc[p].saved
       /\ dm_proc'[p].nic = dm_proc[p].nic
  BY Zenon, <1>9 DEF DmMoved
<1>11. DmOwned'
  <2>1. dm_proc[p].pc \notin {"running", "links"}
    BY Zenon, <1>1 DEF DmAt
  <2>2. dm_proc'[p].pc \in {"running"} \cup DmShutting
    BY Zenon, <1>10 DEF DmShutting
  <2>3. dm_gone' = dm_gone /\ (dm_unclean => dm_unclean')
    BY Zenon, <1>1
  <2> QED BY Zenon, <1>8, <1>9, <1>10, <2>1, <2>2, <2>3, OwnedKept
<1>12. ASSUME DmSaves(p) PROVE DmSaves(p)'
  <2>1. DmCnf.settings \in [DmGlobal -> {0, 1}]
    BY Zenon, CnfTypes DEF DmInv, DmTypes
  <2>2. ASSUME NEW s \in DmGlobal
        PROVE  settings[s] = DmCnf.settings[s]
    <3>1. CASE s \in DmTouched /\ (s = "forward" => DmCnf.set_ip_forward)
      <4>1. /\ dm_proc[p].saved[s] = DmCnf.settings[s]
            /\ dm_kernel.settings[s] \in {DmCnf.settings[s], DmWanted(s)}
        BY Zenon, <1>12, <3>1 DEF DmSaves
      <4>2. settings[s] = restoreProc(DmCnf.settings[s], DmWanted(s), dm_kernel.settings[s])
        BY Zenon, <1>6, <3>1, <4>1
      <4>3. DmCnf.settings[s] # -1
        BY <2>1
      <4> QED BY Zenon, <4>1, <4>2, <4>3 DEF restoreProc, writeToProc
    <3>2. CASE ~(s \in DmTouched /\ (s = "forward" => DmCnf.set_ip_forward))
      BY Zenon, <1>6, <1>12, <3>2 DEF DmSaves
    <3> QED BY Zenon, <3>1, <3>2
  <2>3. settings = DmCnf.settings
    BY <1>4, <2>1, <2>2
  <2>4. ASSUME NEW s \in DmIfSettings, s[1] \notin dm_gone
        PROVE  /\ s[1] \in dm_proc[p].ifs => dm_proc[p].nic[s] = 1
               /\ nic[s] = 1
    <3>1. IF s[1] \in dm_proc[p].ifs THEN dm_proc[p].nic[s] = 1 ELSE dm_kernel.nic[s] = 1
      BY Zenon, <1>12, <2>4 DEF DmSaves
    <3> QED BY <1>7, <3>1 DEF restoreProc, writeToProc
  <2>5. DmOriginal'
    BY Zenon, <1>1, <1>8, <1>9, <2>3, <2>4 DEF DmOriginal, DmOnly, DmSameCnf
  <2>6. \A s \in DmGlobal :
          IF s \in DmTouched /\ (s = "forward" => DmCnf.set_ip_forward)
          THEN /\ dm_proc'[p].saved[s] = DmCnf.settings[s]
               /\ dm_kernel'.settings[s] \in {DmCnf.settings[s], DmWanted(s)}
          ELSE dm_kernel'.settings[s] = DmCnf.settings[s]
    BY Zenon, <1>8, <1>10, <1>12, <2>3 DEF DmSaves
  <2>7. \A s \in DmIfSettings : s[1] \notin dm_gone' =>
          IF s[1] \in dm_proc'[p].ifs THEN dm_proc'[p].nic[s] = 1 ELSE dm_kernel'.nic[s] = 1
    BY Zenon, <1>1, <1>8, <1>10, <2>4
  <2> QED BY Zenon, <1>9, <2>5, <2>6, <2>7 DEF DmSaves, DmOnly, DmSameCnf
<1>13. dm_lock' \in Int /\ dm_lock' = dm_lock
  BY Zenon DEF DmInv, DmTypes
<1> QED
  BY Zenon, <1>1, <1>8, <1>11, <1>12, <1>13, ShutdownKeeps

\* The end of olsr_shutdown: the rules, and the lock.
LEMMA LastStep ==
  ASSUME DmInv, NEW p \in DmProcs,
         DmShutdownStep(p, "last", DmShutdownRules(dm_kernel), "ended"), DmUnlock(p)
  PROVE  DmInv'
<1>1. /\ DmAt(p, "last") /\ DmGo(p, [dm_proc[p] EXCEPT !.closed = TRUE], "ended")
      /\ UNCHANGED <<dm_cfg, dm_gone, dm_unclean>>
      /\ dm_kernel' = DmShutdownRules(dm_kernel)
      /\ "last" \in DmShutting /\ "ended" \in {"restore", "last", "ended"} /\ "ended" \in DmPcs
  BY Zenon DEF DmShutdownStep, DmShutting, DmPcs, DmQuiet
<1>2. /\ dm_kernel' \in DmKernelType /\ DmSameSettings /\ dm_kernel'.lo = dm_kernel.lo
      /\ dm_kernel'.rules = dm_kernel.rules \ (DmRuleTables \X {"all"})
  <2> DEFINE rules == dm_kernel.rules \ (DmRuleTables \X {"all"})
  <2>1. dm_kernel \in DmKernelType
    BY Zenon DEF DmInv, DmTypes
  <2>2. rules \in SUBSET ((DmRuleTables \X {"all"}) \cup ({"defaultolsr"} \X DmCnf.interfaces))
    BY <2>1 DEF DmKernelType
  <2>3. dm_kernel' = [dm_kernel EXCEPT !.rules = rules]
    BY Zenon, <1>1 DEF DmShutdownRules
  <2> HIDE DEF rules
  <2>4. /\ dm_kernel' \in DmKernelType /\ DmSameSettings
        /\ dm_kernel'.rules = rules /\ dm_kernel'.lo = dm_kernel.lo
    BY Zenon, <2>1, <2>2, <2>3 DEF DmKernelType, DmSameSettings
  <2> QED BY Zenon, <2>4 DEF rules
<1>3. DmOnly(p)
  BY Zenon, <1>1, GoClosed
<1>4. ~DmHolds(p, {"running", "links"})
  BY Zenon, <1>1 DEF DmHolds, DmAt
<1>5. ASSUME ~dm_unclean' PROVE DmOwned'
  <2>1. /\ \A r \in dm_kernel.rules : DmOwner(r)
        /\ dm_kernel.lo => /\ DmCnf.src_ip_routes
                           /\ \E q \in DmProcs : DmHolds(q, {"running", "links"})
    BY Zenon, <1>1, <1>5 DEF DmInv, DmOwned
  <2>2. dm_kernel'.lo => /\ DmCnf.src_ip_routes
                         /\ \E q \in DmProcs : DmHolds(q, {"running", "links"})'
    BY Zenon, <1>2, <1>3, <1>4, <2>1 DEF DmHolds, DmOnly
  <2>3. ASSUME NEW r \in dm_kernel'.rules PROVE DmOwner(r)'
    <3>1. DmOwner(r) /\ r \notin DmRuleTables \X {"all"}
      BY Zenon, <1>2, <2>1, <2>3
    <3> QED BY Zenon, <1>1, <1>3, <1>4, <3>1, OtherOwners
  <2> QED BY Zenon, <1>3, <2>2, <2>3 DEF DmOwned, DmOnly, DmSameCnf
<1>6. ASSUME DmSaves(p) PROVE DmOriginal'
  BY Zenon, <1>1, <1>2, <1>3, <1>6 DEF DmSaves, DmAt, DmOriginal, DmOnly, DmSameCnf, DmSameSettings
<1>7. dm_lock' \in Int /\ \A q \in DmProcs : (q # p /\ dm_lock = q) => dm_lock' = q
  BY DEF DmUnlock, DmInv, DmTypes
<1> QED
  BY Zenon, <1>1, <1>2, <1>5, <1>6, <1>7, ShutdownKeeps
----------------------------------------------------------------------------
(* DmInv holds of the first state, of every step, and implies DmClean. *)

LEMMA DmInitInv ==
  ASSUME DmInit PROVE DmInv
<1>1. PICK c \in 1..Len(DM_CONFIGS) : DmInitFor(c)
  BY Zenon DEF DmInit
<1>2. /\ dm_cfg \in 1..Len(DM_CONFIGS) /\ dm_proc = [p \in DmProcs |-> DmNewProc("none")]
      /\ dm_kernel = [settings |-> DmCnf.settings, nic |-> [s \in DmIfSettings |-> 1],
                      rules |-> {}, lo |-> FALSE]
      /\ dm_lock = 0 /\ dm_gone = {} /\ dm_unclean = FALSE
  BY Zenon, <1>1 DEF DmInitFor
<1>3. \A p \in DmProcs : /\ dm_proc[p] \in DmProcType /\ dm_proc[p].pc = "none"
                         /\ ~dm_proc[p].over /\ ~dm_proc[p].locked /\ ~dm_proc[p].nopid
                         /\ dm_proc[p].ifs = {} /\ ~DmActive(p)
  <2>1. "none" \in DmPcs
    BY Zenon DEF DmPcs, DmQuiet
  <2> QED BY Zenon, <1>2, <2>1, NewProc DEF DmActive, DmQuiet
<1>4. /\ dm_kernel.settings = DmCnf.settings /\ dm_kernel.nic = [s \in DmIfSettings |-> 1]
      /\ dm_kernel.rules = {} /\ dm_kernel.lo = FALSE
  BY Zenon, <1>2
<1>5. DmTypes
  <2>1. dm_kernel \in DmKernelType
    <3>1. DmCnf.settings \in [DmGlobal -> Int] /\ [s \in DmIfSettings |-> 1] \in [DmIfSettings -> Int]
      BY <1>2, CnfTypes
    <3>2. {} \in SUBSET ((DmRuleTables \X {"all"}) \cup ({"defaultolsr"} \X DmCnf.interfaces))
      BY Zenon
    <3> QED BY Zenon, <1>2, <3>1, <3>2 DEF DmKernelType
  <2>2. dm_proc \in [DmProcs -> DmProcType]
    BY Zenon, <1>2, <1>3
  <2>3. dm_lock \in Int
    BY <1>2
  <2> QED BY Zenon, <1>2, <2>1, <2>2, <2>3 DEF DmTypes
<1>6. DmPlaces
  BY Zenon, <1>3 DEF DmPlaces, DmPlace, DmSetUp, DmServing, DmShutting
<1>8. DmOver
  BY Zenon, <1>3 DEF DmOver, DmWaits
<1>9. DmInForce
  BY Zenon, <1>3 DEF DmInForce, DmSetUp, DmServing
<1>10. DmBorrowed
  BY Zenon, <1>3, <1>4 DEF DmBorrowed, DmOriginal
<1>11. DmOwned
  BY Zenon, <1>4 DEF DmOwned
<1> QED
  BY Zenon, <1>5, <1>6, <1>8, <1>9, <1>10, <1>11 DEF DmInv

LEMMA DmStutterInv ==
  ASSUME DmInv, UNCHANGED dm_vars PROVE DmInv'
<1> USE DEF dm_vars
<1>1. DmCnf' = DmCnf /\ DmProcs' = DmProcs
  BY Zenon, SameCnf DEF DmSameCnf
<1>2. DmTypes'
  BY Zenon, SameCnf DEF DmInv, DmTypes, DmSameCnf
<1>3. DmPlaces' /\ DmOver'
  <2>1. dm_proc' = dm_proc /\ dm_lock' = dm_lock /\ dm_unclean' = dm_unclean
    BY Zenon
  <2>2. DmPlaces'
    BY Zenon, <1>1, <2>1 DEF DmInv, DmPlaces, DmPlace, init_olsr_plugin
  <2>4. DmOver'
    BY <1>1, <2>1 DEF DmInv, DmOver, DmActive, DmWaits
  <2> QED BY Zenon, <2>2, <2>4
<1>4. DmInForce'
  BY SameCnf DEF DmInv, DmInForce, DmInTurn, DmSameCnf
<1>5. DmBorrowed'
  BY SameCnf DEF DmInv, DmBorrowed, DmActive, DmOriginal, DmSaves, DmSameCnf
<1>6. DmOwned'
  BY SameCnf DEF DmInv, DmOwned, DmOwner, DmHolds, DmSameCnf
<1> QED
  BY Zenon, <1>2, <1>3, <1>4, <1>5, <1>6 DEF DmInv

LEMMA DmNextInv ==
  ASSUME DmInv, [DmNext]_dm_vars PROVE DmInv'
<1>1. CASE UNCHANGED dm_vars
  BY Zenon, <1>1, DmStutterInv
<1>2. CASE DmEnd
  BY Zenon, <1>2, DmStutterInv DEF DmEnd
<1>3. ASSUME NEW p \in DmProcs,
             \/ DmStart(p) \/ DmExec(p) \/ DmOptions(p) \/ DmInterfaces(p) \/ writePidFile(p)
             \/ olsr_create_lock_file(p) \/ DmPlugins(p) \/ DmRun(p)
             \/ DmLoseInterface(p) \/ DmFindInterface(p)
             \/ DmTerminate(p) \/ olsr_reconfigure(p) \/ DmKill(p) \/ olsr_shutdown(p)
      PROVE  DmInv'
  <2>1. CASE DmStart(p) BY Zenon, <2>1, StartStep
  <2>2. CASE DmExec(p) BY Zenon, <2>2, ExecStep
  <2>3. CASE DmOptions(p) BY Zenon, <2>3, OptionsStep
  <2>4. CASE DmInterfaces(p) BY Zenon, <2>4, InterfacesStep
  <2>5. CASE writePidFile(p) BY Zenon, <2>5, PidStep
  <2>6. CASE olsr_create_lock_file(p) BY Zenon, <2>6, LockStep
  <2>7. CASE DmPlugins(p) BY Zenon, <2>7, PluginsStep
  <2>8. CASE DmRun(p) BY Zenon, <2>8, RunStep
  <2>9. CASE DmLoseInterface(p) BY Zenon, <2>9, LoseInterfaceStep
  <2>10. CASE DmFindInterface(p) BY Zenon, <2>10, FindInterfaceStep
  <2>11. CASE DmTerminate(p) BY Zenon, <2>11, TerminateStep
  <2>12. CASE olsr_reconfigure(p) BY Zenon, <2>12, ReconfigureStep
  <2>13. CASE DmKill(p)
    <3>1. /\ DmDie(p, dm_proc[p]) /\ dm_proc[p].pc \notin {"none", "sleeping", "ended"}
          /\ UNCHANGED <<dm_cfg, dm_kernel, dm_gone>>
      BY Zenon, <2>13 DEF DmKill
    <3> QED BY Zenon, <3>1, Facts, DieStep
  <2>14. CASE olsr_shutdown(p)
    BY Zenon, <2>14, LinksStep, CloseStep, RestoreStep, LastStep DEF olsr_shutdown
  <2> QED
    BY Zenon, <1>3, <2>1, <2>2, <2>3, <2>4, <2>5, <2>6, <2>7, <2>8, <2>9, <2>10, <2>11, <2>12, <2>13, <2>14
<1> QED
  BY Zenon, <1>1, <1>2, <1>3 DEF DmNext

LEMMA DmInvClean ==
  ASSUME DmInv PROVE DmClean
<1>1. DmOneDaemon
  BY Zenon, Facts DEF DmOneDaemon, DmPlace, DmServing
<1>2. DmRestored
  <2> SUFFICES ASSUME DmIdle, ~dm_unclean, DmInTurn PROVE DmOriginal
    BY Zenon DEF DmRestored, DmOriginal
  <2>1. \A p \in DmProcs : ~dm_proc[p].over
    BY Zenon, Facts DEF DmWaits, DmInTurn, DmIdle, DmSetUp
  <2>2. \A p \in DmProcs : ~DmActive(p)
    BY Zenon DEF DmIdle, DmActive, DmQuiet
  <2> QED BY Zenon, <2>1, <2>2 DEF DmInv, DmBorrowed
<1>3. DmKeeps
  <2> SUFFICES ASSUME DmInTurn, NEW p \in DmProcs, dm_proc[p].pc = "running"
               PROVE  /\ \A s \in DmTouched : dm_kernel.settings[s] = DmWanted(s)
                      /\ \A s \in DmIfSettings : s[1] \in dm_proc[p].ifs => dm_kernel.nic[s] = 0
                      /\ DmRuleTables \X {"all"} \subseteq dm_kernel.rules
    BY Zenon DEF DmKeeps, DmAt
  <2>1. dm_proc[p].pc \in DmServing
    BY Zenon DEF DmServing
  <2>2. ~dm_proc[p].over
    BY Zenon, <2>1, Facts DEF DmPlace, DmInTurn
  <2> QED BY Zenon, <2>1, <2>2 DEF DmInv, DmInForce
<1>4. DmNothingLeft
  <2> SUFFICES ASSUME DmIdle, ~dm_unclean
               PROVE  dm_kernel.rules \subseteq {"defaultolsr"} \X dm_gone /\ ~dm_kernel.lo
    BY Zenon DEF DmNothingLeft
  <2>1. \A p \in DmProcs : ~DmHolds(p, {"running", "links"}) /\ ~DmHolds(p, {"running"} \cup DmShutting)
    BY Zenon DEF DmIdle, DmHolds, DmShutting
  <2> QED BY Zenon, <2>1 DEF DmInv, DmOwned, DmOwner
<1>5. DmAllPlugins
  BY Zenon, Facts DEF DmAllPlugins, DmPlace, DmAt, init_olsr_plugin
<1> QED
  BY Zenon, <1>1, <1>2, <1>3, <1>4, <1>5 DEF DmClean

\* main, olsr_shutdown, olsr_reconfigure: however many processes are started, restarted
\* and killed, one at most is past the lock, a running one has every plugin accepted, and
\* when all have ended in order none of their rules is left.  As long as no process that
\* started over another's settings gets the lock or fails on its PID file, a running one
\* also keeps its settings and rules, and the end of all brings back the first settings.
THEOREM DmCleanAlways == DmSpec => []DmClean
<1>1. DmInit => DmInv
  BY Zenon, DmInitInv
<1>2. DmInv /\ [DmNext]_dm_vars => DmInv'
  BY Zenon, DmNextInv
<1>3. DmInv => DmClean
  BY Zenon, DmInvClean
<1> QED
  BY <1>1, <1>2, <1>3, PTL DEF DmSpec
=============================================================================
