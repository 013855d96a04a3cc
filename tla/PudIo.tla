------------------------------- MODULE PudIo -------------------------------
(***************************************************************************)
(* The position update distribution plugin's parameters, resources and     *)
(* traffic.                                                                *)
(*                                                                         *)
(* Parameters (lib/pud/src/configuration.c, configTools.c): the setters    *)
(* that run one by one in the order the configuration gives the            *)
(* parameters, the getters that fill in what was not given, and the check  *)
(* before the plugin starts.  A parameter is its kind p, the socket,       *)
(* number or list s it is about and its value v; the text of an address    *)
(* that does not parse is "bad".                                           *)
(*                                                                         *)
(* Resources and traffic: what initPud acquires and closePud releases      *)
(* (pud.c, networkInterfaces.c, timers.c, dedup.c), and how position       *)
(* updates that arrive over OLSR or from the uplink server reach the LANs  *)
(* (pud.c, dedup.c).  Sockets are numbered in the order they are opened.   *)
(* A set-up step may fail: a socket cannot be opened, or cannot be         *)
(* configured once it is.                                                  *)
(*                                                                         *)
(* Definitions named X_Word are mutated forms of X.                        *)
(***************************************************************************)
EXTENDS Integers, Sequences, FiniteSets, SequencesExt, FiniteSetsExt

CONSTANTS
  PC_STATEMENTS,  \* a sequence of sets of parameters to be given
  PI_CONFIGS      \* configurations, with the bounds of each

VARIABLES
  pc_given,   \* which set of parameters the configuration has
  pc_left,    \* the parameters not set yet
  pc_cnf,     \* the values of the plugin's configuration variables
  pc_phase,   \* "setting", "started" or "refused", and whether a parameter failed
  pi_cfg,     \* which configuration this behaviour has
  pi_phase,   \* "loaded", "running", "refused" or "unloaded"
  pi_res,     \* the plugin's variables that hold resources
  pi_kernel,  \* what is open, registered and allocated, whoever knows of it
  pi_dedup,   \* deDupList
  pi_seen,    \* the messages added to deDupList, oldest first
  pi_lan,     \* the messages put on the LANs, oldest first
  pi_in       \* how many messages arrived

pc_vars == <<pc_given, pc_left, pc_cnf, pc_phase>>
pi_vars == <<pi_cfg, pi_phase, pi_res, pi_kernel, pi_dedup, pi_seen, pi_lan, pi_in>>

(***************************************************************************)
(* The parameters.                                                         *)
(***************************************************************************)

PcSockets == {"rxMc", "txMc", "uplink"}
PcIntervals == {"updateIntervalStationary", "updateIntervalMoving",
                "uplinkUpdateIntervalStationary", "uplinkUpdateIntervalMoving",
                "gatewayDeterminationInterval"}
PcThresholds == {"movingSpeedThreshold", "movingDistanceThreshold", "dopMultiplier",
                 "defaultHdop", "defaultVdop"}
PcHysteresis == {"hysteresisCountToStationary", "hysteresisCountToMoving",
                 "gatewayHysteresisCountToStationary", "gatewayHysteresisCountToMoving"}
PcDeDup == {"useDeDup", "deDupDepth", "useLoopback"}
PcNumbers == PcIntervals \cup PcThresholds \cup PcHysteresis \cup PcDeDup
               \cup {"averageDepth", "txTtl", "olsrTtl", "positionFilePeriod"}
PUD_IF_MAX == 2   \* 32 in the code: as many interfaces as are kept of a kind

PUD_PORT_DEFAULT == [rxMc |-> 2240, txMc |-> 2240, uplink |-> 2241]
PUD_DOWNLINK_PORT_DEFAULT == 2242
PUD_ADDR_DEFAULT == [rxMc |-> "224.0.0.224", txMc |-> "224.0.0.224", uplink |-> "0.0.0.0"]
PUD_NUMBER_DEFAULT ==
  [p \in PcNumbers |->
     CASE p = "updateIntervalStationary" -> 60 [] p = "updateIntervalMoving" -> 5
       [] p = "uplinkUpdateIntervalStationary" -> 180 [] p = "uplinkUpdateIntervalMoving" -> 15
       [] p = "averageDepth" -> 5 [] p = "positionFilePeriod" -> 0 [] OTHER -> 1]

PcDefaults ==
  [socket |-> [s \in PcSockets |-> [set |-> FALSE, addr |-> "none", port |-> 0]],
   downlinkPort |-> 0, downlinkPortSet |-> FALSE,
   number |-> PUD_NUMBER_DEFAULT,
   rxNonOlsrIf |-> <<>>, txNonOlsrIf |-> <<>>, rxAllowedSourceIpAddress |-> <<>>,
   nodeIdType |-> 4, nodeId |-> "none", nodeIdSet |-> FALSE]

(***************************************************************************)
(* The setters return the new values and whether the value was refused.    *)
(***************************************************************************)

PcOk(cnf) == [cnf |-> cnf, error |-> FALSE]
PcError(cnf) == [cnf |-> cnf, error |-> TRUE]

\* Addresses: the port is kept when the address was set before.
readIPAddress(cnf, s, addr) ==
  [cnf EXCEPT !.socket[s] =
     [set |-> TRUE, addr |-> addr,
      port |-> IF @.set /\ @.port # 0 THEN @.port ELSE PUD_PORT_DEFAULT[s]]]

\* getRxMcAddr, getTxMcAddr, getUplinkAddr: the default address when none was set.
PcWithAddr(cnf, s) == IF cnf.socket[s].set THEN cnf ELSE readIPAddress(cnf, s, PUD_ADDR_DEFAULT[s])

isMulticast(addr) == addr \in {"224.0.0.224", "224.0.0.225", "ff02::1"}

\* The address is stored before it is checked to be a multicast one.
PcSetAddr(cnf, s, addr) ==
  IF addr = "bad" THEN PcError(cnf)
  ELSE [cnf |-> readIPAddress(cnf, s, addr), error |-> s # "uplink" /\ ~isMulticast(addr)]

PcSetPort(cnf, s, port) ==
  IF port \notin 1..65535 THEN PcError(cnf)
  ELSE PcOk([PcWithAddr(cnf, s) EXCEPT !.socket[s].port = port])

setRxMcAddr(cnf, addr) == PcSetAddr(cnf, "rxMc", addr)
setTxMcAddr(cnf, addr) == PcSetAddr(cnf, "txMc", addr)
setUplinkAddr(cnf, addr) == PcSetAddr(cnf, "uplink", addr)
setRxMcPort(cnf, port) == PcSetPort(cnf, "rxMc", port)
setTxMcPort(cnf, port) == PcSetPort(cnf, "txMc", port)
setUplinkPort(cnf, port) == PcSetPort(cnf, "uplink", port)

setDownlinkPort(cnf, port) ==
  IF port \notin 1..65535 THEN PcError(cnf)
  ELSE PcOk([cnf EXCEPT !.downlinkPort = port, !.downlinkPortSet = TRUE])

\* Numbers are stored before their range is looked at, the period of the file after.
PcStore(cnf, p, value) == [cnf EXCEPT !.number[p] = value]

PcAtLeast1(cnf, p, value) == [cnf |-> PcStore(cnf, p, value), error |-> value < 1]
PcSetInterval(cnf, p, value) == PcAtLeast1(cnf, p, value)
setAverageDepth(cnf, value) == PcAtLeast1(cnf, "averageDepth", value)
setTxTtl(cnf, value) == PcAtLeast1(cnf, "txTtl", value)
PcSetThreshold(cnf, p, value) == PcOk(PcStore(cnf, p, value))
PcSetHysteresis(cnf, p, value) == PcOk(PcStore(cnf, p, value))
PcSetDeDup(cnf, p, value) == PcOk(PcStore(cnf, p, value))
setOlsrTtl(cnf, value) == PcOk(PcStore(cnf, "olsrTtl", value))

setPositionFilePeriod(cnf, value) ==
  IF value # 0 /\ value \notin 1000..320000000 THEN PcError(cnf)
  ELSE PcOk(PcStore(cnf, "positionFilePeriod", value))

PcSetNumber(cnf, p, value) ==
  CASE p \in PcIntervals -> PcSetInterval(cnf, p, value)
    [] p \in PcThresholds -> PcSetThreshold(cnf, p, value)
    [] p \in PcHysteresis -> PcSetHysteresis(cnf, p, value)
    [] p \in PcDeDup -> PcSetDeDup(cnf, p, value)
    [] p = "averageDepth" -> setAverageDepth(cnf, value)
    [] p = "txTtl" -> setTxTtl(cnf, value)
    [] p = "olsrTtl" -> setOlsrTtl(cnf, value)
    [] p = "positionFilePeriod" -> setPositionFilePeriod(cnf, value)

addNonOlsrInterface(cnf, list, name) ==
  IF Len(cnf[list]) >= PUD_IF_MAX THEN PcError(cnf)
  ELSE IF \E i \in 1..Len(cnf[list]) : cnf[list][i] = name THEN PcOk(cnf)
  ELSE PcOk([cnf EXCEPT ![list] = Append(@, name)])

addRxNonOlsrInterface(cnf, name) == addNonOlsrInterface(cnf, "rxNonOlsrIf", name)
addTxNonOlsrInterface(cnf, name) == addNonOlsrInterface(cnf, "txNonOlsrIf", name)

\* While the list is empty every address counts as allowed already.
isRxAllowedSourceIpAddress(cnf, addr) ==
  \/ cnf.rxAllowedSourceIpAddress = <<>>
  \/ \E i \in 1..Len(cnf.rxAllowedSourceIpAddress) : cnf.rxAllowedSourceIpAddress[i] = addr

addRxAllowedSourceIpAddress(cnf, addr) ==
  IF Len(cnf.rxAllowedSourceIpAddress) >= PUD_IF_MAX \/ addr = "bad" THEN PcError(cnf)
  ELSE IF isRxAllowedSourceIpAddress(cnf, addr) THEN PcOk(cnf)
  ELSE PcOk([cnf EXCEPT !.rxAllowedSourceIpAddress = Append(@, addr)])

(***************************************************************************)
(* The node's identification: a type, and a value where the type needs it. *)
(***************************************************************************)

PUD_NODEIDTYPE_MAC == 0
PUD_NODEIDTYPE_DNS == 3
PUD_NODEIDTYPE_IPV4 == 4
PUD_NODEIDTYPE_IPV6 == 6
isValidNodeIdType(t) == t \in 0..9 \cup {192, 193, 194}

\* The main address, its hardware address and the host name are always valid.
setupNodeIdBinaryAndValidate(t, id) ==
  t \in {PUD_NODEIDTYPE_MAC, PUD_NODEIDTYPE_IPV4, PUD_NODEIDTYPE_IPV6} \/ id # "out of range"

\* v is <<type, id>>; -1 and "none" stand for a part that is not given.
setNodeId(cnf, v) ==
  LET type == IF v[1] = -1 THEN cnf.nodeIdType ELSE v[1]
      typed == [cnf EXCEPT !.nodeIdType = type, !.nodeId = "none", !.nodeIdSet = FALSE]
      id == IF v[2] # "none" THEN v[2]
            ELSE IF type = PUD_NODEIDTYPE_DNS THEN "hostname" ELSE "none"
      filled == [typed EXCEPT !.nodeId = id, !.nodeIdSet = id # "none"]
  IN IF ~isValidNodeIdType(type) THEN PcError([typed EXCEPT !.nodeIdType = cnf.nodeIdType])
     ELSE IF id = "too long" THEN PcError(typed)
     ELSE IF id = "none" /\ type \notin {PUD_NODEIDTYPE_MAC, PUD_NODEIDTYPE_IPV4,
                                        PUD_NODEIDTYPE_IPV6} THEN PcError(filled)
     ELSE [cnf |-> filled, error |-> ~setupNodeIdBinaryAndValidate(type, id)]

(***************************************************************************)
(* init_olsr_plugin sets every parameter, whatever came of the others.     *)
(***************************************************************************)

PcApply(cnf, st) ==
  CASE st.p = "addr" /\ st.s = "rxMc" -> setRxMcAddr(cnf, st.v)
    [] st.p = "addr" /\ st.s = "txMc" -> setTxMcAddr(cnf, st.v)
    [] st.p = "addr" /\ st.s = "uplink" -> setUplinkAddr(cnf, st.v)
    [] st.p = "port" /\ st.s = "rxMc" -> setRxMcPort(cnf, st.v)
    [] st.p = "port" /\ st.s = "txMc" -> setTxMcPort(cnf, st.v)
    [] st.p = "port" /\ st.s = "uplink" -> setUplinkPort(cnf, st.v)
    [] st.p = "downlinkPort" -> setDownlinkPort(cnf, st.v)
    [] st.p = "number" -> PcSetNumber(cnf, st.s, st.v)
    [] st.p = "interface" /\ st.s = "rxNonOlsrIf" -> addRxNonOlsrInterface(cnf, st.v)
    [] st.p = "interface" /\ st.s = "txNonOlsrIf" -> addTxNonOlsrInterface(cnf, st.v)
    [] st.p = "allowed" -> addRxAllowedSourceIpAddress(cnf, st.v)
    [] st.p = "nodeId" -> setNodeId(cnf, st.v)

getDownlinkPort(cnf) ==
  IF cnf.downlinkPortSet THEN cnf.downlinkPort ELSE PUD_DOWNLINK_PORT_DEFAULT

PcFaster(cnf, moving, stationary) == cnf.number[moving] <= cnf.number[stationary]

checkConfig(cnf) ==
  /\ cnf.rxNonOlsrIf # <<>>
  /\ cnf.txNonOlsrIf # <<>>
  /\ PcFaster(cnf, "updateIntervalMoving", "updateIntervalStationary")
  /\ PcFaster(cnf, "uplinkUpdateIntervalMoving", "uplinkUpdateIntervalStationary")
  /\ cnf.socket["uplink"].set => cnf.socket["uplink"].port # getDownlinkPort(cnf)

\* createNetworkInterfaces asks for the two multicast addresses.
PcStarted(cnf) == PcWithAddr(PcWithAddr(cnf, "rxMc"), "txMc")

PcInit ==
  /\ pc_given \in 1..Len(PC_STATEMENTS)
  /\ pc_left = PC_STATEMENTS[pc_given]
  /\ pc_cnf = PcDefaults
  /\ pc_phase = [set |-> "setting", failed |-> FALSE]

PcSet(st) ==
  LET r == PcApply(pc_cnf, st)
  IN /\ st \in pc_left
     /\ pc_left' = pc_left \ {st}
     /\ pc_cnf' = r.cnf
     /\ pc_phase' = [pc_phase EXCEPT !.failed = @ \/ r.error]
     /\ UNCHANGED pc_given

\* The plugin's init function runs also when a parameter was refused.
PcCheck ==
  /\ pc_left = {} /\ pc_phase.set = "setting"
  /\ IF checkConfig(pc_cnf)
       THEN pc_cnf' = PcStarted(pc_cnf) /\ pc_phase' = [pc_phase EXCEPT !.set = "started"]
       ELSE pc_cnf' = pc_cnf /\ pc_phase' = [pc_phase EXCEPT !.set = "refused"]
  /\ UNCHANGED <<pc_given, pc_left>>

PcDone == pc_phase.set # "setting" /\ UNCHANGED pc_vars

PcNext == (\E st \in pc_left : PcSet(st)) \/ PcCheck \/ PcDone

PcSpec == PcInit /\ [][PcNext]_pc_vars

(***************************************************************************)
(* The configuration of a behaviour about resources and traffic.           *)
(***************************************************************************)

PiCnf == PI_CONFIGS[pi_cfg]

(***************************************************************************)
(* The resources.  A record of both sides is threaded through the steps:   *)
(* r.res is what the plugin remembers, r.k what exists.                    *)
(***************************************************************************)

PiTimers == {"olsr", "uplink", "gateway"}

PiNothing ==
  [rx |-> <<>>, tx |-> <<>>, downlink |-> -1, downHandler |-> FALSE,
   timers |-> {}, cookies |-> {}, dedup |-> FALSE, average |-> FALSE,
   started |-> FALSE, fileTimer |-> FALSE, fileCookie |-> FALSE]

PiClean ==
  [next |-> 3, open |-> {}, handlers |-> {}, timers |-> {}, cookies |-> {},
   memory |-> {}, parser |-> FALSE, badclose |-> FALSE]

PiOpen(k) == [k EXCEPT !.open = @ \cup {k.next}, !.next = @ + 1]

PiClose(k, fd) ==
  [k EXCEPT !.open = @ \ {fd}, !.badclose = @ \/ fd \notin k.open]

\* add_olsr_socket and remove_olsr_socket: a handler is known by its socket.
PiRegister(k, fd, kind) == [k EXCEPT !.handlers = @ \cup {<<fd, kind>>}]

PiUnregister(k, fd, kind) == [k EXCEPT !.handlers = @ \ {<<fd, kind>>}]

\* A socket is opened and configured; mode says how far this gets.
PiSocket(k, mode) ==
  CASE mode = "nosocket" -> k
    [] mode = "nooption" -> PiClose(PiOpen(k), k.next)
    [] OTHER -> PiOpen(k)

createRxSocket(k, mode) ==
  IF mode = "ok" THEN PiRegister(PiOpen(k), k.next, "rx") ELSE PiSocket(k, mode)

createRxInterface(r, mode) ==
  [res |-> IF mode = "ok" THEN [r.res EXCEPT !.rx = Append(@, r.k.next)] ELSE r.res,
   k |-> createRxSocket(r.k, mode), ok |-> mode = "ok"]

createTxSocket(k, mode) == PiSocket(k, mode)

createTxInterface(r, mode) ==
  [res |-> IF mode = "ok" THEN [r.res EXCEPT !.tx = Append(@, r.k.next)] ELSE r.res,
   k |-> createTxSocket(r.k, mode), ok |-> mode = "ok"]

createDownlinkSocket(r, mode) ==
  [res |-> IF mode = "ok" THEN [r.res EXCEPT !.downlink = r.k.next, !.downHandler = TRUE]
                          ELSE [r.res EXCEPT !.downlink = -1],
   k |-> IF mode = "ok" THEN PiRegister(PiOpen(r.k), r.k.next, "down") ELSE PiSocket(r.k, mode),
   ok |-> mode = "ok"]

\* timers.c: a cookie for each timer, the timers started, the timers running.
PiInitTimers(r) ==
  [r EXCEPT !.res.cookies = PiTimers, !.k.cookies = @ \cup PiTimers]

PiStartTimers(r) ==
  [r EXCEPT !.res.timers = PiTimers, !.k.timers = @ \cup PiTimers]

\* initPositionAverageList needs a depth of 2; startReceiver does not look at the result.
PiInitAverage(r, maxEntries) ==
  IF maxEntries < 2 THEN r
  ELSE [r EXCEPT !.res.average = TRUE, !.k.memory = @ \cup {"average"}]

startReceiver(r, mode) ==
  IF mode = "noparser" THEN [r EXCEPT !.ok = FALSE]
  ELSE PiStartTimers(PiInitTimers(PiInitAverage(r, PiCnf.averageDepth)))

initDeDupList(r, mode) ==
  IF mode = "nodepth" THEN [r EXCEPT !.ok = FALSE]
  ELSE [r EXCEPT !.res.dedup = TRUE, !.k.memory = @ \cup {"dedup"}]

startPositionFile(r, mode) ==
  IF mode = "noregex" THEN [r EXCEPT !.ok = FALSE]
  ELSE [r EXCEPT !.res.started = TRUE, !.k.memory = @ \cup {"regex"}]

\* The steps of initPud, in order; the interfaces from the last to the first.
PiSteps ==
  <<"config", "dedup", "file", "receiver">>
    \o [i \in 1..PiCnf.rx |-> "rx"] \o [i \in 1..PiCnf.tx |-> "tx"]
    \o (IF PiCnf.uplink THEN <<"downlink">> ELSE <<>>)

PiRun(r, step, mode) ==
  CASE step = "config" -> [r EXCEPT !.ok = mode = "ok"]
    [] step = "dedup" -> initDeDupList(r, mode)
    [] step = "file" -> startPositionFile(r, mode)
    [] step = "receiver" -> startReceiver(r, mode)
    [] step = "rx" -> createRxInterface(r, mode)
    [] step = "tx" -> createTxInterface(r, mode)
    [] step = "downlink" -> createDownlinkSocket(r, mode)

\* How a step may fail.  checkRunSetup returns true, and neither olsr_alloc_cookie
\* nor olsr_start_timer returns without a result: what initPud and startReceiver do
\* when they fail is never done.
PiModes(step) ==
  CASE step = "config" -> {"invalid"}
    [] step = "dedup" -> {"nodepth"}
    [] step = "file" -> {"noregex"}
    [] step = "receiver" -> {"noparser"}
    [] step \in {"rx", "tx", "downlink"} -> {"nosocket", "nooption"}

(***************************************************************************)
(* Giving everything back.                                                 *)
(***************************************************************************)

PiCloseAll(k, fds, kind) ==
  FoldLeft(LAMBDA kk, fd : PiClose(PiUnregister(kk, fd, kind), fd), k, fds)

closeNetworkInterfaces(r) ==
  LET closed == PiCloseAll(PiCloseAll(r.k, r.res.rx, "rx"), r.res.tx, "tx")
      k == IF r.res.downlink # -1
             THEN PiClose(IF r.res.downHandler THEN PiUnregister(closed, r.res.downlink, "down")
                                               ELSE closed, r.res.downlink)
             ELSE closed
  IN [r EXCEPT !.k = k, !.res.rx = <<>>, !.res.tx = <<>>,
               !.res.downlink = -1, !.res.downHandler = FALSE]

stopReceiver(r) ==
  [r EXCEPT !.res.timers = {}, !.k.timers = @ \ r.res.timers,
            !.res.cookies = {}, !.k.cookies = @ \ r.res.cookies,
            !.res.average = FALSE, !.k.memory = IF r.res.average THEN @ \ {"average"} ELSE @]

stopPositionFile(r) ==
  IF r.res.started THEN [r EXCEPT !.res.started = FALSE, !.k.memory = @ \ {"regex"}] ELSE r

destroyDeDupList(r) ==
  IF r.res.dedup THEN [r EXCEPT !.res.dedup = FALSE, !.k.memory = @ \ {"dedup"}] ELSE r

PiStopFileTimer(r) ==
  [r EXCEPT !.res.fileTimer = FALSE, !.res.fileCookie = FALSE,
            !.k.timers = IF r.res.fileTimer THEN @ \ {"file"} ELSE @,
            !.k.cookies = IF r.res.fileCookie THEN @ \ {"file"} ELSE @]

closePud(r) ==
  destroyDeDupList(stopReceiver(closeNetworkInterfaces(stopPositionFile(PiStopFileTimer(r)))))

\* The end of initPud: the message handler, and the timer of the position file.
PiHookUp(r) ==
  LET parsed == [r EXCEPT !.k.parser = TRUE]
  IN IF PiCnf.fileTimer
       THEN [parsed EXCEPT !.res.fileTimer = TRUE, !.res.fileCookie = TRUE,
                           !.k.timers = @ \cup {"file"}, !.k.cookies = @ \cup {"file"}]
       ELSE parsed

\* All steps up to the one that fails, if one does.
PiUpTo(r, n, mode) ==
  FoldLeft(LAMBDA x, i : PiRun(x, PiSteps[i], IF i = n THEN mode ELSE "ok"),
           r, [i \in 1..n |-> i])

(***************************************************************************)
(* dedup.c: a ring filled downwards, read upwards from the newest entry.   *)
(***************************************************************************)

PiEmptyDeDup(max) ==
  [max |-> max, newest |-> 0, count |-> 0, entries |-> [i \in 0..max - 1 |-> <<>>]]

addToDeDup(l, m) ==
  LET incoming == (l.newest + l.max - 1) % l.max
  IN [l EXCEPT !.entries[incoming] = m, !.newest = incoming, !.count = Min({@ + 1, l.max})]

isInDeDupList_Short(l, m) ==
  \E i \in 0..l.count - 2 : l.entries[(l.newest + i) % l.max] = m

isInDeDupList(l, m) ==
  \E i \in 0..l.count - 1 : l.entries[(l.newest + i) % l.max] = m

(***************************************************************************)
(* pud.c: an update is relayed to the LANs when it is new and of the wire  *)
(* format's version.  A message is an originator and a sequence number;    *)
(* t is [dedup, seen, lan].                                                *)
(***************************************************************************)

PiMsg(m) == <<m.orig, m.seq>>

sendToAllTxInterfaces(t, m) == [t EXCEPT !.lan = Append(@, PiMsg(m))]

PiRelay(t, m) == IF m.version THEN sendToAllTxInterfaces(t, m) ELSE t

packetReceivedFromOlsr(t, m) ==
  IF ~PiCnf.loopback /\ m.orig = PiCnf.main_addr THEN t
  ELSE IF ~PiCnf.useDeDup THEN PiRelay(t, m)
  ELSE IF isInDeDupList(t.dedup, PiMsg(m)) THEN t
  ELSE PiRelay([t EXCEPT !.dedup = addToDeDup(@, PiMsg(m)), !.seen = Append(@, PiMsg(m))], m)

\* The messages of a downlink packet, until one is longer than the packet; one of
\* another type or address family is skipped.  Sending them on over OLSR, when
\* the smart gateway system is active, leaves this state alone.
packetReceivedFromDownlink(t, packet) ==
  LET fits == SelectInSeq(packet, LAMBDA m : ~m.fits)
      read == IF fits = 0 THEN packet ELSE SubSeq(packet, 1, fits - 1)
  IN FoldLeft(LAMBDA x, m : IF m.position /\ m.family THEN packetReceivedFromOlsr(x, m) ELSE x,
              t, read)

(***************************************************************************)
(* The behaviours.  The result of initPud is ignored: a plugin that could  *)
(* not start stays loaded, and is closed again when it is unloaded.        *)
(***************************************************************************)

PiInitFor(c) ==
  /\ pi_cfg = c
  /\ pi_phase = "loaded"
  /\ pi_res = PiNothing
  /\ pi_kernel = PiClean
  /\ pi_dedup = PiEmptyDeDup(PI_CONFIGS[c].depth)
  /\ pi_seen = <<>> /\ pi_lan = <<>> /\ pi_in = 0

PiInit == \E c \in 1..Len(PI_CONFIGS) : PiInitFor(c)

PiNow == [res |-> pi_res, k |-> pi_kernel, ok |-> TRUE]

initPud ==
  /\ pi_phase = "loaded"
  /\ LET r == PiHookUp(PiUpTo(PiNow, Len(PiSteps), "ok"))
     IN pi_phase' = "running" /\ pi_res' = r.res /\ pi_kernel' = r.k
  /\ UNCHANGED <<pi_cfg, pi_dedup, pi_seen, pi_lan, pi_in>>

PiInitFails ==
  /\ pi_phase = "loaded"
  /\ \E n \in 1..Len(PiSteps) : \E mode \in PiModes(PiSteps[n]) :
       LET r == closePud(PiUpTo(PiNow, n, mode))
       IN pi_phase' = "refused" /\ pi_res' = r.res /\ pi_kernel' = r.k
  /\ UNCHANGED <<pi_cfg, pi_dedup, pi_seen, pi_lan, pi_in>>

pud_fini ==
  /\ pi_phase \in {"running", "refused"}
  /\ LET r == closePud(PiNow)
     IN pi_phase' = "unloaded" /\ pi_res' = r.res /\ pi_kernel' = r.k
  /\ UNCHANGED <<pi_cfg, pi_dedup, pi_seen, pi_lan, pi_in>>

PiTraffic == [dedup |-> pi_dedup, seen |-> pi_seen, lan |-> pi_lan]

PiTake(t) ==
  /\ pi_phase = "running" /\ pi_in < PiCnf.msgs
  /\ pi_in' = pi_in + 1
  /\ pi_dedup' = t.dedup /\ pi_seen' = t.seen /\ pi_lan' = t.lan
  /\ UNCHANGED <<pi_cfg, pi_phase, pi_res, pi_kernel>>

PiFromOlsr == \E m \in PiCnf.messages : PiTake(packetReceivedFromOlsr(PiTraffic, m))

PiFromDownlink ==
  /\ pi_res.downlink # -1
  /\ \E packet \in PiCnf.packets : PiTake(packetReceivedFromDownlink(PiTraffic, packet))

PiEnded == pi_phase = "unloaded" /\ UNCHANGED pi_vars

PiNext == initPud \/ PiInitFails \/ pud_fini \/ PiFromOlsr \/ PiFromDownlink \/ PiEnded

PiSpec == PiInit /\ [][PiNext]_pi_vars

(***************************************************************************)
(* Properties.                                                             *)
(***************************************************************************)

\* pud.c: whichever step of initPud fails, and when the plugin is unloaded, every
\* socket is closed once and every socket handler, timer, cookie and list is given
\* back.  The function given to olsr_parser_add_function is not, closePud does not
\* remove it: it is registered only when no step can fail any more.
PiReleased ==
  /\ ~pi_kernel.badclose
  /\ pi_phase \in {"refused", "unloaded"} =>
       /\ pi_kernel.open = {} /\ pi_kernel.handlers = {}
       /\ pi_kernel.timers = {} /\ pi_kernel.cookies = {} /\ pi_kernel.memory = {}
  /\ pi_phase = "refused" => ~pi_kernel.parser

\* networkInterfaces.c: a registered handler belongs to an open socket that the
\* plugin knows of, also after a step of the set-up failed.
PiHandlersLive ==
  \A h \in pi_kernel.handlers :
    h[1] \in pi_kernel.open /\ (h[1] \in ToSet(pi_res.rx) \/ h[1] = pi_res.downlink)

\* dedup.c: the list knows exactly the latest messages added, as many as it is deep,
\* although it is a ring filled in the other direction than it is read.
PiWindow ==
  LET n == Min({Len(pi_seen), pi_dedup.max})
      latest == {pi_seen[i] : i \in Len(pi_seen) - n + 1..Len(pi_seen)}
  IN \A m \in ToSet(pi_seen) : isInDeDupList(pi_dedup, m) <=> m \in latest

\* pud.c: between two copies of a message on the LANs there are at least as many
\* other messages as the list is deep, over whichever way the copies came.
PiNoRepeat ==
  PiCnf.useDeDup =>
    \A i, j \in 1..Len(pi_lan) : i < j /\ pi_lan[i] = pi_lan[j] =>
      Cardinality({k \in 1..Len(pi_seen) :
        \E a, b \in 1..Len(pi_seen) : /\ a < k /\ k < b /\ pi_seen[k] # pi_seen[a]
                                     /\ pi_seen[a] = pi_lan[i] /\ pi_seen[b] = pi_lan[j]})
        >= pi_dedup.max

PcGiven(p, s) == {st \in PC_STATEMENTS[pc_given] : st.p = p /\ st.s = s}

\* configuration.c: addresses and ports end up as given, or at their defaults, in
\* whatever order the two parameters of a socket were set.
PcAsStated ==
  pc_phase = [set |-> "started", failed |-> FALSE] =>
    \A s \in PcSockets : pc_cnf.socket[s].set =>
      /\ pc_cnf.socket[s].addr \in
           IF PcGiven("addr", s) = {} THEN {PUD_ADDR_DEFAULT[s]}
                                     ELSE {st.v : st \in PcGiven("addr", s)}
      /\ pc_cnf.socket[s].port \in
           IF PcGiven("port", s) = {} THEN {PUD_PORT_DEFAULT[s]}
                                     ELSE {st.v : st \in PcGiven("port", s)}

\* configuration.c: every interface named is served exactly once, however often
\* it is named, unless there are too many.
PcInterfacesOnce ==
  pc_phase = [set |-> "started", failed |-> FALSE] =>
    \A list \in {"rxNonOlsrIf", "txNonOlsrIf"} : \A st \in PcGiven("interface", list) :
      Cardinality({i \in 1..Len(pc_cnf[list]) : pc_cnf[list][i] = st.v}) = 1

\* The plugin runs with the parameters it was given, gives back what it holds but for
\* the message handler, and brings every update to the LANs once.
PudIoSound ==
  /\ PiReleased /\ PiHandlersLive /\ PiWindow /\ PiNoRepeat
  /\ PcAsStated /\ PcInterfacesOnce
=============================================================================
