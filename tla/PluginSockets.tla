--------------------------- MODULE PluginSockets ---------------------------
(***************************************************************************)
(* The sockets of the plugins that carry the traffic of LANs over the      *)
(* mesh, NetworkInterfaces.c of each: BMF's in the first part, those of    *)
(* mdns and p2pd in the second.  Descriptors are numbers, the kernel gives *)
(* out the lowest free one, and the rest of the daemon takes and returns   *)
(* descriptors meanwhile.                                                  *)
(*                                                                         *)
(* Definitions named X_Word are mutated forms of X.                        *)
(***************************************************************************)
EXTENDS Integers, Sequences, SequencesExt, FiniteSets, FiniteSetsExt, Functions

(***************************************************************************)
(* The sockets, the tuntap interface and the kernel settings of the BMF    *)
(* plugin over the life of the daemon: they are set up when the plugin is  *)
(* loaded, torn down and set up again whenever OLSR gains or loses an      *)
(* interface, and torn down at the end.  Any of the system calls of a set  *)
(* up may fail.                                                            *)
(*                                                                         *)
(* The plugin's global variables and what the kernel holds for it are one  *)
(* record, bi, and the plugin's functions transform it.  An interface's    *)
(* address is written as its name.                                         *)
(***************************************************************************)
CONSTANTS
  BiKernel,        \* the kernel's interfaces, in the order it lists them
  BiFailing,       \* those on which a step of the set up may fail
  BiLans,          \* those named by the plugin parameter NonOlsrIf
  BI_FDS,          \* bound: descriptors 0..BI_FDS
  BI_EVENTS        \* bound: interface changes

VARIABLES
  bi,              \* see BiState
  bi_set,          \* the plugin's parameters
  bi_olsr,         \* the interfaces OLSR runs on
  bi_other,        \* descriptors the rest of the daemon has open
  bi_left          \* interface changes to come; -1 when the plugin is unloaded

bi_vars == <<bi, bi_set, bi_olsr, bi_other, bi_left>>

BiSettings == [capture : BOOLEAN, promisc : BOOLEAN, ip : {"unset", "configured"}]

\* What can fail during a set up, and on which interface.
BiFails ==
  {[at |-> "none", if |-> "none"], [at |-> "list", if |-> "none"], [at |-> "tun", if |-> "none"]} \cup
  [at : {"encapsulating", "capture", "listening", "hwaddr"}, if : BiFailing]

\* list: BmfInterfaces, each with its sockets (kind -> descriptor).
\* open: descriptor -> what BMF opened it for; reg: sockets of the scheduler.
\* tun: EtherTunTapFd; ip: EtherTunTapIp; hna: addresses announced for it.
\* rp: the kernel's spoof filter on the tuntap; saved: EthTapSpoofState.
\* blind: the kernel's interface list could once not be read.
BiState0(s) ==
  [list |-> <<>>, open |-> <<>>, reg |-> {}, tun |-> -1, ip |-> s.ip, hna |-> <<>>,
   route |-> FALSE, rp |-> "1", saved |-> "1", blind |-> FALSE, stolen |-> {}]

NextFd(b) == Min((0..BI_FDS) \ (DOMAIN b.open \cup bi_other))
Opened(b, kind) == [b EXCEPT !.open = [fd \in DOMAIN @ \cup {NextFd(b)} |-> IF fd = NextFd(b) THEN kind ELSE @[fd]]]

\* close(2) of some descriptors, whoever owns them.
Closed(b, fds) ==
  [b EXCEPT !.open = [k \in DOMAIN @ \ fds |-> @[k]], !.stolen = @ \cup (fds \cap bi_other)]
-----------------------------------------------------------------------------
(* Set up                                                                  *)

\* The sockets a failing call leaves open: the error paths close the others.
LeftOpen(at) ==
  CASE at = "listening" -> {"capture"} [] at = "hwaddr" -> {"listening"} [] OTHER -> {}

\* OLSR interfaces are added at the front, LANs at the back.
Listed(list, entry) == IF entry.olsr THEN <<entry>> \o list ELSE Append(list, entry)

\* Open the sockets, a kind at a time, and register their handlers.
CreateInterface(b, name, ifs, f) ==
  LET olsr == name \in ifs
      failing == IF f.if = name THEN f.at ELSE "none"
      kinds == SelectSeq(<<"encapsulating", "capture", "listening">>,
                 LAMBDA k : CASE k = "encapsulating" -> olsr
                              [] k = "capture" -> ~olsr \/ bi_set.capture
                              [] k = "listening" -> bi_set.promisc)
      \* what is open when the call for kind k is made
      before(k) == SelectSeq(kinds, LAMBDA x : \E i, j \in DOMAIN kinds : i < j /\ kinds[i] = x /\ kinds[j] = k)
      open(c, ks) == FoldLeft(LAMBDA acc, k : Opened(acc, k), c, ks)
      failed(c, ks) ==
        LET o == open(c, ks) IN
        [o EXCEPT !.open = [fd \in {x \in DOMAIN @ : x \in DOMAIN c.open \/ @[x] \in LeftOpen(failing)} |-> @[fd]]]
      done == open(b, kinds)
      socks == [k \in Range(kinds) |-> CHOOSE fd \in DOMAIN done.open \ DOMAIN b.open : done.open[fd] = k]
      entry == [name |-> name, olsr |-> olsr, socks |-> socks]
  IN IF failing \in Range(kinds) THEN failed(b, before(failing))
     ELSE IF failing = "hwaddr" THEN failed(b, kinds)
     ELSE [done EXCEPT
            !.reg = @ \cup {[fd |-> socks[k], handler |-> k, data |-> name] : k \in Range(kinds)},
            !.list = Listed(@, entry)]

\* The tuntap takes the configured address, else that of an OLSR interface
\* (the last in the list), else the default; a configured one is announced.
CreateLocalEtherTunTap(b, f) ==
  LET olsr == SelectSeq(b.list, LAMBDA e : e.olsr)
      ip == CASE b.ip # "unset" -> b.ip
              [] b.ip = "unset" /\ olsr # <<>> -> Last(olsr).name
              [] OTHER -> "default"
      up == Opened(b, "tuntap")
  IN IF f.at = "tun" THEN [b EXCEPT !.tun = -1]
     ELSE [up EXCEPT !.tun = NextFd(b), !.ip = ip,
            !.hna = IF bi_set.ip = "configured" THEN Append(@, ip) ELSE @,
            !.reg = @ \cup {[fd |-> NextFd(b), handler |-> "tuntap", data |-> "none"]}]

\* skip: an interface OLSR is about to lose.
CreateBmfNetworkInterfaces(b, ifs, skip, f) ==
  IF f.at = "list" THEN [b EXCEPT !.blind = TRUE]
  ELSE CreateLocalEtherTunTap(
         FoldLeft(LAMBDA acc, name :
                    IF name # skip /\ name \in ifs \cup BiLans THEN CreateInterface(acc, name, ifs, f) ELSE acc,
                  b, BiKernel), f)

DeactivateSpoofFilter(b) == [b EXCEPT !.saved = b.rp, !.rp = "0"]
RestoreSpoofFilter(b) == [b EXCEPT !.rp = b.saved]

InitBmf(b, ifs, skip, f) ==
  LET c == CreateBmfNetworkInterfaces(b, ifs, skip, f) IN
  IF c.tun < 0 THEN c
  ELSE [DeactivateSpoofFilter(c) EXCEPT !.route = IF c.ip # "default" THEN TRUE ELSE @]
-----------------------------------------------------------------------------
(* Tear down                                                               *)

CloseBmfNetworkInterfaces_KeepReg(b) ==
  LET fds == UNION {Range(b.list[i].socks) : i \in DOMAIN b.list} \cup ({b.tun} \ {-1})
      c == Closed(b, fds)
  IN [c EXCEPT !.list = <<>>, !.ip = "unset",
               !.reg = {r \in @ : ~(\E i \in DOMAIN b.list : \E k \in DOMAIN b.list[i].socks :
                                      b.list[i].socks[k] = r.fd /\ k = r.handler)}]
\* Closes and unregisters each socket; forgets the address, configured or
\* not.  EtherTunTapFd keeps its value.
CloseBmfNetworkInterfaces(b) ==
  LET fds == UNION {Range(b.list[i].socks) : i \in DOMAIN b.list} \cup ({b.tun} \ {-1})
      c == Closed(b, fds)
  IN [c EXCEPT !.list = <<>>, !.ip = "unset",
               !.reg = {r \in @ : ~(\/ r.fd = b.tun /\ r.handler = "tuntap"
                                    \/ \E i \in DOMAIN b.list : \E k \in DOMAIN b.list[i].socks :
                                         b.list[i].socks[k] = r.fd /\ k = r.handler)}]

DeleteMulticastRoute(b) == IF b.ip # "default" THEN [b EXCEPT !.route = FALSE] ELSE b

CloseBmf(b) ==
  CloseBmfNetworkInterfaces(IF b.tun < 0 THEN b ELSE RestoreSpoofFilter(DeleteMulticastRoute(b)))
-----------------------------------------------------------------------------
(* The plugin's entry points                                               *)

\* olsrd_plugin_init.
BiLoad(f) ==
  /\ bi_left = BI_EVENTS + 1
  /\ bi_left' = BI_EVENTS
  /\ bi' = InitBmf(bi, bi_olsr, "none", f)
  /\ UNCHANGED <<bi_set, bi_olsr, bi_other>>

\* InterfaceChange, on IFCHG_IF_ADD: the interface is in OLSR's list already.
BiInterfaceAdded(name, f) ==
  /\ bi_left \in 1..BI_EVENTS /\ name \notin bi_olsr \cup BiLans
  /\ bi_left' = bi_left - 1
  /\ bi_olsr' = bi_olsr \cup {name}
  /\ bi' = InitBmf(CloseBmf(bi), bi_olsr', "none", f)
  /\ bi_other' = bi_other \ bi'.stolen
  /\ UNCHANGED bi_set

\* InterfaceChange, on IFCHG_IF_REMOVE: the interface is still in the list.
BiInterfaceRemoved(name, f) ==
  /\ bi_left \in 1..BI_EVENTS /\ name \in bi_olsr
  /\ bi_left' = bi_left - 1
  /\ bi_olsr' = bi_olsr \ {name}
  /\ bi' = InitBmf(CloseBmf(bi), bi_olsr, name, f)
  /\ bi_other' = bi_other \ bi'.stolen
  /\ UNCHANGED bi_set

\* olsr_plugin_exit.
BiUnload ==
  /\ bi_left \in 0..BI_EVENTS
  /\ bi_left' = -1
  /\ bi' = CloseBmf(bi)
  /\ bi_other' = bi_other \ bi'.stolen
  /\ UNCHANGED <<bi_set, bi_olsr>>

\* The rest of the daemon opens or closes a descriptor.
BiOtherOpens ==
  /\ bi_left >= 0 /\ bi_other = {}
  /\ bi_other' = {NextFd(bi)}
  /\ UNCHANGED <<bi, bi_set, bi_olsr, bi_left>>

BiOtherCloses ==
  /\ bi_left >= 0 /\ bi_other # {}
  /\ bi_other' = {}
  /\ UNCHANGED <<bi, bi_set, bi_olsr, bi_left>>

BiGone == bi_left = -1 /\ UNCHANGED bi_vars

BiInit ==
  /\ bi_set \in BiSettings
  /\ bi = BiState0(bi_set)
  /\ bi_olsr \in SUBSET (Range(BiKernel) \ BiLans)
  /\ bi_other = {}
  /\ bi_left = BI_EVENTS + 1

BiNext ==
  \/ \E f \in BiFails :
       \/ BiLoad(f)
       \/ \E name \in Range(BiKernel) : BiInterfaceAdded(name, f) \/ BiInterfaceRemoved(name, f)
  \/ BiUnload
  \/ BiOtherOpens
  \/ BiOtherCloses
  \/ BiGone

BiSpec == BiInit /\ [][BiNext]_bi_vars
-----------------------------------------------------------------------------
(* Properties                                                              *)

BiFds == UNION {Range(bi.list[i].socks) : i \in DOMAIN bi.list} \cup
         IF bi.tun >= 0 /\ bi_left \in 0..BI_EVENTS THEN {bi.tun} ELSE {}

\* A registered handler has an open socket of its kind and the interface
\* object it was registered with is still in the list, through all restarts
\* and failures of BMF (CreateInterface, CloseBmfNetworkInterfaces).
BiHandlersLive ==
  \A r \in bi.reg :
    /\ r.fd \in DOMAIN bi.open /\ bi.open[r.fd] = r.handler
    /\ \/ r.handler = "tuntap" /\ r.fd = bi.tun
       \/ \E i \in DOMAIN bi.list : bi.list[i].name = r.data /\ bi.list[i].socks[r.handler] = r.fd

\* The objects refer to live OLSR interfaces only: the interface being
\* removed is skipped although OLSR still lists it (InterfaceChange).
BiNoDangling ==
  \A i \in DOMAIN bi.list : bi.list[i].name \in (IF bi.list[i].olsr THEN bi_olsr ELSE BiLans)

\* OLSR interfaces come before LANs.  The flood needs it: forwarding on a
\* LAN rewrites the packet in place, which must be encapsulated by then.
BiOlsrFirst ==
  \A i, j \in DOMAIN bi.list : i < j /\ bi.list[j].olsr => bi.list[i].olsr

\* The sockets that a failed set up leaves open are a capturing one when the
\* listening socket failed and a listening one when the hardware address
\* did; every other descriptor BMF has open is in use.
BiLeaks ==
  \A fd \in DOMAIN bi.open \ BiFds : bi.open[fd] \in {"capture", "listening"} /\ bi_set.promisc

\* BMF closes no descriptor of the rest of the daemon, unless the kernel's
\* interface list could not be read: then EtherTunTapFd is out of date.
BiClosesOwn == bi.stolen # {} => bi.blind

\* Unloaded, BMF has restored the kernel's spoof filter and multicast route
\* (CloseBmf), whatever the number of restarts.
BiRestored == bi_left = -1 => bi.rp = "1" /\ ~bi.route

\* "The default IP address is the address of the first OLSR interface": the
\* tuntap has the address of the first interface, in the kernel's order, that
\* was set up for OLSR, the configured one before the first restart.
BiTunAddress ==
  bi.tun >= 0 /\ bi_left \in 0..BI_EVENTS /\ ~bi.blind =>
    LET up == SelectSeq(BiKernel, LAMBDA n : \E i \in DOMAIN bi.list : bi.list[i].name = n /\ bi.list[i].olsr)
    IN bi.ip = (CASE bi_set.ip = "configured" /\ bi_left = BI_EVENTS -> "configured"
                  [] up # <<>> -> up[1]
                  [] OTHER -> "default")

\* BMF's sockets, interface objects and kernel settings stay its own and in step with
\* OLSR's interfaces, however often an interface change makes it start over.
BiSound ==
  /\ BiHandlersLive /\ BiNoDangling /\ BiOlsrFirst /\ BiLeaks /\ BiClosesOwn
  /\ BiRestored /\ BiTunAddress

(***************************************************************************)
(* The sockets the mdns and p2pd plugins open on the LANs named by their   *)
(* NonOlsrIf parameters: a capture socket, and for mdns an election and a  *)
(* hello socket.  Capture and election sockets are handed to the scheduler *)
(* as they are created, before it is known whether the interface can be    *)
(* set up as a whole.                                                      *)
(***************************************************************************)
CONSTANTS
  LsSystem,          \* the entries of SIOCGIFCONF: a sequence of names
  LsNames,           \* values of the NonOlsrIf parameters
  LS_OTHER,          \* bound: descriptors the rest of the daemon opens
  MAX_NON_OLSR_IFS   \* room for names

VARIABLES
  ls_plugin,     \* "mdns" or "p2pd"
  ls_stage,      \* "params", "loaded" or "closed"
  ls_names,      \* NonOlsrIfNames
  ls_open,       \* descriptor -> what it is
  ls_reg,        \* the scheduler's handlers: a bag, descriptor -> number
  ls_ifs,        \* the interface list: sequence of [name, sockets]
  ls_failed      \* has a set-up failed after a socket was registered

ls_vars == <<ls_plugin, ls_stage, ls_names, ls_open, ls_reg, ls_ifs, ls_failed>>

LsKinds == IF ls_plugin = "mdns" THEN <<"capture", "election", "hello">> ELSE <<"capture">>
LsRegistered == {"capture", "election"}
LsFree(open) == Min(0..Cardinality(DOMAIN open) \ DOMAIN open)
LsOpened(open, what) == LET fd == LsFree(open) IN [x \in DOMAIN open \cup {fd} |-> IF x = fd THEN what ELSE open[x]]
LsClosed(open, fds) == [x \in DOMAIN open \ fds |-> open[x]]
LsCount(reg, fd) == IF fd \in DOMAIN reg THEN reg[fd] ELSE 0
LsAdded(reg, fd) == [x \in DOMAIN reg \cup {fd} |-> LsCount(reg, x) + IF x = fd THEN 1 ELSE 0]
-----------------------------------------------------------------------------
\* The parameters are read before the plugin starts.
LsAddNonOlsrBmfIf(name) ==
  /\ ls_stage = "params" /\ Len(ls_names) < MAX_NON_OLSR_IFS
  /\ ls_names' = Append(ls_names, name)
  /\ UNCHANGED <<ls_plugin, ls_stage, ls_open, ls_reg, ls_ifs, ls_failed>>

LsIsNonOlsrBmfIf(name) == name \in Range(ls_names)

\* One socket of an interface: it cannot be created, fails before it is
\* registered (and is closed again), or is there.
LsCreateCaptureSocket(st, name, ok) ==
  IF ~ok THEN st
  ELSE [open |-> LsOpened(st.open, <<name, "capture">>), reg |-> LsAdded(st.reg, LsFree(st.open)),
        new |-> st.new \cup {LsFree(st.open)}]
LsCreateRouterElectionSocket(st, name, ok) ==
  IF ~ok THEN st
  ELSE [open |-> LsOpened(st.open, <<name, "election">>), reg |-> LsAdded(st.reg, LsFree(st.open)),
        new |-> st.new \cup {LsFree(st.open)}]
LsCreateHelloSocket(st, name, ok) ==
  IF ~ok THEN st
  ELSE [st EXCEPT !.open = LsOpened(st.open, <<name, "hello">>), !.new = @ \cup {LsFree(st.open)}]

LsCreated(st, name, kind, ok) ==
  CASE kind = "capture" -> LsCreateCaptureSocket(st, name, ok)
    [] kind = "election" -> LsCreateRouterElectionSocket(st, name, ok)
    [] kind = "hello" -> LsCreateHelloSocket(st, name, ok)

\* A set-up given up: what was opened is closed again, the handlers stay.
LsGivenUp(st, s) ==
  [st EXCEPT !.open = LsClosed(s.open, s.new), !.reg = s.reg,
             !.failed = @ \/ \E fd \in s.new : s.open[fd][2] \in LsRegistered]
LsComplete(st, name, s) ==
  [st EXCEPT !.open = s.open, !.reg = s.reg, !.ifs = Append(@, [name |-> name, fds |-> s.new])]
LsFresh(st) == [open |-> st.open, reg |-> st.reg, new |-> {}]

MdCreateInterface_Leak(st, name, works, mac) ==
  LET Create(s, kind) == LsCreated(s, name, kind, kind \in works)
      s == FoldLeft(Create, LsFresh(st), LsKinds)
  IN IF Range(LsKinds) \subseteq works /\ mac THEN LsComplete(st, name, s)
     ELSE LsGivenUp(st, [s EXCEPT !.new = {fd \in @ : s.open[fd][2] # "hello"}])
\* mdns: all three sockets are tried, whatever became of the first (works:
\* those that can be made); then the hardware address is asked for (mac).
MdCreateInterface(st, name, works, mac) ==
  LET Create(s, kind) == LsCreated(s, name, kind, kind \in works)
      s == FoldLeft(Create, LsFresh(st), LsKinds)
  IN IF Range(LsKinds) \subseteq works /\ mac THEN LsComplete(st, name, s) ELSE LsGivenUp(st, s)

\* p2pd: the capture socket, then the hardware address.
P2CreateInterface(st, name, works, mac) ==
  LET s == LsCreateCaptureSocket(LsFresh(st), name, "capture" \in works)
  IN IF "capture" \in works /\ mac THEN LsComplete(st, name, s) ELSE LsGivenUp(st, s)

LsCreateInterface(st, name, works, mac) ==
  IF ls_plugin = "mdns" THEN MdCreateInterface(st, name, works, mac)
  ELSE P2CreateInterface(st, name, works, mac)

\* Every entry of the system's list that a parameter names (an interface with
\* two addresses has two entries); without a socket to ask with there is no
\* list.
LsCreateAll ==
  /\ ls_stage = "params"
  /\ ls_stage' = "loaded"
  /\ \/ UNCHANGED <<ls_open, ls_reg, ls_ifs, ls_failed>>
     \/ \E works \in [1..Len(LsSystem) -> SUBSET Range(LsKinds)], macs \in SUBSET (1..Len(LsSystem)) :
          LET named == SelectSeq([i \in 1..Len(LsSystem) |-> i], LAMBDA i : LsIsNonOlsrBmfIf(LsSystem[i]))
              Entry(st, i) == LsCreateInterface(st, LsSystem[i], works[i], i \in macs)
              done == FoldLeft(Entry, [open |-> ls_open, reg |-> ls_reg, ifs |-> ls_ifs, failed |-> ls_failed], named)
          IN ls_open' = done.open /\ ls_reg' = done.reg /\ ls_ifs' = done.ifs /\ ls_failed' = done.failed
  /\ UNCHANGED <<ls_plugin, ls_names>>

MdCreateNetworkInterfaces == ls_plugin = "mdns" /\ LsCreateAll
P2CreateNetworkInterfaces == ls_plugin = "p2pd" /\ LsCreateAll

\* At exit, after the main loop has ended: handlers are not removed.
LsCloseAll ==
  /\ ls_stage = "loaded"
  /\ ls_stage' = "closed"
  /\ ls_open' = LsClosed(ls_open, UNION {i.fds : i \in Range(ls_ifs)})
  /\ ls_ifs' = <<>>
  /\ UNCHANGED <<ls_plugin, ls_names, ls_reg, ls_failed>>
MdCloseNetworkInterfaces == ls_plugin = "mdns" /\ LsCloseAll
P2CloseNetworkInterfaces == ls_plugin = "p2pd" /\ LsCloseAll

\* The rest of the daemon opens a descriptor of its own, with a handler.
LsOtherOpens ==
  /\ ls_stage = "loaded"
  /\ Cardinality({fd \in DOMAIN ls_open : ls_open[fd][1] = "daemon"}) < LS_OTHER
  /\ ls_open' = LsOpened(ls_open, <<"daemon", "other">>)
  /\ ls_reg' = LsAdded(ls_reg, LsFree(ls_open))
  /\ UNCHANGED <<ls_plugin, ls_stage, ls_names, ls_ifs, ls_failed>>

LsInit ==
  /\ ls_plugin \in {"mdns", "p2pd"} /\ ls_stage = "params" /\ ls_names = <<>>
  /\ ls_open = [fd \in {0} |-> <<"daemon", "other">>] /\ ls_reg = [fd \in {0} |-> 1]
  /\ ls_ifs = <<>> /\ ls_failed = FALSE

LsNext ==
  \/ \E name \in LsNames : LsAddNonOlsrBmfIf(name)
  \/ MdCreateNetworkInterfaces \/ P2CreateNetworkInterfaces \/ LsOtherOpens
  \/ MdCloseNetworkInterfaces \/ P2CloseNetworkInterfaces
  \/ ls_stage = "closed" /\ UNCHANGED ls_vars

LsSpec == LsInit /\ [][LsNext]_ls_vars
-----------------------------------------------------------------------------
(* Properties                                                              *)

\* Whatever part of the set-up fails, the plugin's open sockets are exactly
\* those of the interfaces in its list, so that closing the list closes all
\* (the error paths of CreateInterface).
LsAccounted ==
  {fd \in DOMAIN ls_open : ls_open[fd][1] # "daemon"} = UNION {i.fds : i \in Range(ls_ifs)}

\* Every interface in the list can be captured on: each of its sockets is
\* open, and the ones to be read have a handler.
LsListedLive ==
  \A i \in Range(ls_ifs) :
    /\ \A k \in Range(LsKinds) : \E fd \in i.fds \cap DOMAIN ls_open : ls_open[fd] = <<i.name, k>>
    /\ \A fd \in i.fds : ls_open[fd][2] \in LsRegistered => LsCount(ls_reg, fd) > 0

\* As long as no set-up failed half-way, a descriptor has one handler and
\* every handler's descriptor is open while the main loop runs.  (After a
\* failure the handler of a closed capture or election socket remains, and
\* reads whatever gets its number next.)
LsOneHandler ==
  ls_stage # "closed" /\ ~ls_failed =>
    \A fd \in DOMAIN ls_reg : ls_reg[fd] = 1 /\ fd \in DOMAIN ls_open

\* The sockets, the interface list and the registered handlers of mdns and p2pd agree,
\* whichever step of the set-up of an interface fails.
LsSound == LsAccounted /\ LsListedLive /\ LsOneHandler
=============================================================================
