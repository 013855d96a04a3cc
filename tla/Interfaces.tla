----------------------------- MODULE Interfaces -----------------------------
(***************************************************************************)
(* The interfaces of the daemon (src/interfaces.c, src/unix/ifnet.c) and    *)
(* the socket list that olsr_scheduler selects on (src/scheduler.c).  An    *)
(* interface comes and goes on messages of the kernel's netlink socket and  *)
(* when the timer check_interface_updates polls it; its sockets, timers,    *)
(* buffer, links and the sockets of plugins (lib/bmf) come and go with it,  *)
(* in the middle of the walk over the socket list.                          *)
(*                                                                          *)
(* The two sockets of an interface are one, and so are those the BMF plugin *)
(* opens per interface.  The kernel gives out the lowest free descriptor.   *)
(*                                                                          *)
(* The tables of the daemon are one record s:                               *)
(*   ifnet    the list of interfaces, ids of memory blocks                  *)
(*   ifp      id -> the interface in that memory                            *)
(*   interf   configured interface -> the id of its interface, 0 for none   *)
(*   socks    the socket list; a removed entry stays until it is cleaned up *)
(*   open     the open descriptors                                          *)
(*   links    the links, with the interface that received the HELLO         *)
(*   bmf      the descriptors of the plugin                                 *)
(*   exit     olsr_exit was called                                          *)
(*                                                                          *)
(* Definitions named after the next one with a suffix are mutated forms.    *)
(***************************************************************************)
EXTENDS Integers, Sequences, FiniteSets
LOCAL INSTANCE SequencesExt

CONSTANTS
  IfNames,           \* the configured interfaces
  Autodetect,        \* those with autodetect_chg, polled by the timer
  Replugged,         \* those whose device may be replaced
  Readdressed,       \* those whose address may change
  BMF,               \* is the plugin loaded?
  ALLOW_NO_INTERFACES,
  MAX_QUEUE,         \* bound on the netlink messages that wait
  MAX_LINKS,         \* bound on the links
  MAX_SOCKS          \* bound on the socket list when the kernel reports a change

NO_IFP == [name |-> "", index |-> 0, addr |-> <<"", 0>>, bound |-> 0, fd |-> -1]
Ids == 1 .. Cardinality(IfNames) + 1
Fds == 0 .. 4 * Cardinality(IfNames)
NETLINK == 0

VARIABLES
  if_pc,      \* where olsr_scheduler is
  cursor,     \* the entry of the socket list the walk is at, 0 for its end
  bits,       \* the descriptors select reported
  kdev,       \* interface -> its device in the kernel; index 0: no device
  netlink,    \* the queue of the netlink socket
  ifs,        \* the tables
  stale       \* handlers that were called for another socket's data

if_vars == <<if_pc, cursor, bits, kdev, netlink, ifs, stale>>

Least(S) == CHOOSE x \in S : \A y \in S : x <= y
Up(n) == kdev[n].index # 0 /\ kdev[n].up
----------------------------------------------------------------------------
\* The socket list: poll is process_pollrate, otherwise process_immediate.
add_olsr_socket(s, fd, poll) ==
  [s EXCEPT !.socks = Append(@, [fd |-> fd, poll |-> poll, live |-> TRUE, asked |-> FALSE])]

\* The entry is only marked, the walks over the list are not disturbed.
remove_olsr_socket(s, fd, poll) ==
  [s EXCEPT !.socks = [k \in DOMAIN @ |->
     IF s.socks[k].fd = fd /\ s.socks[k].poll = poll
     THEN [s.socks[k] EXCEPT !.live = FALSE] ELSE s.socks[k]]]

OpenFd(s) == Least(Fds \ s.open)

\* rtnetlink_read is an immediate handler.
rtnetlink_register_socket(s) == add_olsr_socket(s, NETLINK, FALSE)

\* InterfaceChange of the BMF plugin: every socket is closed, and opened again
\* for the interfaces of ifnet but the one that goes.
InterfaceChange(s, skip) ==
  LET Close[F \in SUBSET s.bmf] ==
        IF F = {} THEN s
        ELSE LET fd == Least(F)
                 t == Close[F \ {fd}]
             IN remove_olsr_socket([t EXCEPT !.open = @ \ {fd}, !.bmf = @ \ {fd}], fd, FALSE)
      kept == SelectSeq(s.ifnet, LAMBDA i : i # skip)
      Open[k \in 0 .. Len(kept)] ==
        IF k = 0 THEN Close[s.bmf]
        ELSE LET t == Open[k - 1]
                 fd == OpenFd(t)
             IN add_olsr_socket([t EXCEPT !.open = @ \cup {fd}, !.bmf = @ \cup {fd}], fd, FALSE)
  IN IF BMF THEN Open[Len(kept)] ELSE s

\* olsr_delete_link_entry_by_ip
olsr_delete_link_entry_by_ip(s, addr) ==
  [s EXCEPT !.links = {l \in @ : l.local # addr}]

\* The timers and the output buffer are part of the memory that is freed.
olsr_remove_interface(s, n) ==
  LET id == s.interf[n]
      told == InterfaceChange(olsr_delete_link_entry_by_ip(s, s.ifp[id].addr), id)
      fd == told.ifp[id].fd
      gone == [told EXCEPT !.ifnet = SelectSeq(@, LAMBDA i : i # id), !.interf[n] = 0,
                           !.ifp[id] = NO_IFP, !.open = @ \ {fd}]
  IN [remove_olsr_socket(gone, fd, TRUE) EXCEPT
        !.exit = @ \/ (gone.ifnet = <<>> /\ ~ALLOW_NO_INTERFACES)]

\* The structure of an interface that comes up, with its socket bound to the device.
NewInterface(n, fd) ==
  [name |-> n, index |-> kdev[n].index, addr |-> kdev[n].addr, bound |-> kdev[n].index, fd |-> fd]

\* It becomes the first of ifnet, its socket is registered, and the plugins are told.
AddInterface(s, n, id, fd) ==
  LET t == [s EXCEPT !.ifp[id] = NewInterface(n, fd), !.ifnet = <<id>> \o @, !.interf[n] = id,
                     !.open = @ \cup {fd}]
  IN InterfaceChange(add_olsr_socket(t, fd, TRUE), 0)

\* chk_if_up.  Without a socket to receive on the daemon exits, without one to
\* send on the interface stays down.
chk_if_up(s, n, sockets) ==
  CASE ~Up(n) \/ sockets = "no_send" -> s
    [] Up(n) /\ sockets = "no_receive" -> [s EXCEPT !.exit = TRUE]
    [] Up(n) /\ sockets = "ok" ->
         AddInterface(s, n, Least(Ids \ {s.ifnet[k] : k \in DOMAIN s.ifnet}), OpenFd(s))

\* chk_if_changed.  The new address is stored before the interface is removed.
chk_if_changed(s, n, sockets) ==
  LET id == s.interf[n]
      t == [s EXCEPT !.ifp[id].index = kdev[n].index]
      readdressed == [t EXCEPT !.ifp[id].addr = kdev[n].addr]
  IN CASE ~Up(n) -> olsr_remove_interface(s, n)
       [] Up(n) /\ kdev[n].addr = t.ifp[id].addr -> t
       [] Up(n) /\ kdev[n].addr # t.ifp[id].addr ->
            LET u == olsr_remove_interface(readdressed, n)
            IN IF u.exit THEN u ELSE chk_if_up(u, n, sockets)

\* check_interface_updates, the interfaces in the order of the configuration.
check_interface_updates(s, sockets) ==
  LET Check[N \in SUBSET Autodetect] ==
        IF N = {} THEN s
        ELSE LET n == CHOOSE x \in N : TRUE
                 t == Check[N \ {n}]
             IN IF t.exit THEN t
                ELSE IF t.interf[n] # 0 THEN chk_if_changed(t, n, sockets)
                ELSE chk_if_up(t, n, sockets)
  IN Check[Autodetect]

if_ifwithindex(s, index) == {k \in DOMAIN s.ifnet : s.ifp[s.ifnet[k]].index = index}

\* netlink_process_link.  A message names the device by its index; the name is
\* looked up in the kernel when the message is read.
netlink_process_link(s, msg, sockets) ==
  LET found == if_ifwithindex(s, msg.index)
      named == {n \in IfNames : kdev[n].index = msg.index}
  IN IF found = {} /\ msg.up /\ named # {}
     THEN chk_if_up(s, CHOOSE n \in named : TRUE, sockets)
     ELSE IF found # {} /\ ~msg.up
     THEN olsr_remove_interface(s, s.ifp[s.ifnet[Least(found)]].name)
     ELSE s

\* rtnetlink_read: everything that waits.
rtnetlink_read(s, sockets) ==
  LET Read[k \in 0 .. Len(netlink)] ==
        IF k = 0 THEN s
        ELSE IF Read[k - 1].exit THEN Read[k - 1]
        ELSE netlink_process_link(Read[k - 1], netlink[k], sockets)
  IN Read[Len(netlink)]
----------------------------------------------------------------------------
SocketsOutcome == {"ok", "no_send", "no_receive"}

Become(s, pc) == ifs' = s /\ if_pc' = IF s.exit THEN "exited" ELSE pc

\* The kernel: a device goes up or down, is replaced, gets another address.
\* It matters to the daemon at its next look.
KernelMoves == if_pc \in {"timers", "handle_fds"} /\ Len(ifs.socks) <= MAX_SOCKS

Announce(n, up) == netlink' = Append(netlink, [index |-> kdev[n].index, up |-> up])

KernelLink(n) ==
  /\ KernelMoves /\ kdev[n].index # 0 /\ Len(netlink) < MAX_QUEUE
  /\ kdev' = [kdev EXCEPT ![n].up = ~@]
  /\ Announce(n, ~kdev[n].up)
  /\ UNCHANGED <<if_pc, cursor, bits, ifs, stale>>

\* The device is pulled (it goes down first) and another one comes up.
KernelReplug(n) ==
  /\ KernelMoves /\ n \in Replugged /\ Up(n) /\ Len(netlink) + 2 <= MAX_QUEUE
  /\ LET fresh == Least((1 .. Cardinality(IfNames) + 1) \ {kdev[m].index : m \in IfNames})
     IN /\ kdev' = [kdev EXCEPT ![n].index = fresh]
        /\ netlink' = netlink \o << [index |-> kdev[n].index, up |-> FALSE],
                                    [index |-> fresh, up |-> TRUE] >>
  /\ UNCHANGED <<if_pc, cursor, bits, ifs, stale>>

KernelAddress(n) ==
  /\ KernelMoves /\ n \in Readdressed /\ if_pc = "timers"
  /\ kdev' = [kdev EXCEPT ![n].addr = <<n, 3 - @[2]>>]
  /\ UNCHANGED <<if_pc, cursor, bits, netlink, ifs, stale>>
----------------------------------------------------------------------------
\* The FD_SET loops: the entries of some kind are asked for.
Asked(s, kinds) ==
  [s EXCEPT !.socks = [k \in DOMAIN @ |->
     [s.socks[k] EXCEPT !.asked = s.socks[k].live /\ s.socks[k].poll \in kinds]]]

AskedFds(s) == {s.socks[k].fd : k \in {i \in DOMAIN s.socks : s.socks[i].asked}}

\* The netlink socket is readable if a message waits, the others may be.
Readable(S) ==
  {B \in SUBSET S : NETLINK \in S => (NETLINK \in B <=> netlink # <<>>)}

\* A handler of this kind is called for the entry k.
EntryReady(s, k, poll) == s.socks[k].live /\ s.socks[k].poll = poll /\ s.socks[k].fd \in bits'

\* The walk goes on at entry k of s, over the entries that are not ready.
WalkFrom(s, k, poll, walk, done) ==
  LET ahead == {i \in DOMAIN s.socks : i >= k /\ EntryReady(s, i, poll)}
  IN IF s.exit THEN if_pc' = "exited" /\ cursor' = 0 /\ ifs' = s
     ELSE IF ahead # {} THEN if_pc' = walk /\ cursor' = Least(ahead) /\ ifs' = s
     ELSE if_pc' \in done /\ cursor' = 0 /\ ifs' = Asked(s, {})

\* The entry after the one at the cursor is looked up before its handler runs: a
\* handler of the last entry may add entries, the walk ends all the same.
After == IF cursor = Len(ifs.socks) THEN 2 * Len(ifs.socks) + 1 ELSE cursor + 1

NoteStale ==
  stale' = IF ifs.socks[cursor].asked THEN stale ELSE stale \cup {ifs.socks[cursor].poll}

if_ifwithsock(s, fd) == {s.ifnet[k] : k \in {i \in DOMAIN s.ifnet : s.ifp[s.ifnet[i]].fd = fd}}

\* olsr_input reads a HELLO on the interface of the socket.
olsr_input(s, fd) ==
  [s EXCEPT !.links =
     IF Cardinality(@) = MAX_LINKS THEN @
     ELSE @ \cup {[local |-> s.ifp[i].addr, inter |-> i] : i \in if_ifwithsock(s, fd)}]

\* The handler of the entry at the cursor; BMF's forward packets and change
\* nothing here.
Handle(poll, walk, done) ==
  /\ if_pc = walk
  /\ UNCHANGED <<bits, kdev>>
  /\ NoteStale
  /\ LET fd == ifs.socks[cursor].fd
     IN \/ /\ fd = NETLINK
           /\ netlink' = <<>>
           /\ \E o \in SocketsOutcome :
                WalkFrom(rtnetlink_read(ifs, o), After, poll, walk, done)
        \/ /\ fd # NETLINK
           /\ UNCHANGED netlink
           /\ WalkFrom(IF poll THEN olsr_input(ifs, fd) ELSE ifs, After, poll, walk, done)

\* poll_sockets: the select without waiting, and the walk.
PollSelect ==
  /\ if_pc = "poll_sockets"
  /\ LET s == Asked(ifs, {TRUE})
     IN bits' \in Readable(AskedFds(s)) /\ WalkFrom(s, 1, TRUE, "poll_walk", {"timers"})
  /\ UNCHANGED <<kdev, netlink, stale>>

PollEntry == Handle(TRUE, "poll_walk", {"timers"})

\* walk_timers: links expire and the interfaces are polled.
Timers ==
  /\ if_pc = "timers"
  /\ \/ Become(ifs, "handle_fds")
     \/ ifs.links # {} /\ Become([ifs EXCEPT !.links = {}], "handle_fds")
     \/ \E o \in SocketsOutcome : Become(check_interface_updates(ifs, o), "handle_fds")
  /\ UNCHANGED <<cursor, bits, kdev, netlink, stale>>

\* handle_fds: a round of its select, and another one while time remains.
ImmSelect ==
  /\ if_pc = "handle_fds"
  /\ LET s == Asked(ifs, {FALSE})
     IN bits' \in Readable(AskedFds(s)) /\ WalkFrom(s, 1, FALSE, "handle_walk", {"clean_up"})
  /\ UNCHANGED <<kdev, netlink, stale>>

ImmEntry == Handle(FALSE, "handle_walk", {"handle_fds", "clean_up"})

CleanUp_One ==
  /\ if_pc = "clean_up"
  /\ if_pc' = "poll_sockets"
  /\ LET dead == {k \in DOMAIN ifs.socks : ~ifs.socks[k].live}
     IN ifs' = IF dead = {} THEN ifs ELSE [ifs EXCEPT !.socks = RemoveAt(@, Least(dead))]
  /\ bits' = {}
  /\ UNCHANGED <<cursor, kdev, netlink, stale>>

\* The end of handle_fds: the entries that were removed go.
CleanUp ==
  /\ if_pc = "clean_up"
  /\ if_pc' = "poll_sockets"
  /\ ifs' = [ifs EXCEPT !.socks = SelectSeq(@, LAMBDA e : e.live)]
  /\ bits' = {}
  /\ UNCHANGED <<cursor, kdev, netlink, stale>>

\* olsr_init_interfacedb: no interface is up yet, the first pass finds them.
IfInit ==
  /\ if_pc = "timers" /\ cursor = 0 /\ bits = {} /\ netlink = <<>> /\ stale = {}
  /\ LET order == CHOOSE f \in [IfNames -> 1 .. Cardinality(IfNames)] :
                    \A m, n \in IfNames : f[m] = f[n] => m = n
     IN kdev = [n \in IfNames |-> [index |-> order[n], up |-> FALSE, addr |-> <<n, 1>>]]
  /\ ifs = rtnetlink_register_socket(
             [ifnet |-> <<>>, ifp |-> [i \in Ids |-> NO_IFP],
              interf |-> [n \in IfNames |-> 0], socks |-> <<>>, open |-> {NETLINK},
              links |-> {}, bmf |-> {}, exit |-> FALSE])

IfNext ==
  \/ PollSelect \/ PollEntry \/ Timers \/ ImmSelect \/ ImmEntry \/ CleanUp
  \/ \E n \in IfNames : KernelLink(n) \/ KernelReplug(n) \/ KernelAddress(n)
----------------------------------------------------------------------------
Configured(n) == ifs.interf[n] # 0
LiveSocks(poll) == {k \in DOMAIN ifs.socks : ifs.socks[k].live /\ ifs.socks[k].poll = poll}

\* Every variable stays in its domain.
IfTypeOK ==
  /\ if_pc \in {"poll_sockets", "poll_walk", "timers", "handle_fds", "handle_walk",
                "clean_up", "exited"}
  /\ cursor \in 0 .. Len(ifs.socks) /\ bits \subseteq Fds
  /\ ifs.interf \in [IfNames -> Ids \cup {0}] /\ ifs.open \subseteq Fds
  /\ \A n \in IfNames : Configured(n) => ifs.ifp[ifs.interf[n]].fd \in Fds
  /\ Len(netlink) <= MAX_QUEUE /\ stale \subseteq BOOLEAN

\* The interfaces in ifnet are exactly those of the configured names, and each
\* socket that select is given is open and registered once, however netlink
\* messages and the polling timer interleave (iface->interf, ifnet and the
\* socket list are changed apart, in chk_if_up and olsr_remove_interface).
InterfacesConsistent ==
  if_pc # "exited" =>
    /\ {ifs.ifnet[k] : k \in DOMAIN ifs.ifnet} = {ifs.interf[n] : n \in IfNames} \ {0}
    /\ \A n \in IfNames : Configured(n) => ifs.ifp[ifs.interf[n]].name = n
    /\ \A n \in IfNames : Configured(n) =>
         Cardinality({k \in LiveSocks(TRUE) : ifs.socks[k].fd = ifs.ifp[ifs.interf[n]].fd}) = 1
    /\ \A k \in DOMAIN ifs.socks : ifs.socks[k].live =>
         /\ ifs.socks[k].fd \in ifs.open
         /\ \A j \in DOMAIN ifs.socks :
              ifs.socks[j].live /\ ifs.socks[j].fd = ifs.socks[k].fd => j = k

\* An entry that was removed is gone before the next pass (the end of
\* handle_fds, whichever way its loop is left).
RemovedCleanedUp ==
  if_pc = "poll_sockets" => \A k \in DOMAIN ifs.socks : ifs.socks[k].live

\* Once the netlink messages are read, an interface that is configured is up in
\* the kernel, although a message may be older than what the polling timer saw
\* (netlink_process_link takes the state from the message, the name from the kernel).
FollowsKernel ==
  if_pc = "poll_sockets" /\ netlink = <<>> => \A n \in IfNames : Configured(n) => Up(n)

\* Once the netlink messages are read, the sockets of an interface that is not
\* polled are bound to the device that is there now: a device that was replaced
\* takes its interface with it (the down message before the up message).
BoundToDevice ==
  if_pc = "poll_sockets" /\ netlink = <<>> =>
    \A n \in IfNames \ Autodetect : Configured(n) => ifs.ifp[ifs.interf[n]].bound = kdev[n].index

LinkBacked(l) == \E n \in IfNames : ifs.interf[n] = l.inter /\ ifs.ifp[l.inter].addr = l.local

\* A link is on an interface that exists: olsr_remove_interface takes the links
\* of an interface with it.  An interface that got another address is excepted.
LinksBacked ==
  if_pc # "exited" => \A l \in ifs.links : l.local[1] \notin Readdressed => LinkBacked(l)

\* A handler called at the polling rate is called because its own socket is
\* readable, not one that had its descriptor before (poll_sockets walks a list
\* the handlers change, with the bits of a select made before).
PollReadiness == TRUE \notin stale

\* Interfaces, sockets and links stay consistent with each other and with the kernel,
\* in whatever order netlink messages, the polling timer and the handlers come.
InterfacesSound ==
  /\ IfTypeOK /\ InterfacesConsistent /\ RemovedCleanedUp /\ FollowsKernel /\ BoundToDevice
  /\ LinksBacked /\ PollReadiness
=============================================================================
