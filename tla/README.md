# Verification of olsrd

TLA+ models of the OLSR daemon of this repository and of its plugins, TLC
configurations that check them on small instances, and TLAPS proofs of the most
important properties for all instances. `PROJECT.json` maps every definition to
the lines it models; line numbers below refer to the same sources.

## 1. The system

olsrd is a daemon for proactive routing in ad-hoc networks (RFC 3626 with the
link-quality extensions). It is single threaded: `olsr_scheduler` reads sockets,
runs timers, processes changes and starts again. All concurrency is in the order
in which messages, timers, signals and socket callbacks arrive, in the network,
which loses, repeats and reorders messages, and in the kernel, which refuses
calls and takes interfaces away.

* A packet comes in through the sockets of an interface. The duplicate set says
  whether a flooded message was seen before; a relay copies it to the output
  buffers.
* HELLOs and MIDs make links, neighbours, two-hop neighbours and aliases, the
  link quality plugin measures the links, and the relay selection reads the
  result. TCs and HNAs make the link-state database and the prefixes in it.
* Handlers raise change flags. Once in a pass of the loop `olsr_process_changes`
  turns them into a relay selection, an SPF run, an update of the RIB and of the
  kernel, and calls of the plugins.
* Generators send HELLO, TC, MID and HNA from timers. The smart gateway builds
  tunnels to Internet gateways and offers its own uplinks.
* Plugins flood LAN traffic (bmf, mdns, p2pd), names (nameservice) and positions
  (pud), sign packets (secure) or answer requests (jsoninfo, txtinfo, httpinfo).

What makes this hard to test: a TC that is generated before the ANSN is
increased; numbers that wrap or restart; a message that is lost in part; entries
with different lifetimes that point to each other; flags that one consumer
clears before another has used them; a callback that removes the timer or socket
the caller is looking at; a kernel that refuses a change half-way. The hazards
of `PROJECT.json` list these with their lines.

## 2. Modules

| Module | Code | What it models |
|---|---|---|
| `OlsrClock` | `scheduler.c` | the wrapping millisecond clock and its comparisons |
| `DuplicateSet` | `duplicate_set.c` | the bit array as a set of offsets, creation, window test, cleanup, shutdown notice |
| `TcSet` | `tc_set.c` | vertices, edges, inverse edges, prefixes, reference counters, timers; one action per outcome of `olsr_input_tc` |
| `TcFlood` | `lq_packet.c`, `mpr_selector_set.c`, `scheduler.c` | `TcSet` composed with a sender and an unreliable network |
| `TcFragments` | `lq_packet.c`, `tc_set.c` | one TC cut in fragments, each received or lost |
| `Neighborhood`, `NeighborTables` | `link_set.c`, `hysteresis.c`, `process_package.c`, `neighbor_table.c`, `two_hop_neighbor_table.c`, `mid_set.c`, `mpr_selector_set.c` | the tables with their timers; HELLO, MID and every timer as an action |
| `LinkQuality` | `lq_plugin.c`, `lq_plugin_default_ff.c`, `_ffeth.c`, `_fpm.c` | the measurement of links from the packet to the cost |
| `Mpr` | `mpr.c` | every pass of the loops of one relay selection |
| `PriorityQueue`, `BinaryHeap` | `common/heap.c` | what `olsr_spf.c` expects of its candidate set, and the pointer heap that implements it |
| `AvlTree` | `common/avl.c` | insertion and deletion with rotations, duplicates and the list of nodes |
| `Spf` | `olsr_spf.c` | own edges, one step per extracted vertex, routes |
| `Rib` | `routing_table.c`, `process_routes.c`, `linux/kernel_routes_nl.c`, `interfaces.c` | announcements, update after SPF, devices that go down and up, interfaces that are removed and return, shutdown, kernel calls that fail |
| `HnaSet` | `hna_set.c`, `mid_set.c`, `tc_set.c` | who keeps a prefix in the routing table |
| `MainLoop` | `scheduler.c`, `olsr.c`, `olsr_spf.c` | phases of a pass, change flags, SPF backoff; databases are version numbers |
| `TimerWheel` | `scheduler.c`, `olsr_cookie.c` | slots, the walk, callbacks that start and stop timers, recycled memory |
| `Interfaces` | `interfaces.c`, `unix/ifnet.c`, `scheduler.c` | interfaces that come and go during the walk over the sockets |
| `Daemon` | `main.c`, `plugin_loader.c`, `linux/net.c` | start, lock, plugins, borrowed host settings, signals, restart, end of the daemon's processes |
| `Messages` | `packet.c`, `build_msg.c`, `generate_msg.c`, `lq_packet.c`, `parser.c`, `olsr.c`, `net_olsr.c` | what own messages carry, how they are cut, forwarding and the output buffers |
| `Gateways` | `gateway.c`, `gateway_list.c`, `gateway_default_handler.c`, `egressFile.c`, `linux/kernel_tunnel.c` | choice of gateways, lists, tunnels, routes; own egress links |
| `ConfigFile` | `cfgparser/`, `main.c` | statements, merge, checks, the written file |
| `Bmf`, `PluginSockets` | `lib/bmf` | the flood among nodes; sockets and settings over restarts of the plugin |
| `Mdns`, `P2pd`, `PluginSockets` | `lib/mdns`, `lib/p2pd` | election and flood; flood with filters; the sockets of both |
| `NameService` | `lib/nameservice` | tables, timers, files |
| `Pud`, `PudIo` | `lib/pud` | averaging and movement; parameters, resources and traffic |
| `Secure` | `lib/secure` | the time stamp exchange of two nodes |
| `InfoServer` | `lib/jsoninfo`, `lib/txtinfo`, `lib/httpinfo` | requests, structure of the replies, several clients |
| `MC*` | | instances for TLC, one module per run; `ShortestPaths` has its reference definition in `MCRoutes` |
| `*Proofs`, end of `MainLoop` | | theorems |

A run that looks at several components has a variable `part`, chosen in the
initial state, that names the component a behaviour is about; the others do not
move, so the state spaces add up. In the same way a component with several
configurations chooses one in `Init`. Components that interact are composed
where their interaction is the question: sender, network and receiver
(`TcFlood`), links, neighbours, aliases and selectors (`Neighborhood`), gateways
with egress links, topology entries with HNA and MID (`HnaSet`), heap and queue.

Many C functions change global tables and are called from several handlers.
They become operators from a record of the tables to the record they leave, and
an action is the composition the handler makes of them.

A definition placed before another one and named after it with a suffix
(`CleanUp_One` for `CleanUp`) is a mutated form, a plausible mistake that one
property must notice. No specification uses these forms.

### Abstractions

* Addresses, prefixes, names and payloads are model values or small numbers.
  Where bits matter (`TcFragments`) an address has two bytes of two bits; where
  sizes matter (`Messages`) they are counted in words of four bytes, the
  granularity of every field counted.
* Sequence numbers, windows and clocks keep their wrap-around at a smaller
  modulus. Qualities and costs of `LinkQuality` keep their integer widths.
* Timers count ticks, or fire at any time where only the order matters
  (`HnaSet`, `Messages`, `Gateways`).
* An SPF run is many steps in `Spf` and one in `Rib`; no callback runs inside it.
  `Spf` takes the candidate set to be a priority queue; `BinaryHeap` shows the
  heap to be one.
* In `Gateways` a cost is what `gw_costs_weigh` makes of a path cost, the two
  /1 routes are one, scripts and IPv6 multi-gateway mode are left out.
* The bytes of netlink messages, NMEA sentences and HTML are left out.

## 3. Runs

Every passing run explores its state space completely; its properties are
conjunctions, and each conjunct is a definition of its own with a comment.

| Run | What it checks | What it shows |
|---|---|---|
| `topology` | `WindowExact`, `MemoryKept`, `DatabaseConsistent`, `FragmentsTile` | The bit array is an exact memory of what was let through, but for the message that creates an entry; a fresh message passes and only silent originators are forgotten. Inverse pointers, reference counters, timers and prefixes of the database balance. The border ranges of fragments cover the address space, and in network order touch no edge of another fragment. |
| `tc_flood` | `FloodSafe`, `StaleEdgesGo` | Over a network that loses, repeats and reorders, a receiver keeps no revoked edge except under the same ANSN, revoked edges go for good, and a restarted sender is heard again. |
| `routes` | `PathsCertified`, `ShortestPaths`, `RelaysSuffice`, `StructuresSound`, `ImplementsQueue` | SPF finds the shortest paths of every small database; the relay selection covers every two-hop neighbour before its optimization and reports dropped relays; heap and AVL tree keep their shape; the heap implements the priority queue (refinement). |
| `rib` | `KernelFollowsRib`, `BestInstalled`, `RoutesMatchAnnouncements`, `RouteStepsSound` | The kernel follows the RIB but for three named events (a device goes down, one of the two calls of a change fails, an entry is flushed while its route is still there), and catches up with the next accepted change where routes replace each other; where no call failed the entry has the elected path; a prefix has a path exactly while something announces it; the default route does not flap and no path changes unnoticed. |
| `neighborhood` | `TablesAgree`, `ForgottenInTime`, `ChangesReported`, `LkCostsSound`, `LkStepsSound` | Links, neighbours, two-hop neighbours, aliases and own edges agree through all orders of messages and timers, silent neighbours leave nothing behind, and every change is reported; costs follow what was received. |
| `daemon` | `WheelSound`, `InterfacesSound`, `ChangesPending`, `DmClean`, `ServedInTime` | No timer is lost, shared, early or late whatever callbacks do; interfaces and sockets follow the kernel; no change flag is lost; one daemon runs, keeps its settings while others wait in vain, and takes them back; walks end and changes reach the routes when no backoff runs. |
| `gateways` | `GatewaysSound`, `EgressFollowed`, `MessagesWhole` | Lists, tunnels, routes and timers of gateways agree, also when the kernel refuses tunnels and routes; the best egress link is the one announced and routed; no entry of an own message is lost or doubled when it is cut, and buffers suffice. |
| `flood_plugins` | `BmfFloods`, `BiSound`, `MdElected`, `P2Floods`, `LsSound` | Floods reach every node and end, a multicast packet after one round and a rewritten broadcast after one per address; BMF's sockets and settings survive its restarts; a LAN has one mdns router once hellos settle; sockets are accounted for whatever fails. |
| `plugins` | `NsSound`, `PdSound`, `PudIoSound`, `SecRegistered`, `CfFollowsFiles`, `IsAnswers`, `PluginStepsSound` | Name files follow the announcements; positions are sent as configured; nodes with one key agree on their clock difference; a written configuration reads back; every client gets its own whole reply. |
| `main_loop_backoff` | `RoutesCatchUp` | violated, see finding 1 |
| `mpr_covered` | `Covered` | violated, see finding 2 |
| `renumbered` | `NeighborExists` | violated, see finding 3 |

### Bounds

* `topology`: one originator (entries do not interact), 12 numbers and a window
  of 4, so that numbers fall inside, below and above the window and wrap; six
  ticks with a validity of two, without a wrap of the clock. Two addresses and
  one prefix, eight numbers: all relations of the windows occur. Up to three
  neighbours of 14 addresses, one or two per fragment, every loss pattern.
* `tc_flood`: two changes, one restart, up to two copies of a message. A message
  stays in flight for fewer than `TC_SEQNO_WINDOW` later ones and fewer than
  `MAX_IGNORED` late copies arrive in a row; beyond that the code itself takes
  them for a restart.
* `routes`: all databases over four nodes with one-way, asymmetric and broken
  edges, two runs; three neighbours of which one may be asymmetric and is also a
  two-hop neighbour, coverage 2; five heap nodes with all operations and a star
  of twelve, from where on the climb from `last_node` crosses two levels; AVL
  trees of seven keys, with and without duplicates, and the smallest tree in
  which one deletion rebalances twice.
* `rib`: two originators, two gateways or interfaces, version numbers modulo 2,
  in six setups: failing calls with stable devices, failing devices without and
  with failing calls, metrics that follow the hop count, IPv6 with failing calls
  and devices, and a link-local destination. Two originators, which are
  interchangeable (symmetry), an alias and two networks, one of which is also
  announced by this node, one HNA at a time. olsrd goes on without interfaces
  (`AllowNoInt`, the default).
* `neighborhood`: a neighbour with two interfaces, two neighbours that list the
  interfaces of a third node or each other, one with changing willingness, one
  with hysteresis; validity of two ticks; windows of three packets, five sequence numbers, and the exact
  arithmetic of etx_fpm over up to 70 lost HELLOs. The tables of all costs are
  checked pair by pair.
* `daemon`: two slots and a clock of 12 instants that wraps, timers with jitter
  and callbacks that start and stop each other; two interfaces, four
  descriptors, two queued netlink messages; two or three processes in ten
  configurations, which the proof of `DmClean` extends to any number of them and
  to any number of interfaces; two changes per database, one processed and one that comes
  while the first is under way.
* `gateways`: two gateways and two egress links with up to two costs and two
  speeds in nine configurations, nine configurations of messages with buffers so small that every message is cut.
* `flood_plugins`: up to four nodes in eight networks; three kernel interfaces,
  one on which every step of the set-up may fail, and two interface changes; two
  or three mdns routers and two or three p2pd routers on up to three LANs, with
  a time to live that ends a flood on the way or lasts for it.
* `plugins`: two name service neighbours with two messages each way and a restart,
  or two with five name servers; up to five position readings; two nodes with two or three challenges and at most two
  packets in the air; files of a few statements; two clients.

Deadlock is checked in all passing runs. Where the modelled activity really
ends (a complete message, the last run, a shutdown) an explicit stuttering
action of the MC module says so (`Over`, `Ended`, `Exited`, `Stopped`).

### Fairness

* `MainLoop`: each phase of the loop ends, as every callback returns; the
  backoff timer, armed for a second, fires in some later walk of the timers
  (strong fairness, since it can fire only in that phase).
* `TimerWheel`: the walk goes on; nothing is assumed of time.
* `TcFlood`: the TC timer is periodic; the receiver's timers fire; the network
  does not lose every message (strong fairness of sending without loss and of
  delivery). The last is an assumption about the network, not about the code.

## 4. Findings

1. `main_loop_backoff`: while the backoff timer runs `olsr_calculate_routing_table`
   returns without a calculation (`olsr_spf.c:393`), the flags are cleared
   (`olsr.c:241`), and the timer's callback starts no run. The routes stay old
   until something else changes.
2. `mpr_covered`: `olsr_optimize_mpr_set` does not decrement the cover counts
   when it drops a relay (`mpr.c:503`). Two relays that reach the same two-hop
   neighbour, chosen at different levels of willingness, can both go.
3. `renumbered`: `lookup_link_entry` renames the neighbour entry of a link whose
   sender announces another main address (`link_set.c:667`) without looking for
   an entry that has that address already; the deletion of one of the two, which
   searches by address, may free the entry another link points to.

### Observations

Behaviour met while modelling that no run of its own records. The models follow
the code; where it matters the comment of a property names the exception.

Topology and routes
* The message that creates a duplicate entry is not recorded
  (`duplicate_set.c:83`); its second copy passes once. Two instants are compared
  with `>` (`duplicate_set.c:154`), so near the wrap of the clock entries are
  not refreshed.
* After a restart the ANSN begins at 0; edges with a greater ANSN are not
  revoked (`tc_set.c:585`) as long as TCs keep arriving. IPv4 addresses compare
  as native integers, so on little-endian machines a fragment may delete edges
  that another one lists.
* The SPF run that adds the edge to a new neighbour gives it no quality
  (`olsr_spf.c:491`); the neighbour gets its route in the next run.
* With IPv6 or metrics that follow the hop count the old route is deleted first
  (`process_routes.c:267`); if the addition then fails or is skipped `rt_nexthop`
  names a route that is gone. An interface that is removed flushes entries
  without a kernel call (`process_routes.c:398`): if only its address changed
  (`unix/ifnet.c:275`, `305`), or a change was refused before, the kernel keeps a
  route that no entry knows.
* An alias and an HNA of the same prefix share one path; whichever goes first
  takes it along, and `HnaSet` records such networks (`hna_cut`). An empty MID
  prunes all aliases. A 0/0 network that expires deletes the gateway although
  another message may have renewed it.
* `neighbor_2_nocov` is a running sum because `n_count` is not reset
  (`mpr.c:342`), and `olsr_check_mpr_changes` reports only dropped relays
  (`mpr.c:275`).

Neighbourhood
* The timer of a two-hop entry is changed and not set when the entry is made
  (`process_package.c:272`); such an entry lives until its neighbour goes.
* A MID that redirects links does not adjust `linkcount` at once
  (`link_set.c:759`); a renamed neighbour is not reported as a change.
* etx_fpm rounds up, so with an aging below about 0.04 lost HELLOs never break a
  link; the Ethernet booster of etx_ffeth leaves a silent link at full quality
  (`lq_plugin_default_ffeth.c:244`).

Daemon
* The PID file is written and host settings are changed before the lock is
  taken (`main.c:531`); overlapping starts can save each other's values, and a
  second instance that fails at its PID file takes back rules of the first. A
  signal during the shutdown starts it again, and `olsr_close_plugins` then
  closes handles that are NULL (`plugin_loader.c:318`).
* A plugin or lock that fails ends the process without taking settings back. An
  interface that goes down loses its saved settings; one that comes up later
  gets no rule. The return value of a plugin's init function is ignored.
* Interface settings of the command line are dropped (`main.c:950`, where the
  comment at `main.c:431` says otherwise). `AutoDetectChanges`, `MinTCVTime`,
  `SetIpForward` and values equal to their default are not written back, and
  plugins and parameters change their order with each write. Of the link quality
  multipliers only those of the first interface are written: `if_appendf` drops
  the lines of every block written without comments (`cfgfile_gen.c:97`). A
  priority given as the number it would get by itself is written as automatic.
  The check of the table numbers compares one past the last number with the
  limit (`olsrd_conf.c:689`), and the limit of 2^31 is far above what the
  `uint8_t` of `gateway.h:85` and `egressTypes.h:61` can hold.
* Block recycling lets the walk of the timers read the flags of a freed timer;
  `TimerWheel` treats the read as the memory's current content. Interface
  renumbering leaves IPv4 links; a lost netlink message doubles an interface
  until the poll.
* `serialize_hello6` ends the daemon where the IPv4 form leaves an empty buffer
  (`build_msg.c:441`); `fwdtimer` is set and read but never makes a packet go out.

Gateways
* A tunnel that fails is not tried again until the choice changes
  (`gateway.c:1434`). IPv6 gateways never expire, a list is not sorted again
  when costs change, and an ineligible current gateway stays.
* An absent egress link counts with cost 0; routes per link are not added again
  when a link returns. New speeds of the best egress link that leave its cost as
  it was, as all do with an ETX divider of 0, are not announced: `egressBwChanged`
  compares cost, network and gateway only (`egressTypes.h:107`).

Plugins
* BMF: a local broadcast is rewritten to the broadcast address of every LAN and
  has another checksum there, so it is flooded again, and comes back, once per
  address. A configured tuntap address is lost at the first restart
  (`NetworkInterfaces.c:101`); failed set-ups leave capture or listening sockets
  open; `EtherTunTapFd` keeps its value, so a failing interface list can close a
  descriptor of the daemon.
* mdns: the network identifier of a second router overwrites the first
  (`RouterElection.c:200`); entries age once per LAN. p2pd: without a filter a
  packet is flooded again by every router of a LAN. Both leave handlers of closed
  sockets registered after a half-failed set-up.
* nameservice: MAC entries are never recognised as saved; a name that is a proper
  prefix of a stored one is not stored; a changed address is not updated; up to
  four name servers are written where a comment says three.
* pud: `averageDepth` 1 is accepted; the list is then not created, which
  `startReceiver` does not notice (`receiver.c:803`). The function given to the
  message parser is never removed (`pud.c:374`); updates of the
  uplink are passed on before the duplicate test; readings without accuracy
  never make a node stationary.
* secure: challenges that cross are dropped until the timeout; `valtime` is read
  uninitialised (`olsrd_secure.c:133`).
* Information servers: `if (0 <= select(...))` is always true, so `recv` may
  block; jsoninfo has no limit of clients; a neighbour without two-hop entries
  leaves its txtinfo line open.

## 5. Proofs

The theorems hold for every value of the constants that the named assumptions
admit. Each rests on an inductive invariant; but for `RibInv`, `DmInv`
and `SecInv`, whose additional conjuncts TLC checked before the proof, it is
itself a property of a run.

* **`DuplicateSetProofs`** (`DuplicateSetAssumption`: the window fits in half the
  number space, the validity time in half the clock). `WindowExact` is inductive:
  to types and array exactness it adds that without an entry nothing is
  remembered. The core is a lemma that a left shift keeps offsets and numbers
  aligned across the wrap. `FreshPasses` follows from it. `ForgetsOnlySilent` and
  `MemoryIsKept` also assume `NoWrap`, that the clock stays below its wrap, and
  need that `valid_until` is the time last heard plus the validity time.
* **`TcSetProofs`** (finite sets of addresses and prefixes).
  `DatabaseConsistent` is inductive: exact counters need that edges and prefixes
  belong to entries of the tree, and mutual pointers need the types of the
  edges. Lemmas treat the addition and the deletion of a set of edges of one
  node once; each action instantiates them.
* **`SpfProofs`** (naturals as costs). `PathsCertified` joins legal use of the
  queue, `Settled`, `Relaxed` and `TightTree` with facts on `tc_myself` and on
  next hops of neighbours. That path costs are least follows from `Relaxed` and
  `TightTree` by induction over paths, which is left to TLC (`ShortestPaths`).
* **`MainLoop`** (any number of versions). `ChangesPending` is inductive as it
  stands. `ProcessedAll` says what one call of `olsr_process_changes` leaves
  behind and serves both of its callers, the loop and `olsr_hello_tap`.
* **`HnaSetProofs`** (`HnaAssumption`: `NOMAIN` is no originator, the own networks
  are networks; host prefixes, aliases and networks may coincide).
  The handlers are compositions of operators on a record of the tables, so the
  invariant is stated of a record (`Sound`), each operator is shown to keep it,
  and `RoutesMatchAnnouncements` is `Sound` of the current record. The invariant
  must remember the networks that lost their path to another source
  (`hna_cut`) and the paths an alias shares (`hna_shared`): without them neither
  direction is inductive. The same decomposition proves that a step which
  changes the paths raises a flag (`PathChangesFlagged`).
* **`RibProofs`** (`RibAssumption`: finitely many originators, a threshold
  between 1 and 100 percent, no link-local prefix announced with IPv4; any calls
  may fail and any devices go down and interfaces be removed, together and in
  any order). The inductive invariant `RibInv` joins
  - `RibTypes`, types that tell a missing entry from a present one;
  - `RoutesSound`, the routes of the kernel lead over devices that are up;
  - `PathsCurrent`, every path in the RIB is announced, carries the current
    version and leaves by an interface in use, so that a version that differs
    from the last one, however few bits it has, tells the paths to drop;
  - `BestKept`, an entry for which no call failed remembers the best path, and
    `CleanShutdown`.
  The update after an SPF run is a composition of pruning, election, deletions,
  changes and additions for all prefixes at once; lemmas follow one entry
  through it, and the steps for SPF, interface removal and shutdown instantiate
  them. That an election has a winner rests on a minimum lemma for finite sets
  of naturals. `BestPathInstalled` follows from `RibInv`. `KernelFollows` is an
  action property: kernel and entry need not agree in every state, since the code
  lets them part, so each step is shown to keep the agreement or to be one of
  the three events `KernelFollowsRib` names. `HysteresisKept` follows from the
  order `olsr_cmp_rtp` and the same invariant.
* **`DaemonProofs`** (`DmAssumption`: flags are Boolean, settings 0 or 1, main
  tries at least once for the lock). `DmCleanAlways` proves `DmClean` for any
  number of processes, interfaces and plugins. That at most one process is past
  the lock, that it has all its plugins and that an orderly end of all leaves no
  rule holds however the processes overlap. That settings are kept and restored
  is stated while `DmInTurn`: a process that started over the settings of another
  and gets the lock, or fails on its PID file, breaks it (section 4). Processes
  that die are followed, what they leave behind is not restored by anyone.
  `DmClean` speaks of single states and is far from inductive; `DmInv` adds to
  the types
  - `DmPlaces`, what a process remembers at each place of its life, and that the
    lock is with the one that got it until it ends;
  - `DmOver`, of two processes that have made their settings one started while
    the other had (`over`), and while `DmInTurn` such a process cannot end in
    order: it only waits for the lock, or dies;
  - `DmInForce`, the settings are in force from the options on and not only in
    the loop, so that a process that starts in vain rewrites what is there;
  - `DmBorrowed`, the value a setting had before the first process is in the
    kernel or in the memory of the one process that is in force, at every step
    of a shutdown that signals may start again;
  - `DmOwned`, each rule and `lo:olsr` has the owner of the lock as its owner, or
    an interface that went down.
  Lemmas say what a step that leaves a part of the kernel alone keeps of each
  conjunct; there is one lemma per action, and three for `olsr_shutdown`.
* **`SecureProofs`** (`SecAssumption`: delays, hold times and phases of the timer
  are naturals, what `malloc` leaves behind is any set of integers, and the time of
  day is larger than a packet's delay, so that the 0 a node starts from is never
  taken for a reading). `SecRegisteredAlways` proves `SecRegistered`, and
  `SecExchangeKeptAlways` the action property `SecExchangeKept` (an entry goes at
  its time-out at the earliest, which `olsr_isTimedOut` includes), for any clocks
  and any number of lost, repeated and reordered packets and restarts. `SecInv`
  says what packets under way and entries can hold:
  - a clock reading, the node's own or a packet's, is 0 or at most a second old
    when it is used, so a measured difference of the clocks is `SecNear`: off by
    at most a second one way, a second and the delay the other. Averages of such
    differences, rounded to zero as C does, stay there. Two near differences
    differ by less than `UPPER_DIFF` when packets take at most a second
    (`SecNoSkew`), and those of the two nodes sum up to `SecAgree`;
  - the time stamp 0 of a node that has not read its clock is refused as skewed
    by a node that has, so it never enters an average;
  - challenges are drawn once, so an answer in the air to the challenge an entry
    holds was made after the node asked (`AnswersOK`), which is `SecFresh` once
    it is accepted.

  `WorkOK` states the same of what a node holds inside a handler; each of
  `send_challenge`, `send_cres`, `parse_cres`, `check_timestamp`... keeps it.

Only model-checked:

* liveness (`StaleEdgesGo`, `ServedInTime`, `RoutesCatchUp`), since the prover
  handles neither fairness nor `ENABLED`;
* what recursion over data computes: `ShortestPaths`, `BinaryHeap` with its
  refinement of `PriorityQueue`, `AvlTree`, `InfoServer`;
* the components whose handlers are folds over sequences of tables
  (`Neighborhood`, `Gateways`, `Messages`, `PluginSockets`, `NameService`,
  `ConfigFile`), because a fold has no induction theorem within
  the prover's reach;
* so far, `TcFlood`, `TcFragments`, `Mpr`, `TimerWheel`, `Interfaces`,
  `LinkQuality`, `Bmf`, `Mdns`, `P2pd`, `Pud` and `PudIo`.

## 6. Not modelled

* Relay selection by link quality (`lq_mpr.c`): only when it runs.
* Time encoding (`mantissa.c`) and the floating-point quality algorithm
  (etx_float): floating point. The nl80211 variant reads the driver.
* NIIT routes other than with the gateway they follow, scripts, IPv6
  multi-gateway mode.
* Text: the configuration scanner, printouts, HTML pages, NMEA sentences, the
  wire format of positions.
* Plugins with a few lines of state each (ping watchers, quagga, dot output,
  file followers), the GTK front end, the switch simulator and the ports to
  other systems.

`PROJECT.json` gives the status and reason for each component.
