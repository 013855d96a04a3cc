----------------------------- MODULE MCGateways -----------------------------
(***************************************************************************)
(* One run for what the node offers to the others: the smart gateways with *)
(* the egress links (Gateways) and the messages it sends (Messages); part  *)
(* says which of the two a behaviour is about, the other does not move.    *)
(*                                                                         *)
(* The gateways on two gateways and two egress links: one gateway at a     *)
(* time with tunnels that may fail, one that comes behind a NAT, two at a  *)
(* time with a threshold and take-down, IPv6 with NIIT, and multi-gateway  *)
(* mode with one gateway and one link, or no gateway and both links,       *)
(* changing.                                                               *)
(***************************************************************************)
EXTENDS Gateways, Messages

VARIABLE part

hna(v4, v6, speed, ext) == [v4 |-> v4, v6 |-> v6, speed |-> speed, ext |-> ext]
plain == hna("yes", FALSE, TRUE, 0)
noSpeed == hna("yes", FALSE, FALSE, 0)

MCGws == <<"g1", "g2">>
MCEgress == <<"eth", "ppp">>

\* Lines of the egress file: a slow link, a faster one, and one so much farther that
\* it costs the same as the slow one when the speed counts.
slow == [path |-> 1, speed |-> 1, net |-> "lan", gw |-> "r1"]
fast == [slow EXCEPT !.speed = 2]
far == [slow EXCEPT !.path = 2, !.speed = 2]

single ==
  [ip |-> "v4", niit |-> FALSE, use |-> 1, thresh |-> 0, nat |-> FALSE, takedown |-> 0,
   weigh |-> FALSE, stable |-> 1, own |-> {}, fails |-> TRUE, costs |-> {1, 3}, waiting |-> 0,
   gws |-> {"g1", "g2"}, egress |-> {}, lines |-> {},
   hnas |-> {plain}]
natted == [single EXCEPT !.gws = {"g1"}, !.hnas = {plain, hna("nat", FALSE, TRUE, 0)}]
multiple ==
  [single EXCEPT !.use = 2, !.thresh = 100, !.nat = TRUE, !.takedown = 50, !.weigh = TRUE,
                 !.stable = 0, !.fails = FALSE, !.hnas = {plain, noSpeed}]
niit ==
  [single EXCEPT !.ip = "v6", !.niit = TRUE, !.nat = TRUE, !.stable = 0, !.fails = FALSE,
                 !.costs = {1}, !.gws = {"g1"},
                 !.hnas = {hna("yes", TRUE, TRUE, 0), hna("no", TRUE, TRUE, 56)}]
own == [natted EXCEPT !.own = {"v4"}, !.fails = FALSE, !.thresh = 100]
uplink == [multiple EXCEPT !.gws = {"g1"}, !.egress = {"eth"}, !.thresh = 0, !.hnas = {plain}, !.costs = {1},
                           !.lines = {slow}, !.waiting = 1]
uplinks == [uplink EXCEPT !.gws = {}, !.egress = {"eth", "ppp"}, !.waiting = 2]
speeds == [uplinks EXCEPT !.lines = {slow, fast, far}, !.waiting = 0]
classic == [speeds EXCEPT !.weigh = FALSE, !.lines = {slow, fast}]
MCConfigs == {single, natted, own, multiple, niit, uplink, uplinks, speeds, classic}
-----------------------------------------------------------------------------
\* The messages, with buffers so small that every message is chopped.
MCIfs == {1, 2}

\* A neighbour: address, interface, link type, symmetric, MPR, selector, cost broken.
Nbr(a, on, lk, sym, mpr, sel, broken) ==
  [a |-> a, on |-> on, lk |-> lk, sym |-> sym, mpr |-> mpr, sel |-> sel, broken |-> broken]
Sym(a, on) == Nbr(a, on, 2, TRUE, FALSE, TRUE, FALSE)
Mpr(a, on) == Nbr(a, on, 2, TRUE, TRUE, FALSE, FALSE)
Asym(a, on) == Nbr(a, on, 1, FALSE, FALSE, FALSE, FALSE)
Bad(a, on) == Nbr(a, on, 3, TRUE, FALSE, TRUE, TRUE)
Hidden(a, on) == Nbr(a, on, HIDE_LINK, FALSE, FALSE, FALSE, FALSE)

Base == [ip |-> 1, lq |-> TRUE, ifs |-> {1}, mtu |-> 13, mtus |-> {13}, cap |-> 11, hello |-> 2, tc |-> 3,
         imm |-> FALSE, red |-> 2, aliases |-> 0, hna |-> FALSE, nets |-> 0, gw |-> "none",
         gws |-> {"none"}, mode |-> [i \in MCIfs |-> "mesh"], pkts |-> {},
         tables |-> {<<>>, <<Sym(1, 1), Mpr(2, 1)>>, <<Asym(3, 1), Sym(2, 1), Mpr(1, 1), Bad(4, 1)>>}]

Relayed(id, sz) == [id |-> id, sz |-> sz, own |-> FALSE, relay |-> TRUE, bad |-> FALSE, last |-> FALSE]

Lq4 == [Base EXCEPT !.aliases = 2, !.mtus = {10, 13}]
Rfc4 == [Base EXCEPT !.lq = FALSE, !.aliases = 3, !.mtu = 8, !.mtus = {7, 8}, !.red = 1]
Lq6 == [Base EXCEPT !.ip = 4, !.mtu = 21, !.mtus = {21}, !.cap = 18, !.aliases = 1]
Rfc6 == [Base EXCEPT !.ip = 4, !.lq = FALSE, !.mtu = 18, !.mtus = {18}, !.cap = 16, !.aliases = 1, !.red = 0]
Early == [Base EXCEPT !.imm = TRUE, !.hello = 3, !.tc = 2]
Two == [Base EXCEPT !.ifs = {1, 2}, !.hello = 1, !.tables = {<<>>, <<Sym(1, 1), Mpr(2, 2)>>}]
Gateway == [Base EXCEPT !.hna = TRUE, !.nets = 1, !.tables = {<<>>},
                        !.gws = {"none", "on", "zero"}, !.hello = 1, !.tc = 1]
NoNets == [Gateway EXCEPT !.nets = 0]
Relay == [Base EXCEPT !.ifs = {1, 2}, !.mode = [i \in MCIfs |-> IF i = 2 THEN "ether" ELSE "mesh"],
                      !.hello = 1, !.tc = 1, !.tables = {<<Sym(1, 1), Sym(3, 2)>>},
                      !.pkts = {<<Relayed("a", 5), Relayed("b", 13)>>,
                                <<[Relayed("a", 4) EXCEPT !.last = TRUE], [Relayed("b", 3) EXCEPT !.own = TRUE],
                                  [Relayed("a", 4) EXCEPT !.bad = TRUE], Relayed("b", 3)>>}]

MCCnf == [lq4 |-> Lq4, rfc4 |-> Rfc4, lq6 |-> Lq6, rfc6 |-> Rfc6, early |-> Early, two |-> Two,
          gateway |-> Gateway, nonets |-> NoNets, relay |-> Relay]

-----------------------------------------------------------------------------
GatewayPart == part = "gateways" /\ GwNext /\ UNCHANGED bm_vars
MessagePart == part = "messages" /\ BmNext /\ UNCHANGED gw_vars

\* The daemon has stopped.
Stopped ==
  /\ IF part = "gateways" THEN sgw.phase = "down" ELSE ob.run \in {"down", "exit"}
  /\ UNCHANGED <<gw_vars, bm_vars>>

MCInit ==
  \/ part = "gateways" /\ GwInit /\ ob = BmStart("lq4")
  \/ part = "messages" /\ BmInit /\ GwInitFor(single)

MCNext == (GatewayPart \/ MessagePart \/ Stopped) /\ UNCHANGED part

MCSpec == MCInit /\ [][MCNext]_<<gw_vars, bm_vars, part>>
=============================================================================
