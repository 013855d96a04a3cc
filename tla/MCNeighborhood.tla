--------------------------- MODULE MCNeighborhood ---------------------------
(***************************************************************************)
(* One run for the neighbourhood: the tables of links, neighbours, two-hop  *)
(* neighbours and aliases (Neighborhood) and the link quality algorithms    *)
(* (LinkQuality).  A behaviour is one of the component that part names; the *)
(* other does not move.                                                     *)
(***************************************************************************)
EXTENDS Neighborhood, LinkQuality

CONSTANTS x1, x2, b1, t1, t2,      \* addresses
          Parts

VARIABLE part

Says(from, main, says, mprs, wills, listed) ==
  [from : {from}, main : {main}, link : says, mpr : mprs, will : wills, listed : listed]

AllLinks == {"SYM", "ASYM", "LOST", "UNSPEC"}

\* multi: one neighbour with the interfaces x1 (main) and x2.  two: the neighbours
\* x1 and b1, which list a node with the interfaces t1 (main) and t2.  mutual: two
\* neighbours that list each other.
\* alone: one neighbour with changing willingness, that selects the daemon as a
\* relay or does not.  hyst: one neighbour and hysteresis.  renumbered: a node that was heard on x1,
\* comes back with the interfaces x2 (now main) and x1.
MCSetups == {"multi", "two", "mutual", "alone", "hyst"}

MCRenumbered == {"renumbered"}

MCHellos ==
  [ multi |-> Says(x1, x1, AllLinks, {FALSE}, {"DEFAULT"}, {{}})
              \cup Says(x2, x1, {"SYM", "ASYM", "LOST"}, {FALSE}, {"DEFAULT"}, {{}}),
    two   |-> Says(x1, x1, {"SYM"}, {FALSE}, {"DEFAULT"}, {{t2}, {t1}})
              \cup Says(b1, b1, {"SYM"}, {FALSE}, {"DEFAULT"}, {{t1}}),
    mutual |-> Says(x1, x1, {"SYM"}, {FALSE}, {"DEFAULT"}, {{b1}})
              \cup Says(b1, b1, {"SYM"}, {FALSE}, {"DEFAULT"}, {{x1}}),
    alone |-> Says(x1, x1, AllLinks, {TRUE, FALSE}, {"NEVER", "DEFAULT"}, {{}, {t1}}),
    hyst  |-> Says(x1, x1, AllLinks, {FALSE}, {"DEFAULT"}, {{}}),
    renumbered |-> Says(x1, x1, {"SYM"}, {FALSE}, {"DEFAULT"}, {{}})
                   \cup Says(x1, x2, {"SYM"}, {FALSE}, {"DEFAULT"}, {{}})
                   \cup Says(x2, x2, {"SYM"}, {FALSE}, {"DEFAULT"}, {{}}) ]

MCMids ==
  [ multi |-> {[main |-> x1, aliases |-> {x2}]},
    two   |-> {[main |-> t1, aliases |-> {t2}]},
    mutual |-> {},
    alone |-> {},
    hyst  |-> {},
    renumbered |-> {[main |-> x2, aliases |-> {x1}]} ]

MCHysteresis == [multi |-> FALSE, two |-> FALSE, mutual |-> FALSE, alone |-> FALSE, hyst |-> TRUE,
                 renumbered |-> FALSE]

----------------------------------------------------------------------------
\* Small windows for the counting algorithms, the exact arithmetic of the moving
\* average, a table of every cost, and the state of rest without links.
MCLkBase ==
  [handler |-> "ff", ether |-> FALSE, table |-> FALSE, links |-> 1, mult |-> 256, helloint |-> 1,
   aging |-> 3276, packets |-> 2, gaps |-> {1}, foreign |-> {0, 255}, peers |-> {"ff"}, losses |-> 0,
   heard |-> {1}]

MCLkEth == [MCLkBase EXCEPT !.handler = "ffeth", !.peers = {"ffeth"}]

MCLkFpm == [MCLkBase EXCEPT !.handler = "fpm", !.foreign = {0, 255}, !.losses = 70]

MCLkConfigs ==
  <<[MCLkBase EXCEPT !.gaps = {0, 1, 4}, !.foreign = {255}],
    [MCLkBase EXCEPT !.losses = 2, !.helloint = 2, !.foreign = {255}, !.gaps = {1, 2}, !.packets = 1],
    [MCLkBase EXCEPT !.links = 2, !.gaps = {1, 2}, !.packets = 1, !.foreign = {245}],
    [MCLkBase EXCEPT !.mult = 128, !.packets = 1, !.gaps = {1, 3}],
    [MCLkEth EXCEPT !.gaps = {1, 2}, !.foreign = {254}, !.losses = 2, !.helloint = 2, !.packets = 1],
    [MCLkEth EXCEPT !.ether = TRUE, !.losses = 1, !.helloint = 2, !.foreign = {255}, !.gaps = {1, 2}, !.packets = 1],
    [MCLkEth EXCEPT !.peers = {"ff", "fpm"}, !.packets = 1],
    [MCLkBase EXCEPT !.peers = {"ffeth"}, !.packets = 1],
    MCLkFpm,
    [MCLkFpm EXCEPT !.mult = 200],
    [MCLkFpm EXCEPT !.aging = 655, !.losses = 20],
    [MCLkFpm EXCEPT !.aging = 65535, !.losses = 3],
    [MCLkBase EXCEPT !.table = TRUE],
    [MCLkEth EXCEPT !.table = TRUE],
    [MCLkFpm EXCEPT !.table = TRUE],
    [MCLkBase EXCEPT !.links = 0]>>

----------------------------------------------------------------------------
TablesPart == part = "tables" /\ Next /\ UNCHANGED lk_vars
QualityPart == part = "quality" /\ LkNext /\ UNCHANGED vars

\* The daemon has sent its last messages and ended.
Ended == part = "tables" /\ phase = "down" /\ UNCHANGED <<vars, lk_vars>>

MCInit ==
  /\ part \in Parts
  /\ Init /\ (part = "quality" => setup = CHOOSE s \in Setups : TRUE)
  /\ IF part = "quality" THEN LkInit /\ LkCnf.links > 0 ELSE LkInitFor(Len(MCLkConfigs), 0)

MCNext == (TablesPart \/ QualityPart \/ Ended) /\ UNCHANGED part

MCSpec == MCInit /\ [][MCNext]_<<vars, lk_vars, part>>
=============================================================================
