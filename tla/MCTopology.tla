----------------------------- MODULE MCTopology -----------------------------
(***************************************************************************)
(* One run for what a node keeps about flooded messages and the topology:   *)
(* the duplicate set (DuplicateSet), the link-state database (TcSet) and    *)
(* the fragments of one large TC (TcFragments).  A behaviour is one of the  *)
(* component that part names; the others do not move, so the state spaces   *)
(* add up and do not multiply.                                              *)
(***************************************************************************)
EXTENDS DuplicateSet, TcSet, TcFragments

VARIABLE part

DuplicatePart == part = "duplicates" /\ DupNext /\ UNCHANGED <<vars, fragVars>>
TcPart == part = "tc" /\ Next /\ UNCHANGED <<dupVars, fragVars>>
FragmentPart == part = "fragments" /\ FragNext /\ UNCHANGED <<dupVars, vars>>

\* All fragments of the message have arrived or are lost.
FragmentsOver ==
  part = "fragments" /\ next > Fragments /\ UNCHANGED <<dupVars, vars, fragVars>>

\* The components that do not move start in one fixed state.
MCInit ==
  /\ part \in {"duplicates", "tc", "fragments"}
  /\ DupInit
  /\ Init /\ (part # "tc" => tc_myself = CHOOSE a \in Addrs : TRUE)
  /\ IF part = "fragments" THEN FragInit ELSE FragInitFor(TRUE, {1}, 1, {})

MCNext ==
  /\ DuplicatePart \/ TcPart \/ FragmentPart \/ FragmentsOver
  /\ UNCHANGED part

MCSpec == MCInit /\ [][MCNext]_<<dupVars, vars, fragVars, part>>
=============================================================================
