---------------------------- MODULE DestStatic ----------------------------
(***************************************************************************)
(* A destination with a list of servers from the configuration:            *)
(* create_standalone_destination() makes it of the class that the option   *)
(* routing_strategy names, which it stays.                                 *)
(***************************************************************************)
EXTENDS DestRoundRobin, DestOrdered

staticVars == <<vars, orderedVars>>

\* What the ordered strategies do not have.
quarantineVars == <<server_pos, quarantined_, stopping_, mgrVars>>

StaticInit ==
  \/ strategy = "round-robin" /\ Init /\ served = 0 /\ abandoned = {}
  \/ /\ OrderedInit
     /\ server_pos = 0 /\ quarantined_ = << >> /\ stopping_ = FALSE
     /\ mgr = "unborn" /\ cpy = << >> /\ k = 1

StaticNext ==
  \/ strategy = "round-robin" /\ Next /\ UNCHANGED <<strategy, served, abandoned>>
  \/ strategy # "round-robin" /\ OrderedNext /\ UNCHANGED quarantineVars

StaticSpec == StaticInit /\ [][StaticNext]_staticVars
FairStaticSpec == StaticSpec /\ (strategy = "round-robin" => Fairness)
===========================================================================
