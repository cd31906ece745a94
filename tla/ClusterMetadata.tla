-------------------------- MODULE ClusterMetadata --------------------------
(***************************************************************************)
(* Stage 2 of a metadata refresh: ClusterMetadata::update_replicaset_status*)
(* asks the instances listed in the metadata (MD), one after the other,    *)
(* for their view of Group Replication (GR), until one of them is part of  *)
(* a quorum; check_replicaset_status turns that view into the mode of each *)
(* instance.  Only modes leave this module: they are the routing table.    *)
(*                                                                         *)
(* A view is what fetch_group_replication_members() returns, as the two    *)
(* queries it runs give it.  UNREACHABLE, OFFLINE, ERROR and unknown       *)
(* states, which the code treats alike, are "other".                       *)
(***************************************************************************)
EXTENDS Naturals, FiniteSets

CONSTANTS NumInstances,  \* instances defined in the metadata
          NumExtra       \* servers GR may report although MD lacks them

ASSUME ClusterAssumption == NumInstances \in Nat \ {0} /\ NumExtra \in Nat

Instances == 1..NumInstances
Nodes     == 1..(NumInstances + NumExtra)
NoPrimary == 0

States == {"online", "recovering", "other", "absent"}
Views  == [state : [Nodes -> States], primary : Nodes \cup {NoPrimary}, single : BOOLEAN]

(***************************************************************************)
(* The functions of the code.                                              *)
(***************************************************************************)

\* member_status: the servers the view lists.
Members(v) == {m \in Nodes : v.state[m] # "absent"}

\* fetch_group_replication_members(): in multi-primary mode everyone is primary.
IsPrimary(v, m) == v.primary = m \/ ~v.single

\* check_replicaset_status(): the mode of an instance ...
ModeOf(v, m) ==
  IF v.state[m] # "online" THEN "NA" ELSE IF IsPrimary(v, m) THEN "RW" ELSE "RO"

\* ... the instances that count for the quorum ...
QuorumMembers(v) == {m \in Instances : v.state[m] \in {"online", "recovering"}}

\* ... and whether they are a majority of the servers in the view.
HaveQuorum(v) == Cardinality(QuorumMembers(v)) > Cardinality(Members(v)) \div 2

Status(v) ==
  IF ~HaveQuorum(v) THEN "Unavailable"
  ELSE IF \A m \in Instances : ModeOf(v, m) = "NA" THEN "UnavailableRecovering"
  ELSE IF \E m \in Instances : ModeOf(v, m) = "RW" THEN "AvailableWritable"
  ELSE "AvailableReadOnly"

(***************************************************************************)
(* update_replicaset_status().                                             *)
(***************************************************************************)
VARIABLES
  views,    \* the view each instance would report
  at,       \* the instance the loop is at
  st,       \* "iterate" or "done"
  members,  \* replicaset.members: all instances, or none once cleared
  mode,     \* ManagedInstance::mode of each
  single_primary_mode,
  found_quorum

vars == <<views, at, st, members, mode, single_primary_mode, found_quorum>>

TypeOK ==
  /\ views \in [Instances -> Views]
  /\ at \in 1..(NumInstances + 1)
  /\ st \in {"iterate", "done"}
  /\ members \subseteq Instances
  /\ mode \in [Instances -> {"RW", "RO", "NA"}]
  /\ single_primary_mode \in BOOLEAN
  /\ found_quorum \in BOOLEAN

Init ==
  /\ views \in [Instances -> Views]
  /\ at = 1
  /\ st = "iterate"
  /\ members = Instances
  /\ mode = [m \in Instances |-> "NA"]
  /\ single_primary_mode = TRUE
  /\ found_quorum = FALSE

\* The instance cannot be connected to, or one of the two queries fails.
NodeUnusable ==
  /\ st = "iterate" /\ at <= NumInstances
  /\ at' = at + 1
  /\ UNCHANGED <<views, st, members, mode, single_primary_mode, found_quorum>>

\* Mutant: instances the view does not list keep the mode they had.
NewModesStale(v) ==
  [m \in Instances |-> IF v.state[m] = "absent" THEN mode[m] ELSE ModeOf(v, m)]

NewModes(v) == [m \in Instances |-> ModeOf(v, m)]

\* The instance is not part of a quorum.  The modes are overwritten all the same.
NodeNoQuorum ==
  /\ st = "iterate" /\ at <= NumInstances
  /\ Status(views[at]) = "Unavailable"
  /\ mode' = NewModes(views[at])
  /\ at' = at + 1
  /\ UNCHANGED <<views, st, members, single_primary_mode, found_quorum>>

\* Mutant: the replication mode of the view is not taken over.
NodeQuorumNoMode ==
  /\ st = "iterate" /\ at <= NumInstances
  /\ Status(views[at]) # "Unavailable"
  /\ mode' = NewModes(views[at])
  /\ found_quorum' = TRUE
  /\ st' = "done"
  /\ UNCHANGED <<views, at, members, single_primary_mode>>

\* The first instance that is part of a quorum ends the search.
NodeQuorum ==
  /\ st = "iterate" /\ at <= NumInstances
  /\ Status(views[at]) # "Unavailable"
  /\ mode' = NewModes(views[at])
  /\ single_primary_mode' = views[at].single
  /\ found_quorum' = TRUE
  /\ st' = "done"
  /\ UNCHANGED <<views, at, members>>

\* No instance is part of a quorum: nothing is given to the routing plugin.
GiveUp ==
  /\ st = "iterate" /\ at = NumInstances + 1
  /\ members' = {}
  /\ st' = "done"
  /\ UNCHANGED <<views, at, mode, single_primary_mode, found_quorum>>

Next == NodeUnusable \/ NodeNoQuorum \/ NodeQuorum \/ GiveUp

Spec == Init /\ [][Next]_vars

(***************************************************************************)
(* Properties.                                                             *)
(***************************************************************************)

\* The routing table is the view of one server that is part of a quorum: the
\* modes written while servers without a quorum were asked leave no trace.
OneTrustedView ==
  st = "done" /\ members # {} =>
    \E n \in Instances : HaveQuorum(views[n]) /\ \A m \in Instances : mode[m] = ModeOf(views[n], m)

\* In single-primary mode at most one instance is writable.
OnePrimary ==
  st = "done" /\ members # {} /\ single_primary_mode =>
    \A m, n \in Instances : mode[m] = "RW" /\ mode[n] = "RW" => m = n

=============================================================================
