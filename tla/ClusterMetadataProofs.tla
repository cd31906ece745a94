----------------------- MODULE ClusterMetadataProofs -----------------------
(***************************************************************************)
(* The routing table that update_replicaset_status() leaves, for any       *)
(* number of instances and of servers the metadata lacks; and what the     *)
(* code's notion of a quorum is worth: two views of one membership that    *)
(* both have a quorum share an instance.                                   *)
(***************************************************************************)
EXTENDS ClusterMetadata, FiniteSetTheorems, TLAPS

\* What ended the search: nothing is left of the table, or it is the view of the
\* instance the loop was at.
Outcome ==
  st = "done" =>
    \/ members = {}
    \/ /\ at \in Instances
       /\ HaveQuorum(views[at])
       /\ mode = NewModes(views[at])
       /\ single_primary_mode = views[at].single

\* The inductive invariant.
IInv == TypeOK /\ Outcome

\* A mode is one of the three.
LEMMA NewModesType ==
  ASSUME NEW v \in Views PROVE NewModes(v) \in [Instances -> {"RW", "RO", "NA"}]
BY DEF NewModes, ModeOf

\* The search has not begun.
LEMMA Initially == Init => IInv
<1> SUFFICES ASSUME Init PROVE IInv
  OBVIOUS
<1>1. mode \in [Instances -> {"RW", "RO", "NA"}] /\ at \in 1..(NumInstances + 1)
  BY ClusterAssumption DEF Init
<1>2. QED BY <1>1 DEF Init, IInv, TypeOK, Outcome

\* Only the action that ends the search with a quorum leaves a table.
LEMMA Inductive == IInv /\ [Next]_vars => IInv'
<1> SUFFICES ASSUME IInv, [Next]_vars PROVE IInv'
  OBVIOUS
<1> USE ClusterAssumption DEF IInv, TypeOK
<1>1. CASE NodeUnusable
  BY <1>1 DEF NodeUnusable, Outcome
<1>2. CASE NodeNoQuorum
  <2>1. at \in Instances /\ NewModes(views[at]) \in [Instances -> {"RW", "RO", "NA"}]
    BY <1>2, NewModesType DEF NodeNoQuorum, Instances
  <2>2. QED BY <1>2, <2>1 DEF NodeNoQuorum, Outcome
<1>3. CASE NodeQuorum
  <2>1. at \in Instances /\ NewModes(views[at]) \in [Instances -> {"RW", "RO", "NA"}]
    BY <1>3, NewModesType DEF NodeQuorum, Instances
  <2>2. HaveQuorum(views[at])
    BY <1>3 DEF NodeQuorum, Status
  <2>3. views[at].single \in BOOLEAN
    BY <2>1 DEF Views
  <2>4. TypeOK'
    BY <1>3, <2>1, <2>3 DEF NodeQuorum
  <2>5. Outcome'
    BY <1>3, <2>1, <2>2 DEF NodeQuorum, Outcome
  <2>6. QED BY <2>4, <2>5
<1>4. CASE GiveUp
  BY <1>4 DEF GiveUp, Outcome
<1>5. CASE UNCHANGED vars
  BY <1>5 DEF vars, Outcome
<1>6. QED BY <1>1, <1>2, <1>3, <1>4, <1>5 DEF Next

\* The invariant holds throughout the search.
THEOREM Invariance == Spec => []IInv
BY Initially, Inductive, PTL DEF Spec

\* update_replicaset_status(): the table is the view of one server that is part
\* of a quorum, whatever the servers asked before it have reported.
THEOREM OneTrustedViewAlways == Spec => []OneTrustedView
<1>1. IInv => OneTrustedView
  BY DEF IInv, Outcome, OneTrustedView, NewModes
<1>2. QED BY Invariance, <1>1, PTL

\* check_replicaset_status(): in single-primary mode at most one instance is
\* given out as writable.
THEOREM OnePrimaryAlways == Spec => []OnePrimary
<1>1. ASSUME IInv, st = "done", members # {}, single_primary_mode,
             NEW m \in Instances, NEW n \in Instances, mode[m] = "RW", mode[n] = "RW"
      PROVE  m = n
  <2>1. /\ views[at].single
        /\ ModeOf(views[at], m) = "RW" /\ ModeOf(views[at], n) = "RW"
    BY <1>1 DEF IInv, Outcome, NewModes
  <2>2. QED BY <2>1 DEF ModeOf, IsPrimary
<1>2. IInv => OnePrimary
  BY <1>1 DEF OnePrimary
<1>3. QED BY Invariance, <1>2, PTL

\* A majority is a majority of the servers the view lists.
LEMMA QuorumMembersListed ==
  ASSUME NEW v \in Views
  PROVE  /\ QuorumMembers(v) \subseteq Members(v)
         /\ IsFiniteSet(Members(v)) /\ IsFiniteSet(QuorumMembers(v))
<1>1. QuorumMembers(v) \subseteq Members(v) /\ Members(v) \subseteq Nodes
  BY ClusterAssumption DEF QuorumMembers, Members, Instances, Nodes
<1>2. IsFiniteSet(Nodes)
  BY ClusterAssumption, FS_Interval DEF Nodes
<1>3. QED BY <1>1, <1>2, FS_Subset

\* check_replicaset_status(): two servers that list the same members and are
\* both taken to be part of a quorum count some instance in common, although
\* each counts only instances the metadata knows: the two sides of a partition
\* cannot both be trusted.
THEOREM QuorumsIntersect ==
  ASSUME NEW v \in Views, NEW w \in Views, Members(v) = Members(w),
         HaveQuorum(v), HaveQuorum(w)
  PROVE  QuorumMembers(v) \cap QuorumMembers(w) # {}
<1> DEFINE M == Members(v)
           Q == QuorumMembers(v)
           R == QuorumMembers(w)
<1>1. Q \subseteq M /\ R \subseteq M /\ IsFiniteSet(M) /\ IsFiniteSet(Q) /\ IsFiniteSet(R)
  BY QuorumMembersListed
<1>2. /\ Cardinality(M) \in Nat /\ Cardinality(Q) \in Nat /\ Cardinality(R) \in Nat
  BY <1>1, FS_CardinalityType
<1>3. Cardinality(Q) > Cardinality(M) \div 2 /\ Cardinality(R) > Cardinality(M) \div 2
  BY DEF HaveQuorum
<1> HIDE DEF M, Q, R
<1>4. Cardinality(Q) + Cardinality(R) > Cardinality(M)
  BY <1>2, <1>3
<1>5. SUFFICES ASSUME Q \cap R = {} PROVE FALSE
  BY DEF Q, R
<1>6. Cardinality(Q \cup R) = Cardinality(Q) + Cardinality(R)
  BY <1>1, <1>2, <1>5, FS_Union, FS_EmptySet
<1>7. Cardinality(Q \cup R) <= Cardinality(M)
  BY <1>1, FS_Subset
<1>8. QED BY <1>2, <1>4, <1>6, <1>7
=============================================================================
